# Formal models of the multi-plane demo

TLA+ models of the program in this repository: a **management plane** that
accepts tenants and provisions pairs of planes, a **control plane** per pair
that keeps the desired configuration of its tenants, and a **data plane** per
pair that serves it; and of the operator's tools around them, which size, build,
deploy, prepare, test and remove a deployment. Safety and liveness are model-checked
with TLC on small instances. The safety of the coordinator, of the two reconcilers,
of the prepared Azure environments, of the fault helper, of the deployment of a plane,
of the image build, of the sizing, of the acceptance runs and of the removal of everything is
proved with TLAPS for every number of processes, operators, commands, tenants, pairs and children.

## 1. The system

| Component | State it keeps | Operations | Talks to |
|---|---|---|---|
| Management API (`src/plane_demo/management/api.py`, `sql/management.sql`) | `tenants`, `operations`, `pairs`, `events` | `accept_tenant`, status and operation reads | its database |
| On-demand coordinator (`provisioner.py`, `provisioning.py`, `shared/db.py`) | a database session with an advisory lock, the operation it claimed, the stage it is at | claim, observe a stage, build it, complete, fail, interrupt | management database, Radius and Kubernetes through a provider |
| Providers (`providers/local.py`, `workloads.py`, `commands.py`, `azure.py`) | markers and resources in Radius and Kubernetes | inspect, register, submit, verify, each a guarded command | clusters |
| Control reconciler (`control/reconciler.py`) | the rows of one poll | poll management, `ensure_tenant`, report | management and control databases |
| Control API (`control/api.py`, `sql/control.sql`) | `tenant_config`, `events` | update a configuration, status | its database |
| Data reconciler (`data/reconciler.py`, `shared/kube.py`) | the rows of one poll | poll control, read and write the tenant's ConfigMap, report | control database, the cluster |
| Data API (`data/api.py`) | a Redis counter per tenant | serve the ConfigMap, count | cluster, Redis |
| Azure operators (`scripts/operations/azure/bootstrap.py`, `clean-environment.py`, `environment_operator.py`) | a Kubernetes Lease, one allocation journal per pair | reserve, deploy a foundation, run a Job, verify, remove | clusters, Azure |
| Administrative Jobs (`prepare-environment.py`, `environment_job.py`, `run-management-job.py`) | the Job, its attempt record | prepare or retire one pair | management database, Radius, Lease |
| Environment registry (`providers/environment_registry.py`, `sql/management-prepared.sql`) | `pairs.stage` | register, available, retire, admission | management database |
| Fault helper (`scripts/harness/fault-parent-link.py`) | one ConfigMap per component, the journal, and a blocking network policy | block a parent link and restore it, restore what a dead run left | the cluster |
| Deployment of a plane (`providers/azure.py`, `local.py`, `secret_store.py`, `setup/bootstrap.py`, `redis_nic_tags.py`, `certificates.py`) | credentials in a store, the initialization Secret and Job, roles' passwords, runtime Secrets, gateway, tags of an interface | settle credentials, initialize the database once, deploy in two phases, issue a certificate, tag | credential store, Radius, PostgreSQL, Azure |
| Image build (`scripts/operations/azure/build.sh`, `provenance.shlib`, `images.shlib`, `build_provenance.py`, `remote_inspection.py`, `image_inspection.py`) | a receipt, runs of the registry, tags and locks, the proof of each component | build, recover, inspect, promote, lock, prove | the Azure registry |
| Bootstrap sizing (`bootstrap.py`, `foundation.sh`, `resource_sizes.py`, `node_sizes.py`, `postgres_sizes.py`) | sizes in `.env`, the foundation's deployment | choose, save, submit, compare | Azure |
| Removal of a deployment (`scripts/operations/clean-azure.py`, `local/cleanup.py`) | none of its own | inventory, quiesce, delete applications, clusters, groups and roles, look again | Radius of every cluster, Azure, kind |
| Acceptance harness (`scripts/harness/test-e2e.py`) | one ConfigMap per run, the journal | admit, update, pause a reconciler, block links, continue another run | the three APIs, clusters, fault helper |
| Infrastructure declarations, access rules, packaging, tests | | see section 9 | |

What is hard in it:

* **Two of what should be one.** Coordinators, reconcilers and operators overlap
  during a rolling restart or after a network split. What separates them is an
  advisory lock that belongs to a database *session*, conditional writes, or a
  Lease that is handed to a Job and back.
* **Requests outlive their sender.** A command is killed after a timeout, a
  connection is lost, a pod's node goes away. The request it sent takes effect
  at any later time or never.
* **Crash anywhere.** Nothing is replayed: an interrupted operation is ended as
  `interrupted`, a Job has one attempt, a half submitted foundation stops
  everyone ("Neither path automatically replays interrupted infrastructure
  work", `README.md:133`).
* **Stale reads.** Reconcilers work through rows they read a while ago; cleanup
  looks for tenants long before it deletes, and whether a deployment is at work
  before each mutation; sizes are chosen one after the other from a file and from
  quotas that others change.
* **No compare-and-swap.** Key Vault takes a write whatever was there, an
  acceptance run scales a reconciler whoever scaled it before. What keeps two
  writers apart is elsewhere: a Lease, a Job, a rule of the guide.

`PROJECT.json` lists each hazard at its line with the properties that cover it.

What makes each part correct:

* coordinator: no stage is built twice, one operation is open at a time and
  belongs to the lock's holder, only finished pairs are offered, every operation
  ends, the event timeline agrees with the operation;
* control reconciler: `ready` means that a record exists, reports only move
  forward, every tenant of an offered pair becomes ready;
* data reconciler: only what was asked for is served, never an older version
  after a newer one, `applied` means applied, and the last version is served in the end;
* Azure environments: one owner of the Lease, one attempt per Job, tenants only
  on pairs that stand, nothing deleted below a tenant, allocation indices for good;
* fault helper: a policy that blocks a link is always in the journal as an attempt
  that is not restored, and no journal is a dead end for `--restore`;
* deployment of a plane: the database accepts the passwords of the store and of the
  runtime Secrets, the clients' key never changes, a run that ends well leaves a
  complete plane, and repeated runs get there or stop where an operator is needed;
* image build: a component is built once however often a command was stopped,
  whatever runs was inspected and runs as committed, a proof stays true;
* sizing: what is deployed fits the quotas it was chosen for, what runs already does
  not block itself, nothing that stands is resized;
* removal: nothing is left that no one can delete any more, "clean" means nothing is
  left, deployments that begin meanwhile are not cut down;
* acceptance harness: it never accuses a healthy system, what it records as proved
  was so, and it leaves neither a pause nor a block behind.

## 2. Modules

| Module | Models | Composes |
|---|---|---|
| `OperationLifecycle` | abstract: what the management API promises of an operation and its pair | |
| `Provisioning` | management database, coordinator processes, the stages of a pair | shown to implement `OperationLifecycle` |
| `ProvisioningProofs` | theorems: type correctness and safety of `Provisioning`, its timeline, and that it implements `OperationLifecycle` | |
| `ReportLog` | the rule by which a reconciler's report is recorded | |
| `Onboarding` | control reconcilers between the management and control databases | takes its management side from `OperationLifecycle`, so the two compose through the proved refinement; `ReportLog` |
| `TenantOnboarding` | `Onboarding` under names that do not meet those of `ConfigPropagation` | instance of `Onboarding`; has the assumptions on its constants |
| `PropagationPromise` | abstract: what the planes promise of one configuration | |
| `ConfigPropagation` | control database, data reconcilers, ConfigMap | `ReportLog`; shown to implement `PropagationPromise` |
| `TenantProofs` | theorems: type correctness and safety of `Onboarding` and of `ConfigPropagation`, and that the latter implements `PropagationPromise` | `TenantOnboarding`, `ConfigPropagation` |
| `PreparedEnvironments` | Azure operators, Lease, Jobs, registry, admission | |
| `PreparedEnvironmentsProofs` | theorems: type correctness and safety of `PreparedEnvironments` | |
| `FaultJournal` | the fault helper: runs, restorations, journal, policies | |
| `FaultHelper` | `FaultJournal` under names that do not meet those of `Acceptance` | instance of `FaultJournal`; has the assumptions on its constants |
| `PlaneDeployment` | the deployment of one plane and the runs that repeat it: credential store, database initialization, Secrets, gateway, certificate, tags | |
| `PlaneDeploymentProofs` | theorems: type correctness and safety of `PlaneDeployment` | |
| `ImageInspection` | what an inspection asks of the file system of an image | |
| `ImageBuild` | build commands, the registry's runs, tags, locks and proofs | `ImageInspection`; compared with a kernel's walk of paths |
| `ImageBuildProofs` | theorems: type correctness and safety of `ImageBuild` | |
| `FoundationSizing` | bootstrap commands, `.env`, quotas, the foundation's deployment | |
| `FoundationSizingProofs` | theorems: type correctness and safety of `FoundationSizing` | |
| `Cleanup` | the removal of a whole deployment, and what still builds in it | |
| `CleanupProofs` | theorems: type correctness and safety of `Cleanup` | |
| `Acceptance` | acceptance runs, their journals, the system as they see it | |
| `HarnessProofs` | theorems: type correctness and safety of `Acceptance` and of `FaultJournal` | `Acceptance`, `FaultHelper` |
| `MC*` | instances for TLC | |

In each module an operator whose comment begins *a slip:* is not part of the
specification. It is a plausible wrong version of the definition below it, and
shows that the property it is paired with in `PROJECT.json` would notice.

### Provisioning

State: `assigned`, `status`, `opStage`, `pairStage` and `events` are columns of the
management tables; `lock` is the holder of the session lock `(35510,2)`; `pc`,
`work` and `step` are the coordinator process; `marked`, `built`, `submissions`,
`builders` and `inflight` are what became of the requests it sent.

* `AcceptTenant` is `management.accept_tenant` with its three refusals.
* `StartSession`, `InterruptRunning`, `Prepare`, `ClaimPending` are `main` and
  `run_loop`: take the lock, interrupt what a predecessor left running, prepare
  management, poll.
* `ReadPair`, `ReusePair`, `ObserveStage`, `InspectStage`, `RegisterMarker`,
  `SubmitStage`, `VerifyStage`, `Complete`, `RecordFailure` are `run_once`,
  `provision_pair` and `prepare_pair` with their eight stages. A stage with a
  marker fails if the marker is there already: an interrupted stage is not replayed.
* `LoseSession`, `Crash`, `ReapSession`, `StaleExit`: the lock may be lost in the
  middle of anything. A process notices when it checks its session, before it
  sends. `RequestLands` takes effect whoever holds the lock by then.

Why stages are built once: the stages that create clusters are guarded by a
marker that is created before the request; `accept_tenant` puts every tenant of
the shared pair on the same pair, but a half built pair makes the next operation
fail at its first marker.

### ConfigPropagation

One tenant, since the rows of a poll are independent. `row`, `asked` and `events` are
control's tables (`asked` is history), `map` and `revision` the ConfigMap and its
resource version. A poller reads the row (`PollControl`), reads the map (`ReadMap`:
refuse a version that went backwards, keep what is equal, or prepare a conditional
write), and its write lands (`WriteLands`) if the resource version still agrees,
perhaps after it gave up (`CallFails`) or died. `ReportData` sends a report,
`ReportLands` is `report_data`. `DeleteMap` is the operator who deletes a ConfigMap
to lift an immutable one.

### Onboarding

A reconciler of a pair polls the tenants of its pair if the pair is available
(`PollTenants`), works through them (`CallEnsure`, `EnsureLands`, `EnsureFails`),
reports each (`ReportControl`, `ReportLands`), and may die anywhere. `Ready` and
`ControlRecord` are what `tenant_status` answers. The management side is
`OperationLifecycle!Next`, so nothing here depends on how pairs are provisioned.

### PreparedEnvironments

`holder` is `holderIdentity` of the Lease, `current` the operators whose read of it
is still fresh (the resource version test of the patch). An operator's `pc`
follows the command: `ReadLease`, `TakeLease`, `Reserve`, `MarkSubmitting`,
`SubmitFoundation`, `FoundationAnswered`, `CallJob`, `HandLease`, `StartJob`,
`ReadBack`, `TakeBack`, `VerifyReady`, `MarkAvailable` for `bootstrap.py`;
`DeleteApps`, `DeleteClusters`, `MarkRetired`, `TagRetired` after the retirement Job
for `clean-environment.py`. `ReleaseSafe` is `release_safe`, place by place. A pod
guards, claims the one attempt of its Job, registers, builds and opens the pair, or
retires it, each step under `Active`. The Job may fail at any time, and a pod whose
node is lost may go on next to its replacement.

### FaultJournal

`journal` is the ConfigMap: whose record it has, whether the fault was attempted and
restored, and whether it carries the seal with its own uid. `current` are the helpers
whose last answer from the API server is still its version, so `h \in current` is
both the comparison of `check` and the resource version of a replacement. A run goes
`PrepareFault`, `LookForJournal`, `CreateJournal` and `SealJournal` or `ReuseJournal`,
`PlanFault`, `CommitFault`, `CheckCommitted`, `CreateFault`, `SaveProgress`, `EndFault`;
a restorer enters with `LoadJournal`; and both go through `BeginRestore` to
`SaveRestored` or `SaveFailure`, or to `CancelUnsealed`. `Fail` says where an error
leads at each place: an activation restores, a restoration records that it failed, and
what fails after that ends the process. A refused run remembers the journal it
was refused for, and restores "its" fault with it; `SameIntent` is what stops it.

### PlaneDeployment

One plane of role `management`, `control` or `data`, on Azure or locally. A run follows
`deploy_plane` step by step: `Read`, `Create`, `ReadBack` for each credential,
`Seed`, `LookForDatabase`, `CreateInitSecret`, `DeployDatabase`, `CreateInitJob`,
`AwaitInitJob`, `CleanInitialization`, `Runtime`, `WriteApiSecret`,
`WriteWorkerSecret`, `DeployApp`, `TagRedisNic`, `Certificate`, `DeployHttps`,
`Verify`. `Land`, `DatabaseMade`, `Initialize`, `AppDeployed`, `TagJob` and
`IssueCertificate` are what the store, Radius and the Jobs do in their own time, also
for a run that is gone.

A run holds a `claim`: locally the Lease, on Azure the Job it runs in. On Azure an
operator may delete the Job while its pod still works (`RemoveJob`, `StopPod`) and
start another; every command of the pod asks first whether its Job is still there.
That question and the sending are one step, but a value sent to Key Vault lands
separately. The store has no compare-and-swap (`secret_store.py:245`): a value that
lands after its sender gave up or lost its claim may replace another. `late` says "stray"
when one landed so, and "overtaken" when one that nobody waits for, or one after a stray
one, replaced a value; the properties that it breaks exclude just that. Not excluded is
the first write of a pod that lost its claim but still waits: that it replaces nothing is what
the guard against other pods (`MayWrite`) is for. Values are what the
operator may provide (`Given`) and what the store's clients generate (`Generated`). A run
after a failed or deleted Job is the operator's act (`RUN_AZURE_SCENARIOS.md:1320`).
`Stuck` names the states from which no further run can succeed.

### ImageInspection and ImageBuild

`ImageInspection` has the rules by which `inspect_export` judges an exported image
(`Inspects`): what the selected source places in it, file by file; compiled files that
belong to their sources; links, followed to a bound; what user 10001 may read, execute
and list. `ImageBuild` says independently what an image is for: `Opens` walks a path
as the kernel does, `RunsAsCommitted` asks that every file and tool can be opened.

A command (`cmd`) goes `Look`, `FindVerified`, `FindNothing` or `FindPending`, `Recover`
or `Submit`, `Resolve`, `Finish`, `RequestCheck` to `Report`, `Import` or
`KeepCanonical`, `Observe`, `Lock`, `AssertLock`, component after component. Receipts and
proofs are written by a merge that compares what it replaces (`MergeWrites`). Runs of
the registry end in their own time (`EndRun`, `EndCheck`). A digest is the number of the
run that built it. `Push` is somebody who pushes a tag by hand, `UpdateTools` a new
verifier. "Run only one build command per deployment at a time" (`build.sh:22`) is a rule
nothing enforces, so commands may overlap here and `overlapped` tells.

### FoundationSizing

`env` is the `.env` file of the checkout, `record` the ARM deployment, `cluster` the AKS
clusters and `counted` those that the reported usage includes. A command runs the three
selectors in order: `Inventory`, `ChooseResources`, `ChooseNodeByTemplate`,
`ChooseNode`, `ChoosePostgres`, with a `Save` after each that fails if `.env` is not
what the selector loaded; then `CheckPrior`, `Submit`, `Wait`, `Compare`, or, for an
isolated pair, `Add`. `ChangeOffer`, `ChangeLoad`, `EditEnv` are the world around it; the
clusters' nodes start within the quotas (`WithinQuotas`), and the reported usage follows
them in steps of its own (`Count`). `disturbed` records that `.env` was edited or the offer
or the load changed while a command was under way, and that a node size was chosen
while the reported usage was below what the clusters already had (`Lagging`). Four of the eight settings stand for all: one with fixed choices, two that
depend on the region, one that an external vault decides.

### Cleanup

`place` is "azure" or "local". `app`, `native`, `host`, `owner` and `serial` are what
Radius and Terraform know, `group` and `roles` the foundation, `pods` the management
processes that still submit children. The command goes `Start`, `Inventory`,
`Dependencies`, `Quiesce`, `AwaitPods`, then per slot `DecideApp`, `AwaitApp`,
`DecideOwner`, `AwaitOwner`, `DecideHost`, `AwaitHost`, always on the first slot of
`todo` in the order of `Line`, then `ManagementEmpty`, `DeleteGroup`,
`DeleteManagement`, `DeleteRoles` and `Verify`. It keeps no record: after `Fail` or `Die` it starts from the inventory again. Each mutation is
decided (`Decide`: the last checks) and then sent (`Send`), and a deployment may take its
Lease between the two. On Azure the command holds the operator Lease while management
exists; locally it only looks whether a Lease is there. `Disturbed` is a local
deployment that took *and* gave back its Lease between two looks, which the command
cannot notice; `beside` remembers it.

### Acceptance

A run is a script of steps, `todo`, which `Script` composes as `run`, `scenario`,
`verify_existing`, `management_outage` and `control_outage` do; `with` blocks are a step
that opens (`pause`, `guard`) and one that closes (`resume`, `lift`), and an error inside
goes to the next step that closes (`AfterError`). `Begin`, `SaveEvent`, `Finish`,
`LoadFirstAdmission` and `ClaimContinuation` are the journal with its resource
versions. Steps look (`AwaitReady`, `Collected`, `Tallied`, `LatestOnly` ...) or change
something (`Post`, `Put`, `Stop`, `Scale`, `Block`, `Lift`, `RestartDataApi`); the answer of
a step that changes something may be lost after its effect (`Mutates`). A poll for an applied
configuration reads the control plane (`AskControl`) and then the data plane (`AskData`), and
starts again when they do not agree. An admission with `check_busy` looks at the operation (`BusyWindow`) and then
asks for another tenant (`AskWhileBusy`); the end of `paused_reconciler` looks at the replicas
(`Resume`) and then patches them under a test of what it saw (`Scale`). The system is healthy:
`Provision`, `CreateRecord`, `Apply` and the
rest happen in their own time and never fail. So a step whose assertion does not hold
(`Asserts`) is an accusation of a healthy system, while a timeout or a failing call is not.

## 3. Runs

| Run | Instance | Distinct states (about) | Question |
|---|---|---|---|
| `provisioning` | 2 processes, 2 tenants, the shared pair | 160,000 | `StageSubmittedOnce`, `AvailablePairIsBuilt`, `ImplementsLifecycle`, `OperationsEnd` |
| `config_propagation` | 2 pollers of which one stays, 2 versions, 1 deletion | 614,000 | `ServedIsAsked`, `AppliedIsServed`, `ImplementsPromise`, `Converges` |
| `onboarding` | 2 tenants, 1 pair, 1 reconciler, the first tenant interrupted | 18,300 | `RecordOnFinishedPair`, `ReadyHasRecord`, `ReportsMoveForward`, `EventuallyReady` |
| `fault_journal` | 2 runs, 1 restorer | 3,200 | `FaultIsJournalled`, `RestoredInTheEnd` |
| `prepared` | 2 operators on one pair with 2 pods per Job, or 1 operator on 2 pairs with 1 pod per Job; 1 tenant | 830,000 | `LeaseProtectsWork`, `OneAttempt`, `AssignedIsReady`, `UnknownKeepsLease`, `RetiredStaysClosed`, `AllocationsDistinct` |
| `prepared_success` | 1 operator, 1 pair | stops at the violation | finding 1 |
| `plane_deployment` | 2 runs that may overlap, or 1 run that is repeated with everything around it | 867,000 | `PasswordsAgree`, `RuntimeWorks`, `DeployedIsComplete`, `KeyStays`, `CompleteInTheEnd` |
| `image_build` | 2 commands, 1 trouble, 8 images | 278,000 | `ProofHolds`, `PromotedRunsAsCommitted`, `NoSecondBuild`, `BuildFinishes` |
| `foundation_sizing` | 2 commands, 1 change, 1 rerun, 3 loads | 1,172,000 | `FleetFits`, `OwnCoresNeverBlock`, `NothingResized` |
| `cleanup` | 2 children, 2 builds, 1 deployment, 1 fault, 1 failure | 520,000 | `NoOrphans`, `NothingLeft`, `LeaseStopsMutations`, `CleanInTheEnd` |
| `acceptance` | a local scenario and its continuation, or 1 run in every other mode and site | 1,448,000 | `ReadinessIsProved`, `NothingLeftBehind`, `NoFalseAlarm`, `ContinuedIsOver` |
| `acceptance_outages` | a scenario that passed on Azure, then the outages | stops at the violation | finding 2 |

Bounds, and why they are enough:

* *Two processes* are needed for an overlap of an old and a new one; a third does
  nothing new, as the lock, the resource version and the Lease let one of them
  through. Where there is a proof, it is for any number.
* *Two tenants* let one operation follow or exclude another; on the shared pair the
  second meets what the first left. An isolated pair is not in the instance; the
  proofs of `Provisioning` are for any set of pairs.
* *Eight stages* are the real number. No bound is put on crashes, lost sessions or
  requests in flight: requests are kept as a set.
* `MaxVersion = 2` gives a stale version something to overwrite. `MaxDeletions = 1`
  has every race of a deletion with a read, a write and a report. The deletion
  comes after the last version was served, and each version has one message; the
  proofs have neither restriction.
* `onboarding` starts from `Interrupted` (in `MCOnboarding`): one operation was interrupted
  and left its pair half built, control knows nothing yet. From there the second
  tenant's operation may finish the pair or not.
* `MaxPods = 2`: a third pod is refused by the attempt record like the second. Two
  pairs: one to retire and one to take its index wrongly. Operators and replaced pods
  meet on a pair, so two pairs come with one operator and one pod per Job. `present` says
  which of the two instances a behaviour belongs to.
* Two runs of the fault helper: one to be interrupted and one to be refused or to reuse
  its journal. A run has one turn, a restorer any number.
* `plane_deployment`: two runs that overlap, with a failure and a deleted Job, but
  without edits of the key, a replaced interface or a rerun of a finished plane, which
  concern one run after another; the second instance has those. A replaced interface meets
  failures and reruns only. A claim is removed twice only where nothing else happens: a
  run that lost its claim then awaits a write while the third run holds it. Nine
  generated values are more than two runs ever need at once.
* `image_build`: two commands, as the receipt is all that one leaves for the next. One
  trouble (a stop, an overlap, a pushed tag, a new verifier), besides any number of builds
  that fail. Of the images, two are good and each other has one fault that
  one rule of the inspection is there for. The first command recovers an older build where
  there is one, else builds.
* `foundation_sizing`: three VM sizes of two families, two PostgreSQL SKUs and two offers,
  chosen so that each rule (zone restrictions, quota of the family, quota of the
  region, own cores) decides once; 28 cores so that the fleet fits with a surge node
  just when nobody else uses more. One of the three loads is of other
  families: the reported usage then lags visibly in the fleet's own family alone, and a size
  of another one is still eligible.
* `cleanup`: a data and a control plane, so that the order of children matters; two
  builds, so that one may begin beside the run. One failure at any place shows each
  restart; a failed run is repeated without bound.
* `acceptance`: overlaps are of a local scenario and the run that continues it, which is
  where the code expects an overlap. `MaxVersion = 6` is more than a script reaches. Two
  overlapping runs of other modes on existing tenants are too many states and not checked.
* Deadlock is not checked: clients stop asking, commands end, an operator that died with
  the Lease blocks the others for good, and bounds end the changes.
* Symmetry is used in `prepared` and `foundation_sizing`, which have no
  liveness, over identifiers the code does not order. Pairs are ordered and not
  symmetric.
* The `TypeOK` of a module is proved where there are proofs; elsewhere it documents the
  state. Eight more properties are proved and in no run, because another one implies
  them or a run would add nothing: `TimelineTellsOperation`, `RunningIsOwned`,
  `OneBuilderPerPair`, `AppliedWasHeld`, `FailureOnlyBeforeSuccess`, `JournalForward`,
  `PromotedPassed`, `PromotedHoldTheSource`.

## 4. Fairness

* `Provisioning`: Kubernetes restarts an exited coordinator, the server ends the
  session of a dead client, and a live process takes its next step or fails,
  since every command has a timeout (weak fairness). A process may die any number
  of times, but not at the same point of its startup for ever: interrupting,
  preparing and claiming happen if they are possible again and again (strong
  fairness). **No request is promised to take effect.**
* `ConfigPropagation`: reconcilers keep polling and every call
  returns or fails (weak fairness). A call may fail again and again but not every
  time for ever (strong fairness on the answer). A report is sent at every poll, so
  one of its copies is recorded. Clients and operators owe nothing.
* `Onboarding`: reconcilers keep polling and every call returns or fails (weak
  fairness), no more. That calls are answered now and then is a hypothesis about one tenant
  (`Answered`), inside `EventuallyReady`: it says of each tenant whose own calls are
  answered that it becomes ready, also when every call for the other one fails for
  ever. Management owes nothing.
* `ConfigPropagation` is run with fairness for one of the two pollers: of two that overlap
  in a rollout, one is there to stay and the other owes nothing.
* `PreparedEnvironments` has no liveness property: an operator that died keeps
  everyone out until a person intervenes, by design.
* `PlaneDeployment`: processes and Jobs take their next step (weak fairness; every call
  has a timeout), the pod of a deleted Job is stopped, a stored value lands,
  and the operator deploys again until a run ends well, removing the claim of a run
  that ended before. Failures are bounded by `MaxFailures`.
* `ImageBuild`: a command that runs goes on, and the registry ends the runs it accepted
  (weak fairness). Nobody promises to start a command.
* `Cleanup`: the operator repeats the command until it is done, as the guides ask
  (strong fairness of `Start`, since it may be refused while a deployment
  runs; weak fairness of the run), ends every deployment and restores every fault.
  Radius and Kubernetes carry out what they accepted.
* `FoundationSizing` and `Acceptance` have no liveness property: their commands are run once
  and may stop anywhere.
* `FaultJournal`: a run of the helper goes on, fails or reaches the end of its time,
  since all its calls have timeouts (weak fairness); a killed one is gone. The operator
  calls `--restore` again until it succeeds, as the guide asks
  (`RUN_AZURE_SCENARIOS.md:1022`), and no step of the restoration fails every time for
  ever (strong fairness per step).

## 5. What is proved

For every set of processes, operators, commands, runs, tenants, pairs, children, messages,
values, images, sizes and quotas, and every bound on versions, failures, deletions and pods (TLAPS):

| Theorem | Statement |
|---|---|
| `ProvisioningProofs!TypeCorrect` | `Spec => []TypeOK` |
| `ProvisioningProofs!RunningOwned` | a running operation is the one its lock's holder works on |
| `ProvisioningProofs!SubmittedOnce` | no stage of a pair is submitted twice |
| `ProvisioningProofs!OneBuilder` | the stage requests of a pair that landed came from one operation at most |
| `ProvisioningProofs!AvailableIsBuilt` | a pair that is available has all eight stages built |
| `ProvisioningProofs!Implementation` | `Spec => OperationLifecycle!Spec` under the refinement mapping |
| `ProvisioningProofs!TimelineTells` | the event timeline agrees with the operation |
| `TenantProofs!OnboardingTypeCorrect` | `Spec => []TypeOK` |
| `TenantProofs!ReadyIsRecorded` | a tenant that is ready has a record in control |
| `TenantProofs!RecordDeserved` | records exist only on pairs that an operation finished |
| `TenantProofs!ReportsForward` | a tenant's reported status never goes back |
| `TenantProofs!TypeCorrect` | `Spec => []TypeOK` |
| `TenantProofs!OnlyAskedIsServed` | what is served was asked for |
| `TenantProofs!AppliedIsWitnessed` | what is recorded as applied was served |
| `TenantProofs!TimelineOrdered` | no failure of a version after its success, nothing twice |
| `TenantProofs!AppliedServes` | status `applied` and no deletion: the desired version is served |
| `TenantProofs!Implementation` | `Spec => PropagationPromise!Spec` under the refinement mapping |
| `HarnessProofs!FaultTypeCorrect` | `Fault!Spec => []Fault!TypeOK` |
| `HarnessProofs!FaultsAreJournalled` | a blocking policy is that of the journal's unrestored attempt |
| `HarnessProofs!JournalOnlyForward` | no unrestored fault is taken over or forgotten |
| `HarnessProofs!TypeCorrect` | `Spec => []TypeOK` |
| `HarnessProofs!ReadinessRecordedIsProved` | readiness is recorded only by a run that stopped the reconciler and saw it gone |
| `HarnessProofs!CleanupIsAhead` | no pause and no blocked link outlives its run, unless it was killed or its cleanup failed |
| `HarnessProofs!ContinuedJournalIsOver` | a journal that was continued is never written again, by an event or by an outcome |
| `PreparedEnvironmentsProofs!TypeCorrect` | `Spec => []TypeOK` |
| `PreparedEnvironmentsProofs!LeaseProtects` | whoever works on an environment has the Lease, alone |
| `PreparedEnvironmentsProofs!SingleAttempt` | of the pods of a Job one at most works |
| `PreparedEnvironmentsProofs!AssignedStands` | the environment of an admitted tenant stands |
| `PreparedEnvironmentsProofs!RetiredForGood` | a pair whose retirement was committed is never opened again |
| `PreparedEnvironmentsProofs!IndicesForGood` | no two pairs ever share an allocation index |
| `PreparedEnvironmentsProofs!UnknownBlocks` | a submission with an unknown outcome keeps the Lease |
| `PlaneDeploymentProofs!TypeCorrect` | `Spec => []TypeOK` |
| `PlaneDeploymentProofs!PasswordsStayGood` | the passwords in the database are those in the credential store |
| `PlaneDeploymentProofs!RuntimeSecretsWork` | the runtime Secrets have passwords the database accepts |
| `PlaneDeploymentProofs!DeployedMeansComplete` | after a run that succeeded the plane has all its parts |
| `PlaneDeploymentProofs!KeyNeverChanges` | the demo key of a running plane is never replaced |
| `ImageBuildProofs!TypeCorrect` | `Spec => []TypeOK` |
| `ImageBuildProofs!ProofsHold` | a completed proof tells of the locked canonical image, which was inspected |
| `ImageBuildProofs!PromotedImagesPassed` | what a command put under a canonical tag passed the inspection |
| `ImageBuildProofs!PromotedImagesHoldTheSource` | and holds the committed files and the pinned tools, as regular files, with no bytecode but theirs |
| `ImageBuildProofs!BuiltOnce` | commands that do not overlap build no component twice |
| `CleanupProofs!TypeCorrect` | `Spec => []TypeOK` |
| `CleanupProofs!ChildrenKeepTheirOwner` | no child outlives the management that could delete it |
| `CleanupProofs!CleanMeansGone` | a cleanup that reports success left nothing behind |
| `CleanupProofs!DeploymentsAreSpared` | at most one mutation reaches a deployment that has the Lease |
| `FoundationSizingProofs!TypeCorrect` | `Spec => []TypeOK` |
| `FoundationSizingProofs!FleetAlwaysFits` | what is about to be deployed fitted the quotas it was chosen by |
| `FoundationSizingProofs!OwnCoresNeverCount` | what a deployment runs already does not make its own size ineligible |
| `FoundationSizingProofs!NoResize` | commands that overlap deploy no other sizes over those of another |

Assumptions: `ProvisionersAssumption`, `TenantsAssumption`, `PairsAssumption` of
`Provisioning` and their namesakes of `TenantOnboarding`, `MessagesAssumption` of
`ConfigPropagation`: the null values are not members, and the pairs of `Provisioning`
are positive numbers. `BoundsAssumption` of `ConfigPropagation` says that its two bounds
are natural numbers and that one version at least is allowed. `HelpersAssumption` and
`JournalAssumption` of `FaultHelper`: runs are not restorers, null values are not
members. `RunsAssumption`, `TenantsAssumption` and `BoundAssumption` of `Acceptance`: no run is
`NoRun`, the tenants the scripts name are different ones, and one version at least is
allowed. `PairsAssumption`, `StartsAssumption`, `MaxPodsAssumption` and
`OperatorsAssumption` of `PreparedEnvironments`: pairs and allocation indices are positive
numbers, a Job has a pod at least, and in the Lease an operator, a Job and nobody can be
told apart. `CleanupAssumption`: there is a child at least, management is not one, and the
bounds are natural numbers. `RunsAssumption`, `BoundsAssumption` and `ValuesAssumption` of
`PlaneDeployment`: `NoRun` is not a run, the bounds are natural numbers, and a value that
is provided or generated is neither `None` nor `Setup`. `SizingAssumption` of
`FoundationSizing`: the clusters are finitely many and those of the pair are others than the
foundation's, cores, quotas and loads are natural numbers, a size's family has a quota, and
a setting that is not saved is told from every value. `NoDigestAssumption`,
`TroublesAssumption` and `NoTagAssumption` of `ImageBuild`: no digest, a foreign one and
the digest of a run are told apart, so are a tag and no tag, and the bound is a natural number.

**Provisioning.** `StageSubmittedOnce` is not inductive: it says nothing of requests
still in flight, or of what a process that lost its lock believes. The invariant
`IInv` has these parts:

* `RowInv`: types; a process's work fits its place; an operation is placed exactly
  when its tenant is; one operation is active; and `RunningIsOwned`;
* `Requested`: while a stage request is in flight, its pair is allocated, the pair's
  first marker exists, that stage was not submitted yet, nobody else built on the
  pair, and it is the only stage request in flight for the pair. Whatever was submitted or
  built on a pair, its first marker exists;
* `HolderKnows`: what the holder of the lock believes is true: which stages of its
  pair are built, that it alone has requests in flight, and that a stage it is about
  to send was never sent. A *stale* process has no such knowledge, which is why the
  session check before each command matters.

The step proof has one lemma per part and one step per action. The refinement
maps `phase` to `status`, `placement` to `assigned`, `offered` to the pairs whose
stage is `available`. Most actions stutter. The acceptance, the claim, the
completion, the failure and the interruption are the abstract steps. The
interruption ends *every* running operation at once and is one abstract step only
because at most one is active.

**Onboarding.** `ReadyHasRecord` says nothing of a reconciler that is about to report,
or of a report on its way. `Supported` adds both: each of them has a record behind it.
`RecordOnFinishedPair` says nothing of the rows that were read a while ago. `Deserved`
follows a record back to where it comes from, the offered pair, the batch of rows,
the call in flight, and holds because an operation that succeeded stays so.

**ConfigPropagation.** The resource version is what keeps a late write out, and
`Fresh` says why: a write in flight carries the resource version its sender read, and
while the map still has that resource version it is still older than the write.
So a write that is accepted moves forward, however late. Without deletions the map
then holds the newest version it ever had (`Newest`), and what is reported as
applied was held (`Witnessed`), which gives `AppliedIsServed`. In the refinement a
write that is accepted is `Serve`, a success report that is recorded `Acknowledge`,
a deletion `Withdraw`; everything between is a stutter.

**FaultJournal.** `FaultIsJournalled` says nothing of a run that is about to create its
policy, or of a helper that is about to record a restoration. `Owns` says that from its
first write the journal is the run's own until it restores or dies. `Nothing` says
that no policy is left where a helper may still record a restoration. Both survive the others'
steps because whoever may still replace the journal holds its run's record
and that run has ended (`Loaded`), or holds another record and is refused, or found a
restored journal (`Reusable`). `ReplaceKeeps` states once what a replacement may do;
each write is an instance of it.

**PreparedEnvironments.** `LeaseProtectsWork` says nothing of an operator that is about to
take the Lease, or of a Job that is about to be handed it. `Fresh` says that what an operator
read stays true while nobody changed the Lease, so that a patch that is accepted never
takes it from somebody at work. `Handing` says that a Job is started under its own
Lease, by one operator. `AssignedIsReady` and `RetiredStaysClosed` say nothing of a cleanup that
is about to delete. `Closed` says that such a cleanup has a committed retirement behind it and
that this closed the pair for good: only its preparation Job could open it, that Job
had begun before (`Prepared`), has one attempt (`Claimed`, `Started`), and was not active
when the retirement Job held the Lease. `Sent` ties a submission whose outcome is unknown to the
operator that keeps the Lease for it, dead or alive.

**PlaneDeployment.** `PasswordsAgree` compares the two ends of a long way: a password goes
from the store to a run, from it to the Secret of an initialization, from there to the
database; and the run may have been replaced since. The proof follows the way.
Nothing takes a value out of the store, and only a write that lands late replaces one
(`StoreKeeps`), so each copy stays what the store has: a run's (`Keeps`), the
initialization's (`Initialized`), the runtime Secrets' (`Running`). `InTime` says that a write
its pod waits for finds the credential unset unless an earlier one came late, `Alone` that one
pod at a time waits, `Errand` and `Knows` that a run copies no value before it has settled it. For `DeployedIsComplete`, `Reached` gathers what
every run at a step has reached, whether or not it still has the claim; `Cleaned` and
`Tagging` are what another run could undo and hold only for the run with the claim. What an
action of a run may do to its own place is five shapes of steps (`Paths`), proved once.
The attempt corrected the model: `late` used to count only writes that land after their
sender gave up, and with that reading `PasswordsAgree` is false once the claim is taken away
twice: the write of the first sender lands after it lost its claim, the second
sender had read before and sends its own, loses its claim too and waits, while a third
run already uses the first value. The run had one removal and could not show it; now it has two.

**ImageBuild.** `ProofHolds` says nothing of a command that is about to write a proof, and a
write is compared again and again before it lands. `Good` says for each command, by the
`Stage` it is at or returns to after the write, what it rests on: the run it resolved stands
for an image of this component on this base (`Digested`), the report it asked for is about that
image (`Asking`), a verification of it succeeded (`Inspected`), the tag it found is that image
and locked (`Secured`). All of it is said in what no step takes back (`Grows`: a run that
succeeded, a verification that succeeded, a locked tag), so it survives the steps of other
commands without a case for each. The proof of the provisioner names the API image it was
built on; that this is still the promoted one follows from `Origin`, which leads what a tag or a run
says of an attempt back to the one command that has this nonce, and to its base, which was
locked before. `NoSecondBuild` needs that every run left a tag, whatever stopped its
command (`Recorded`), and that a command about to submit is alone and found no run (`Alone`).

**Cleanup.** `NoOrphans` says nothing of why no child appears between the check
that management is empty and its deletion. `Held` and `Still` do: on Azure whoever could submit
one needs the Lease, which the command has; on a local machine the pods are
stopped, and only a deployment that began beside the run could start them again. So what was
found empty stays so (`Emptied`). A mutation is sent later than it was decided: `Sendable`
says that what was checked for it is still true, because Radius is not at work there
(`Settling`, `Undeleted`), and `Counted` that no deployment began meanwhile and saw an earlier
one. That the first slot of a nonempty set exists needs the least number of a set, proved
without induction from the order of the numbers being well founded.

**FoundationSizing.** `NothingResized` says nothing of why two commands that each began
before there was a foundation choose the same. `Agreed` says it: what a command has
chosen *and saved* is what `.env` says, and is available (`Good`). Whoever chooses later
keeps a saved value that is available (`Keeps`) and saves only over the `.env` it read, so
the first choice that was saved is everybody's. For the node size this needs more, as the
foundation uses quotas itself: `Standing` says that while such a command is at work
the foundation is what `.env` says, that the reported usage counts no cluster that is not
running, and that what runs is within the quotas; then its own size stays eligible
(`GoodIsEligible`). `Counted` carries the node count, chosen by another process, to the
choice of the node size, which `Fits` needs. The attempt corrected the model twice.
`NothingResized` is false when the usage lags: the saved size is then ineligible ("quota
usage has not caught up", `node_sizes.py:219`), and the operator is offered one of
another family. The run's loads could not show it; now they can, and `disturbed` marks such a
choice. And nothing kept a cluster from starting beyond a quota; now its nodes start
within it, as Azure has it.

**Acceptance.** `ReadinessIsProved` and `NothingLeftBehind` say what a run that is somewhere in
its script has done or will still do, and a script can fail at any step. The proof speaks of
what is left of a script. `Shape` is what every script has in common: the
steps of a pause come once, in order and to the end, the look at the deployment
directly before its scaling; a link that is blocked is unblocked by the step that closes its block;
and no block reaches from a pause into what follows. The scripts have it
(`ScriptShape`, put together from their parts), so has every end of a script (`SuffixShape`),
and so has what is left after an error, which skips to the next step that closes
(`AfterErrorShape`). `Stopped` and `Silent` then say of a run that has yet to record
readiness (`Ahead`) that the reconciler has no replicas, or that it saw no pod since; `Paused`
and `Blocked`, that whoever stopped the reconciler or blocked a link is about to undo it, was
killed, or failed while it did. What a step may do is said once in `RunStep`, whose
conditions most steps meet at once (`OrdinaryStep`); the environment's steps touch no
script. `Held` and `Over` are the journals: a run that continues another holds a
record that may be continued, or none since it changed; and a journal that was claimed is not
what its own run holds. So every write of that run, of an event or of the outcome, meets
a newer resource version, and `ContinuedIsOver`, a property of steps, follows: a step leaves
each claimed journal as it is, and claims only one that may be continued.

Each of these invariants, as a whole, was model-checked on its run before it was proved.

## 6. What is only model-checked

* All liveness (`OperationsEnd`, `Converges`, `EventuallyReady`, `RestoredInTheEnd`,
  `CompleteInTheEnd`, `BuildFinishes`, `CleanInTheEnd`): fairness and ENABLED are beyond
  the prover.
* `PromotedRunsAsCommitted`, that a promoted image runs as committed. It is no theorem, because it
  is not true of every image: the inspection takes `..` back lexically (`posixpath.normpath`,
  `image_inspection.py:329`) and the kernel where a link has led it, so behind a link they may
  look at different files. The images of the instance have `..` in a link, but none that
  leads back over another link, and there the inspection grants no more than the kernel does.
  What is proved for every image is `PromotedHoldTheSource`, which needs no walk.
* `NoFalseAlarm` of `Acceptance`: it is not a theorem of `Spec`. The sites and modes of
  `Init` include the one of finding 2, where a run alone accuses a healthy system. The
  run `acceptance` has the other sites and modes, each from the deployment it expects.

## 7. Findings

1. `prepared_success`, `PreparedIsOpen`. Prepare a pair, start a cleanup that stops
   after its retirement Job completed, and run bootstrap for the same pair
   again. The preparation Job is `Complete`, so `run_job` only observes it;
   the workloads still stand, so `verify_ready` passes; the journal is marked
   `available` and bootstrap says "Environment: ... is prepared for tenant
   admission" (`scripts/operations/azure/bootstrap.py:233`). The pair stays
   `allocated` in the registry, and admission refuses it, where
   `RUN_AZURE_SCENARIOS.md:703` asks for `stage: available`. Nothing unsafe follows:
   `RetiredStaysClosed` holds.

2. `acceptance_outages`, `NoFalseAlarm`. On a prepared Azure deployment without an isolated
   pair, `--mode outages` always fails: `run` (`scripts/harness/test-e2e.py:1864`) waits for
   every name in `self.names`, and the third is never admitted there, so the read of it
   answers 404 before any link is blocked. The other modes use `active_names`.
   `RUN_AZURE_SCENARIOS.md:1345` documents `make test-e2e` and then `make test-outages`, and says
   "By default, the first command creates the two shared tenants" (1349) and "The
   second checks parent outages and recovery." (1351).

Observations without a run:

* When cleanup fails between marking the journal retired and tagging the foundation
  (`clean-environment.py:256`), `reserve` refuses *every* later pair, as journal and tag
  differ, and the cleanup cannot be repeated because the clusters it looks for are gone.
* The continuation of an admission, documented for Azure in
  `RUN_AZURE_SCENARIOS.md:1371-1377`, is never accepted there: `load_first_admission`
  (`test-e2e.py:741-775`) requires two `workload_image` events and `busy_verified`, while a
  prepared environment verifies one image (1305) and never checks the busy window (945).
* An admission with `check_busy` (`test-e2e.py:947-953`) looks at the operation and then asks for another tenant,
  which it expects to be refused with 503. An operation that succeeds between the two is
  answered with 202: the run accuses a healthy coordinator (`unexpected_api_status`), and the
  tenant it asked for stays behind and is provisioned. It is the one exception of
  `NoFalseAlarm` in a run that is alone and undisturbed.
* A run that lost its journal but lives on, and whose pause fails inside its block
  (`test-e2e.py:548`), scales the reconciler up in the pause of the run that continues
  it. `ReadinessIsProved` excludes it as `meddled`.
* A cleanup of a local deployment may destroy a child that was completed between its two
  listings (`beside`), and one that a local deployment built between two of its
  mutations (`Disturbed`).
* An edit of `.env` between the selections of a command may resize a foundation that
  stands, though `RUN_AZURE_SCENARIOS.md:315` rules out automatic resizing. So may a command
  that began before the foundation was there and chooses its node size while the reported
  usage lags behind the clusters (`node_sizes.py:218`): the saved size is not eligible then,
  and what the operator picks instead is deployed over it.
* A value that Key Vault stores after its sender gave up, or lost its Job, may replace the
  one that another run already used; the plane then cannot be deployed again (`late`,
  `Stuck`).

## 8. Abstractions to keep in mind

* One Radius or kubectl request is one step. What a stage creates is one fact
  (`built`); the checks on outputs are a choice between success and failure.
* A session check and the sending of the request it guards are one step. The
  request's *effect* is a step of its own, so the harmful half of that race stays.
* A registry transaction of a Job checks the Lease inside the transaction, under the lock
  admission takes; check and commit are one step.
* Deletions of cleanup take effect before the next step or fail; a deletion that
  lands later meets a pair that is closed for good.
* A request of the fault helper that was given up takes effect at once or never, and a
  restoration begins only when no run is in progress, as the guide says. With an
  overlap, a restoration between a run's check of the journal and its creation
  of the policy (`fault-parent-link.py:1695` and `1697`) could record as restored a fault
  that comes after it; nothing in the code excludes that.
* Login roles, row security, authentication, configurations and the records by which
  tools tell an owned resource from a foreign one are left out; where they can refuse,
  failing is always possible.
* `PlaneDeployment` has one plane; the credentials of the others are assumed to be there. The
  exchange with the certificate authority, foreign network interfaces, the removal of a
  credential seed and the operator's local records of endpoints are left out.
* `ImageBuild` leaves out the recovery's log and its comparison of times. That a resource
  cannot carry more tags is a `Stop`. The inspection takes `..` back before it follows a link,
  the kernel after; in the instance no link leads back over another one.
* `FoundationSizing`: a malformed answer of Azure, and bootstrap's other preconditions,
  are a `Stop`. Prices count by their rank. A deployment of the foundation that failed is a dead
  end, as in the code.
* `Cleanup`: dry runs only read and are left out; `--radius-only` ends where a `Fail` would. A
  local run's last look and the deletion of the kind cluster are one step. A Job that is
  active is refused like the deployment whose Lease it has.
* `Acceptance`: `check_journal` and the request it guards are one step, so the request of a run
  that loses its journal between the two is not in the model. The poll for an applied
  configuration reads control and data plane in two steps; the reads of the other checks over
  several services (timelines, idempotency, the polls survived) are one observation. Images,
  identities, messages, pages of a timeline and authentication checks are left out, as a
  mismatch of theirs fails the step. `NothingLeftBehind` says nothing of the replicas once
  somebody else changed them while a run had them paused (`meddled`), by hand or at the end of a
  pause of his own: neither run can then tell whose count it finds.

## 9. Not modelled, and the plan

The order was: the coordinator first (every tenant depends on it), the two
reconcilers, the Azure environments and the fault helper with their proofs, then the tools
around them: removal, deployment of a plane, image build, sizing, acceptance. Left, in order:

1. `EventTimeline`: the cursor of the event pages, and identifiers that are assigned
   before their transaction commits.
2. `NoFalseAlarm` as a theorem for the environments that have a third tenant: it needs
   what each step of a script may rely on of the versions, counters and reports before it.
3. In `FaultJournal` a restoration that overlaps a live run, and the local variant of the
   helper, which blocks with host rules and keeps its record in a file.
4. The first bootstrap of management and of the shared pair in `PreparedEnvironments`.
5. The publication of the recipes and the local build of images.
6. The Redis counter, whose increment may be repeated after an unknown outcome.

Left out for good: infrastructure declarations (no behaviour of their own), access rules
(static), packaging and tests; `export-state.py` (reads and reports; its status file
is written by a class only tests use); the older `Cleanup` classes of `clean-azure.py` and
`local/cleanup.py` and the older harness `run-azure.py`, which no command reaches any more.
