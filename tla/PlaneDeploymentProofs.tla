------------------------ MODULE PlaneDeploymentProofs ------------------------
(***************************************************************************)
(* The safety of PlaneDeployment, for any runs, keys, failures, removals   *)
(* of claims, edits and replacements of the interface.                     *)
(*                                                                         *)
(* Nothing a run does to the credential store takes a value away, and on   *)
(* Azure only a write that lands late replaces one (StoreKeeps).  So       *)
(* whatever was copied from the store, to a run (Keeps), to the Secret of  *)
(* an initialization and from there to the database (Initialized), to a    *)
(* runtime Secret (Running), is still what the store has.  Errands and     *)
(* Knows say why a run copies no value before it is stored.                *)
(*                                                                         *)
(* What is true of a plane at the end of a run is gathered step by step    *)
(* (Reached), by runs with the claim and runs that lost it.  What another  *)
(* run could undo is said of the run that holds the claim only (Cleaned,   *)
(* Tagging).                                                               *)
(***************************************************************************)
EXTENDS PlaneDeployment, TLAPS

\* the steps that settle a credential
Storing == {"read", "create", "sent", "readBack"}

\* the steps after the database was initialized or observed, in their order
AfterHttps == {"deployHttps", "awaitHttps", "tagAgain", "awaitTagAgain", "verify"}
AfterWorker == {"deployApp", "awaitApp", "tag", "awaitTag", "certificate",
                "awaitCertificate"} \cup AfterHttps
AfterApi == {"runtimeWorker"} \cup AfterWorker
AfterCleanup == {"runtime", "runtimeApi"} \cup AfterApi
WithDatabase == {"observe", "initSecret", "deployDatabase", "awaitDatabase", "initJob",
                 "awaitJob", "cleanup"}

\* the run is at one of these steps, or settles credentials before it
At(r, steps) == pc[r] \in steps \/ (pc[r] \in Storing /\ next[r] \in steps)

Roles == {"api", "worker"}

\* the credentials that may be left
AllThree == <<"demoKey", "api", "worker">>
LastTwo == <<"api", "worker">>
WorkerOnly == <<"worker">>
KeyOnly == <<"demoKey">>
AdminOnly == <<"admin">>
NoneLeft == << >>

\* the credentials that are left fit the step after them
Errand(r) == pc[r] \in Storing =>
    \/ next[r] = "previous" /\ todo[r] = KeyOnly
    \/ next[r] = "runtimeApi" /\ role = "data" /\ todo[r] = KeyOnly
    \/ next[r] = "initJob" /\ todo[r] = AdminOnly
    \/ /\ next[r] = "initSecret" /\ role # "data"
       /\ todo[r] \in {AllThree, LastTwo, WorkerOnly}

\* the store has a value for c, and v is it unless a late write replaced it
Same(c, v) == v # None /\ store[c] # None /\ (late # "overtaken" => store[c] = v)

\* a write that lands in time finds the credential unset, as its sender did
InTime(r) == Azure /\ late = "none" /\ (pc[r] = "sent" \/ (pc[r] = "create" /\ claim = r)) =>
    store[Head(todo[r])] = None

\* one pod at a time waits for a write, whoever has the claim
Alone == Azure => \A p, q \in Runs : pc[p] = "sent" /\ pc[q] = "sent" => p = q

Sent ==
    /\ \A f \in flying : f.value # None
    /\ Alone
    /\ \A r \in Runs : InTime(r)

Keeps(r) == \A c \in Creds : known[r][c] # None => Same(c, known[r][c])

\* what a run has settled when it needs it
Knows(r) ==
    /\ At(r, {"deployDatabase", "awaitDatabase", "initJob"}) \/ pc[r] = "initSecret" =>
         store["demoKey"] # None /\ \A c \in Roles : known[r][c] # None
    /\ pc[r] \in Storing /\ next[r] = "initSecret" =>
         /\ todo[r] # AllThree => store["demoKey"] # None
         /\ todo[r] = WorkerOnly => known[r]["api"] # None
    /\ pc[r] = "runtimeApi" => store["demoKey"] # None

Initialized ==
    /\ \A passwords \in {initSecret, db} : passwords # NoPasswords =>
         store["demoKey"] # None /\ \A c \in Roles : Same(c, passwords[c])
    /\ initJob # "none" => initSecret # NoPasswords
    /\ initJob = "complete" => db # NoPasswords

Running ==
    /\ api # NoSecret =>
         /\ Same("demoKey", api.key)
         /\ role # "data" => db # NoPasswords /\ Same("api", api.password)
    /\ role # "data" /\ worker # NoSecret => db # NoPasswords /\ Same("worker", worker.password)

\* a data plane has no database
NoDatabase == role = "data" =>
    /\ database = "none" /\ ~setup /\ initSecret = NoPasswords /\ initJob = "none"
    /\ db = NoPasswords

\* what every run at a step has reached, whether or not it still holds the claim
Reached(r) ==
    /\ At(r, WithDatabase) => role # "data"
    /\ At(r, {"observe", "initJob", "awaitJob", "cleanup"}) => database = "ready"
    /\ pc[r] = "cleanup" => db # NoPasswords
    /\ At(r, AfterCleanup) /\ role # "data" => database = "ready" /\ db # NoPasswords
    /\ pc[r] \in AfterApi => api # NoSecret
    /\ pc[r] \in AfterWorker /\ role # "data" /\ ~prepared => worker # NoSecret
    /\ pc[r] \in AfterHttps /\ Azure => cert

Certified == certJob = "complete" => cert

\* what only the run with the claim could undo
Cleaned(r) == claim = r /\ At(r, AfterCleanup) =>
    ~setup /\ initSecret = NoPasswords /\ initJob = "none"

\* the interface that a Job ended on has its tags
Tagged == nic.serial = tagged => nic.tags

Tagging(r) == Tags /\ claim = r =>
    /\ pc[r] \in {"awaitTag", "awaitTagAgain"} =>
         app.state = "ready" /\ (nicJob = "complete" => Tagged)
    /\ pc[r] = "verify" => app.state = "ready" /\ Tagged

\* nobody is at work on a plane whose run ended well
Resting == ok => /\ app.state = "ready" /\ database # "working"
                 /\ \A r \in Runs : Alive(r) => claim # r

Errands == \A r \in Runs : Errand(r)
RunsAreRight ==
    \A r \in Runs : Keeps(r) /\ Knows(r) /\ Reached(r) /\ Cleaned(r) /\ Tagging(r)

IInv ==
    /\ TypeOK /\ Errands /\ Sent /\ RunsAreRight /\ Initialized /\ Running /\ NoDatabase
    /\ Certified /\ tagged <= nic.serial /\ Resting /\ DeployedIsComplete
-----------------------------------------------------------------------------
(* Values, lists and records *)

LEMMA FreshIsGenerated == Fresh \in Generated
<1> DEFINE unused == Generated \ InUse
           choices == IF unused = {} THEN Generated ELSE unused
<1>1. choices # {} /\ choices \subseteq Generated
  BY ValuesAssumption
<1>2. (CHOOSE v \in choices : TRUE) \in choices
  BY <1>1
<1> QED
  BY <1>1, <1>2 DEF Fresh

LEMMA ValueFacts ==
    /\ None \in Values /\ Setup \in Values /\ Given \subseteq Values /\ Generated \subseteq Values
    /\ Setup # None /\ None \notin Given /\ None \notin Generated
  BY ValuesAssumption DEF Values, None, Setup

LEMMA Lists ==
    /\ Head(KeyOnly) = "demoKey" /\ Tail(KeyOnly) = NoneLeft
    /\ Head(AdminOnly) = "admin" /\ Tail(AdminOnly) = NoneLeft
    /\ Head(WorkerOnly) = "worker" /\ Tail(WorkerOnly) = NoneLeft
    /\ Head(LastTwo) = "api" /\ Tail(LastTwo) = WorkerOnly
    /\ Head(AllThree) = "demoKey" /\ Tail(AllThree) = LastTwo
    /\ WorkerOnly # NoneLeft /\ LastTwo # NoneLeft
    /\ WorkerOnly # LastTwo /\ WorkerOnly # AllThree /\ LastTwo # AllThree
    /\ {NoneLeft, KeyOnly, AdminOnly, WorkerOnly, LastTwo, AllThree} \subseteq Seq(Creds)
  BY DEF Creds, KeyOnly, AdminOnly, WorkerOnly, LastTwo, AllThree, NoneLeft

Apps == [phase : {"none", "http", "https"}, goal : {"none", "http", "https"},
         state : {"none", "working", "ready", "broken"}]
Interfaces == [serial : Nat, tags : BOOLEAN]
Phases == {"none", "http", "https"}

LEMMA AppUpdates ==
    ASSUME NEW a \in Apps, NEW x \in {"none", "working", "ready", "broken"}, NEW y \in Phases
    PROVE  /\ [a EXCEPT !.state = x, !.goal = y] \in Apps
           /\ [a EXCEPT !.state = x, !.goal = y].state = x
           /\ [a EXCEPT !.state = x, !.phase = y] \in Apps
           /\ [a EXCEPT !.state = x, !.phase = y].state = x
           /\ [a EXCEPT !.state = x] \in Apps /\ [a EXCEPT !.state = x].state = x
<1>1. [a EXCEPT !.state = x] \in Apps /\ [a EXCEPT !.state = x].state = x
  BY DEF Apps
<1> DEFINE b == [a EXCEPT !.state = x]
<1> HIDE DEF b
<1>2. b \in Apps /\ b.state = x
  BY <1>1 DEF b
<1>3. [b EXCEPT !.goal = y] \in Apps /\ [b EXCEPT !.goal = y].state = x
  BY <1>2 DEF Apps, Phases
<1>4. [b EXCEPT !.phase = y] \in Apps /\ [b EXCEPT !.phase = y].state = x
  BY <1>2 DEF Apps, Phases
<1> QED
  BY <1>1, <1>3, <1>4, Zenon DEF b

LEMMA InterfaceUpdates ==
    ASSUME NEW n \in Interfaces, NEW x \in Nat, NEW t \in BOOLEAN
    PROVE  /\ [n EXCEPT !.serial = x, !.tags = t] \in Interfaces
           /\ [n EXCEPT !.serial = x, !.tags = t].serial = x
<1>1. [n EXCEPT !.serial = x] \in Interfaces /\ [n EXCEPT !.serial = x].serial = x
  BY DEF Interfaces
<1> DEFINE b == [n EXCEPT !.serial = x]
<1> HIDE DEF b
<1>2. b \in Interfaces /\ b.serial = x
  BY <1>1 DEF b
<1>3. [b EXCEPT !.tags = t] \in Interfaces /\ [b EXCEPT !.tags = t].serial = x
  BY <1>2 DEF Interfaces
<1> QED
  BY <1>3, Zenon DEF b

-----------------------------------------------------------------------------
(* What the steps leave alone *)

\* a run that ends and does not change the plane
Ends(r) == /\ Forget(r) /\ claim' \in {claim, NoRun} /\ UNCHANGED <<ok, config, world>>
           /\ used' \in {used, [used EXCEPT !["failures"] = @ + 1]}

\* a step of a run that is not its end
Advances(r) == Step(r) /\ ~Abandon(r)

LEMMA StepFrame ==
    ASSUME NEW r \in Runs, Step(r)
    PROVE  UNCHANGED <<config, used>> /\ (claim = r \/ Abandon(r))
<1> USE DEF Checked, Goto, Settle, Settled, SendApp, Abandon, config, world, vault, data, gateway
<1>1. CASE Seed(r) \/ Read(r) \/ Create(r) \/ ReadBack(r) \/ CurrentCertificate(r)
  BY <1>1 DEF Seed, Read, Create, ReadBack, CurrentCertificate
<1>2. CASE LookForDatabase(r) \/ Observe(r) \/ CreateInitSecret(r) \/ DeployDatabase(r)
  BY <1>2 DEF LookForDatabase, Observe, CreateInitSecret, DeployDatabase
<1>3. CASE AwaitDatabase(r) \/ CreateInitJob(r) \/ AwaitInitJob(r) \/ CleanInitialization(r)
  BY <1>3 DEF AwaitDatabase, CreateInitJob, AwaitInitJob, CleanInitialization
<1>4. CASE Runtime(r) \/ WriteApiSecret(r) \/ WriteWorkerSecret(r)
  BY <1>4 DEF Runtime, WriteApiSecret, WriteWorkerSecret
<1>5. CASE DeployApp(r) \/ AwaitApp(r) \/ TagRedisNic(r) \/ AwaitTags(r)
  BY <1>5 DEF DeployApp, AwaitApp, TagRedisNic, AwaitTags
<1>6. CASE Certificate(r) \/ AwaitCertificate(r) \/ DeployHttps(r) \/ AwaitHttps(r) \/ Verify(r)
  BY <1>6 DEF Certificate, AwaitCertificate, DeployHttps, AwaitHttps, Verify
<1> QED
  BY <1>1, <1>2, <1>3, <1>4, <1>5, <1>6 DEF Step

LEMMA NextCases ==
    ASSUME [Next]_vars
    PROVE  \/ \E r \in Runs : Ends(r) \/ Advances(r) \/ Begin(r)
           \/ RemoveClaim \/ RemoveJob \/ EditKey
           \/ DatabaseMade \/ Initialize \/ AppDeployed \/ TagJob \/ IssueCertificate
           \/ \E f \in flying : Land(f)
           \/ InterfaceReplaced \/ UNCHANGED vars
<1>1. ASSUME NEW r \in Runs, Fail(r) \/ Die(r) \/ StopPod(r)
      PROVE  Ends(r)
  BY <1>1 DEF Fail, Die, StopPod, Abandon, Released, Ends, Spend
<1>2. ASSUME NEW r \in Runs, Step(r), Abandon(r)
      PROVE  Ends(r) \/ Advances(r)
  BY <1>2, StepFrame DEF Abandon, Released, Ends
<1> QED
  BY <1>1, <1>2 DEF Next, Outside, Advances

\* who writes to the credential store
LEMMA VaultFrame ==
    ASSUME [Next]_vars
    PROVE  \/ UNCHANGED vault
           \/ \E r \in Runs : Advances(r) /\ (Create(r))
           \/ \E f \in flying : Land(f)
<1> USE DEF vault, data, secrets, gateway, interface, world
<1>1. ASSUME NEW r \in Runs, Ends(r) \/ Begin(r)
      PROVE  UNCHANGED vault
  BY <1>1 DEF Ends, Begin
<1>2. ASSUME NEW r \in Runs, Advances(r)
      PROVE  UNCHANGED vault \/ Create(r)
  <2> USE <1>2 DEF Advances, Checked, Goto, Settle, Settled, SendApp
  <2>1. CASE Seed(r) \/ Read(r) \/ Create(r) \/ ReadBack(r) \/ CurrentCertificate(r)
    BY <2>1 DEF Seed, Read, ReadBack, CurrentCertificate
  <2>2. CASE LookForDatabase(r) \/ Observe(r) \/ CreateInitSecret(r) \/ DeployDatabase(r)
    BY <2>2 DEF LookForDatabase, Observe, CreateInitSecret, DeployDatabase
  <2>3. CASE AwaitDatabase(r) \/ CreateInitJob(r) \/ AwaitInitJob(r) \/ CleanInitialization(r)
    BY <2>3 DEF AwaitDatabase, CreateInitJob, AwaitInitJob, CleanInitialization
  <2>4. CASE Runtime(r) \/ WriteApiSecret(r) \/ WriteWorkerSecret(r)
    BY <2>4 DEF Runtime, WriteApiSecret, WriteWorkerSecret
  <2>5. CASE DeployApp(r) \/ AwaitApp(r) \/ TagRedisNic(r) \/ AwaitTags(r)
    BY <2>5 DEF DeployApp, AwaitApp, TagRedisNic, AwaitTags
  <2>6. CASE Certificate(r) \/ AwaitCertificate(r) \/ DeployHttps(r) \/ AwaitHttps(r) \/ Verify(r)
    BY <2>6 DEF Certificate, AwaitCertificate, DeployHttps, AwaitHttps, Verify
  <2> QED
    BY <2>1, <2>2, <2>3, <2>4, <2>5, <2>6 DEF Step
<1>3. CASE RemoveClaim \/ RemoveJob \/ EditKey \/ DatabaseMade \/ Initialize
           \/ AppDeployed \/ TagJob \/ IssueCertificate \/ InterfaceReplaced
  BY <1>3 DEF RemoveClaim, RemoveJob, EditKey, DatabaseMade, Initialize, AppDeployed, TagJob,
     IssueCertificate, InterfaceReplaced
<1> QED
  BY <1>1, <1>2, <1>3, NextCases DEF vars

\* what concerns the database
LEMMA DataFrame ==
    ASSUME [Next]_vars
    PROVE  \/ UNCHANGED data
           \/ \E r \in Runs : Advances(r)
                  /\ (CreateInitSecret(r) \/ DeployDatabase(r)
                      \/ CreateInitJob(r) \/ CleanInitialization(r))
           \/ DatabaseMade
           \/ Initialize
<1> USE DEF vault, data, secrets, gateway, interface, world
<1>1. ASSUME NEW r \in Runs, Ends(r) \/ Begin(r)
      PROVE  UNCHANGED data
  BY <1>1 DEF Ends, Begin
<1>2. ASSUME NEW r \in Runs, Advances(r)
      PROVE  UNCHANGED data \/ CreateInitSecret(r) \/ DeployDatabase(r)
             \/ CreateInitJob(r) \/ CleanInitialization(r)
  <2> USE <1>2 DEF Advances, Checked, Goto, Settle, Settled, SendApp
  <2>1. CASE Seed(r) \/ Read(r) \/ Create(r) \/ ReadBack(r) \/ CurrentCertificate(r)
    BY <2>1 DEF Seed, Read, Create, ReadBack, CurrentCertificate
  <2>2. CASE LookForDatabase(r) \/ Observe(r) \/ CreateInitSecret(r) \/ DeployDatabase(r)
    BY <2>2 DEF LookForDatabase, Observe
  <2>3. CASE AwaitDatabase(r) \/ CreateInitJob(r) \/ AwaitInitJob(r) \/ CleanInitialization(r)
    BY <2>3 DEF AwaitDatabase, AwaitInitJob
  <2>4. CASE Runtime(r) \/ WriteApiSecret(r) \/ WriteWorkerSecret(r)
    BY <2>4 DEF Runtime, WriteApiSecret, WriteWorkerSecret
  <2>5. CASE DeployApp(r) \/ AwaitApp(r) \/ TagRedisNic(r) \/ AwaitTags(r)
    BY <2>5 DEF DeployApp, AwaitApp, TagRedisNic, AwaitTags
  <2>6. CASE Certificate(r) \/ AwaitCertificate(r) \/ DeployHttps(r) \/ AwaitHttps(r) \/ Verify(r)
    BY <2>6 DEF Certificate, AwaitCertificate, DeployHttps, AwaitHttps, Verify
  <2> QED
    BY <2>1, <2>2, <2>3, <2>4, <2>5, <2>6 DEF Step
<1>3. CASE RemoveClaim \/ RemoveJob \/ EditKey \/ AppDeployed
           \/ TagJob \/ IssueCertificate \/ InterfaceReplaced
  BY <1>3 DEF RemoveClaim, RemoveJob, EditKey, AppDeployed, TagJob, IssueCertificate,
     InterfaceReplaced
<1>4. ASSUME NEW f \in flying, Land(f)
      PROVE  UNCHANGED data
  BY <1>4 DEF Land
<1> QED
  BY <1>1, <1>2, <1>3, <1>4, NextCases DEF vars

\* who writes the runtime Secrets
LEMMA SecretsFrame ==
    ASSUME [Next]_vars
    PROVE  \/ UNCHANGED secrets
           \/ \E r \in Runs : Advances(r) /\ (WriteApiSecret(r) \/ WriteWorkerSecret(r))
<1> USE DEF vault, data, secrets, gateway, interface, world
<1>1. ASSUME NEW r \in Runs, Ends(r) \/ Begin(r)
      PROVE  UNCHANGED secrets
  BY <1>1 DEF Ends, Begin
<1>2. ASSUME NEW r \in Runs, Advances(r)
      PROVE  UNCHANGED secrets \/ WriteApiSecret(r) \/ WriteWorkerSecret(r)
  <2> USE <1>2 DEF Advances, Checked, Goto, Settle, Settled, SendApp
  <2>1. CASE Seed(r) \/ Read(r) \/ Create(r) \/ ReadBack(r) \/ CurrentCertificate(r)
    BY <2>1 DEF Seed, Read, Create, ReadBack, CurrentCertificate
  <2>2. CASE LookForDatabase(r) \/ Observe(r) \/ CreateInitSecret(r) \/ DeployDatabase(r)
    BY <2>2 DEF LookForDatabase, Observe, CreateInitSecret, DeployDatabase
  <2>3. CASE AwaitDatabase(r) \/ CreateInitJob(r) \/ AwaitInitJob(r) \/ CleanInitialization(r)
    BY <2>3 DEF AwaitDatabase, CreateInitJob, AwaitInitJob, CleanInitialization
  <2>4. CASE Runtime(r) \/ WriteApiSecret(r) \/ WriteWorkerSecret(r)
    BY <2>4 DEF Runtime
  <2>5. CASE DeployApp(r) \/ AwaitApp(r) \/ TagRedisNic(r) \/ AwaitTags(r)
    BY <2>5 DEF DeployApp, AwaitApp, TagRedisNic, AwaitTags
  <2>6. CASE Certificate(r) \/ AwaitCertificate(r) \/ DeployHttps(r) \/ AwaitHttps(r) \/ Verify(r)
    BY <2>6 DEF Certificate, AwaitCertificate, DeployHttps, AwaitHttps, Verify
  <2> QED
    BY <2>1, <2>2, <2>3, <2>4, <2>5, <2>6 DEF Step
<1>3. CASE RemoveClaim \/ RemoveJob \/ EditKey \/ DatabaseMade \/ Initialize
           \/ AppDeployed \/ TagJob \/ IssueCertificate \/ InterfaceReplaced
  BY <1>3 DEF RemoveClaim, RemoveJob, EditKey, DatabaseMade, Initialize, AppDeployed, TagJob,
     IssueCertificate, InterfaceReplaced
<1>4. ASSUME NEW f \in flying, Land(f)
      PROVE  UNCHANGED secrets
  BY <1>4 DEF Land
<1> QED
  BY <1>1, <1>2, <1>3, <1>4, NextCases DEF vars

\* what concerns the application and its certificate
LEMMA GatewayFrame ==
    ASSUME [Next]_vars
    PROVE  \/ UNCHANGED gateway
           \/ \E r \in Runs : Advances(r)
                  /\ (DeployApp(r) \/ DeployHttps(r)
                      \/ Certificate(r) \/ AwaitCertificate(r))
           \/ AppDeployed
           \/ IssueCertificate
<1> USE DEF vault, data, secrets, gateway, interface, world
<1>1. ASSUME NEW r \in Runs, Ends(r) \/ Begin(r)
      PROVE  UNCHANGED gateway
  BY <1>1 DEF Ends, Begin
<1>2. ASSUME NEW r \in Runs, Advances(r)
      PROVE  UNCHANGED gateway \/ DeployApp(r) \/ DeployHttps(r)
             \/ Certificate(r) \/ AwaitCertificate(r)
  <2> USE <1>2 DEF Advances, Checked, Goto, Settle, Settled, SendApp
  <2>1. CASE Seed(r) \/ Read(r) \/ Create(r) \/ ReadBack(r) \/ CurrentCertificate(r)
    BY <2>1 DEF Seed, Read, Create, ReadBack, CurrentCertificate
  <2>2. CASE LookForDatabase(r) \/ Observe(r) \/ CreateInitSecret(r) \/ DeployDatabase(r)
    BY <2>2 DEF LookForDatabase, Observe, CreateInitSecret, DeployDatabase
  <2>3. CASE AwaitDatabase(r) \/ CreateInitJob(r) \/ AwaitInitJob(r) \/ CleanInitialization(r)
    BY <2>3 DEF AwaitDatabase, CreateInitJob, AwaitInitJob, CleanInitialization
  <2>4. CASE Runtime(r) \/ WriteApiSecret(r) \/ WriteWorkerSecret(r)
    BY <2>4 DEF Runtime, WriteApiSecret, WriteWorkerSecret
  <2>5. CASE DeployApp(r) \/ AwaitApp(r) \/ TagRedisNic(r) \/ AwaitTags(r)
    BY <2>5 DEF AwaitApp, TagRedisNic, AwaitTags
  <2>6. CASE Certificate(r) \/ AwaitCertificate(r) \/ DeployHttps(r) \/ AwaitHttps(r) \/ Verify(r)
    BY <2>6 DEF AwaitHttps, Verify
  <2> QED
    BY <2>1, <2>2, <2>3, <2>4, <2>5, <2>6 DEF Step
<1>3. CASE RemoveClaim \/ RemoveJob \/ EditKey \/ DatabaseMade
           \/ Initialize \/ TagJob \/ InterfaceReplaced
  BY <1>3 DEF RemoveClaim, RemoveJob, EditKey, DatabaseMade, Initialize, TagJob, InterfaceReplaced
<1>4. ASSUME NEW f \in flying, Land(f)
      PROVE  UNCHANGED gateway
  BY <1>4 DEF Land
<1> QED
  BY <1>1, <1>2, <1>3, <1>4, NextCases DEF vars

\* what concerns the interface of a cache
LEMMA InterfaceFrame ==
    ASSUME [Next]_vars
    PROVE  \/ UNCHANGED interface
           \/ \E r \in Runs : Advances(r) /\ (TagRedisNic(r) \/ AwaitTags(r))
           \/ AppDeployed
           \/ TagJob
           \/ InterfaceReplaced
<1> USE DEF vault, data, secrets, gateway, interface, world
<1>1. ASSUME NEW r \in Runs, Ends(r) \/ Begin(r)
      PROVE  UNCHANGED interface
  BY <1>1 DEF Ends, Begin
<1>2. ASSUME NEW r \in Runs, Advances(r)
      PROVE  UNCHANGED interface \/ TagRedisNic(r) \/ AwaitTags(r)
  <2> USE <1>2 DEF Advances, Checked, Goto, Settle, Settled, SendApp
  <2>1. CASE Seed(r) \/ Read(r) \/ Create(r) \/ ReadBack(r) \/ CurrentCertificate(r)
    BY <2>1 DEF Seed, Read, Create, ReadBack, CurrentCertificate
  <2>2. CASE LookForDatabase(r) \/ Observe(r) \/ CreateInitSecret(r) \/ DeployDatabase(r)
    BY <2>2 DEF LookForDatabase, Observe, CreateInitSecret, DeployDatabase
  <2>3. CASE AwaitDatabase(r) \/ CreateInitJob(r) \/ AwaitInitJob(r) \/ CleanInitialization(r)
    BY <2>3 DEF AwaitDatabase, CreateInitJob, AwaitInitJob, CleanInitialization
  <2>4. CASE Runtime(r) \/ WriteApiSecret(r) \/ WriteWorkerSecret(r)
    BY <2>4 DEF Runtime, WriteApiSecret, WriteWorkerSecret
  <2>5. CASE DeployApp(r) \/ AwaitApp(r) \/ TagRedisNic(r) \/ AwaitTags(r)
    BY <2>5 DEF DeployApp, AwaitApp
  <2>6. CASE Certificate(r) \/ AwaitCertificate(r) \/ DeployHttps(r) \/ AwaitHttps(r) \/ Verify(r)
    BY <2>6 DEF Certificate, AwaitCertificate, DeployHttps, AwaitHttps, Verify
  <2> QED
    BY <2>1, <2>2, <2>3, <2>4, <2>5, <2>6 DEF Step
<1>3. CASE RemoveClaim \/ RemoveJob \/ EditKey \/ DatabaseMade \/ Initialize \/ IssueCertificate
  BY <1>3 DEF RemoveClaim, RemoveJob, EditKey, DatabaseMade, Initialize, IssueCertificate
<1>4. ASSUME NEW f \in flying, Land(f)
      PROVE  UNCHANGED interface
  BY <1>4 DEF Land
<1> QED
  BY <1>1, <1>2, <1>3, <1>4, NextCases DEF vars

\* the steps of a run leave the others alone
LEMMA StepsAreOwn ==
    ASSUME TypeOK, NEW r \in Runs, Advances(r), NEW q \in Runs, q # r
    PROVE  /\ pc'[q] = pc[q] /\ todo'[q] = todo[q] /\ next'[q] = next[q]
           /\ known'[q] = known[q]
           /\ claim = r /\ claim' \in {claim, NoRun}
<1> USE StepFrame DEF Advances, Checked, Goto, Settle, TypeOK
<1>1. CASE Seed(r) \/ Read(r) \/ Create(r) \/ ReadBack(r) \/ CurrentCertificate(r)
  BY <1>1 DEF Seed, Read, Create, ReadBack, CurrentCertificate, Settled
<1>2. CASE LookForDatabase(r) \/ Observe(r) \/ CreateInitSecret(r) \/ DeployDatabase(r)
  BY <1>2 DEF LookForDatabase, Observe, CreateInitSecret, DeployDatabase
<1>3. CASE AwaitDatabase(r) \/ CreateInitJob(r) \/ AwaitInitJob(r) \/ CleanInitialization(r)
  BY <1>3 DEF AwaitDatabase, CreateInitJob, AwaitInitJob, CleanInitialization, Forget, Released
<1>4. CASE Runtime(r) \/ WriteApiSecret(r) \/ WriteWorkerSecret(r)
  BY <1>4 DEF Runtime, WriteApiSecret, WriteWorkerSecret
<1>5. CASE DeployApp(r) \/ AwaitApp(r) \/ TagRedisNic(r) \/ AwaitTags(r)
  BY <1>5 DEF DeployApp, AwaitApp, TagRedisNic, AwaitTags, SendApp
<1>6. CASE Certificate(r) \/ AwaitCertificate(r) \/ DeployHttps(r) \/ AwaitHttps(r) \/ Verify(r)
  BY <1>6 DEF Certificate, AwaitCertificate, DeployHttps, AwaitHttps, Verify, SendApp, Forget,
     Released
<1> QED
  BY <1>1, <1>2, <1>3, <1>4, <1>5, <1>6 DEF Step

\* a run is changed by its own steps only, and by a write of its own that lands
LEMMA RunFrame ==
    ASSUME [Next]_vars, TypeOK, NEW q \in Runs
    PROVE  \/ /\ pc'[q] = pc[q] /\ todo'[q] = todo[q] /\ next'[q] = next[q]
              /\ known'[q] = known[q] /\ (claim' = q => claim = q)
           \/ Ends(q) /\ pc'[q] = Idle /\ known'[q] = [c \in Creds |-> None]
           \/ Advances(q)
           \/ /\ Begin(q) /\ pc[q] = Idle /\ pc'[q] = "start" /\ known'[q] = known[q]
           \/ /\ pc[q] = "sent" /\ pc'[q] = "readBack" /\ todo'[q] = todo[q]
              /\ next'[q] = next[q] /\ known'[q] = known[q] /\ claim' = claim
<1> USE RunsAssumption DEF TypeOK, run
<1>1. ASSUME NEW r \in Runs, Ends(r) \/ Advances(r) \/ Begin(r), r # q
      PROVE  /\ pc'[q] = pc[q] /\ todo'[q] = todo[q] /\ next'[q] = next[q]
             /\ known'[q] = known[q] /\ (claim' = q => claim = q)
  BY <1>1, StepsAreOwn DEF Ends, Begin, Forget
<1>2. CASE Ends(q) \/ Begin(q)
  BY <1>2 DEF Ends, Begin, Forget, Alive
<1>3. CASE RemoveClaim \/ RemoveJob \/ EditKey \/ DatabaseMade \/ Initialize \/ AppDeployed
           \/ TagJob \/ IssueCertificate \/ InterfaceReplaced
  BY <1>3 DEF RemoveClaim, RemoveJob, EditKey, DatabaseMade, Initialize, AppDeployed, TagJob,
     IssueCertificate, InterfaceReplaced
<1>4. ASSUME NEW f \in flying, Land(f)
      PROVE  /\ \/ pc'[q] = pc[q]
                \/ pc[q] = "sent" /\ pc'[q] = "readBack"
             /\ todo'[q] = todo[q] /\ next'[q] = next[q] /\ known'[q] = known[q]
             /\ claim' = claim
  BY <1>4 DEF Land
<1>5. CASE UNCHANGED vars
  BY <1>5 DEF vars
<1> QED
  BY <1>1, <1>2, <1>3, <1>4, <1>5, NextCases

\* the store loses nothing, and only a write that lands late replaces a value
LEMMA StoreKeeps ==
    ASSUME [Next]_vars, TypeOK, Sent, NEW c \in Creds
    PROVE  /\ store[c] # None => store'[c] # None
           /\ late' # "overtaken" =>
                late # "overtaken" /\ (store[c] # None => store'[c] = store[c])
<1>1. CASE UNCHANGED vault
  BY <1>1 DEF vault
<1>2. ASSUME NEW r \in Runs, Create(r), Advances(r)
      PROVE  UNCHANGED <<store, late>>
  BY <1>2 DEF Create, Checked, Advances
<1>3. ASSUME NEW f \in flying, Land(f)
      PROVE  /\ store[c] # None => store'[c] # None
             /\ late' # "overtaken" =>
                  late # "overtaken" /\ (store[c] # None => store'[c] = store[c])
  <2> DEFINE awaited == pc[f.run] = "sent" /\ Head(todo[f.run]) = f.cred
                        /\ word[f.run].value = f.value
             inTime == awaited /\ claim = f.run
             replaced == store[f.cred] \notin {None, f.value}
  <2>1. f.cred \in Creds /\ f.value # None /\ f.run \in Runs
    BY <1>3 DEF Sent, TypeOK
  <2>2. /\ store' = [store EXCEPT ![f.cred] = Stored(f.cred, f.value)]
        /\ late' = IF ~Azure THEN late
                   ELSE IF replaced /\ ~(awaited /\ late = "none") THEN "overtaken"
                   ELSE IF ~inTime /\ late = "none" THEN "stray" ELSE late
    BY <1>3, Zenon DEF Land
  <2>3. store'[c] = IF c = f.cred THEN Stored(f.cred, f.value) ELSE store[c]
    BY <2>1, <2>2 DEF TypeOK
  <2>4. Azure /\ awaited /\ late = "none" => store[f.cred] = None
    BY <2>1 DEF Sent, InTime
  <2>5. late' # "overtaken" /\ store[f.cred] # None => Stored(f.cred, f.value) = store[f.cred]
    BY <2>2, <2>4 DEF Stored
  <2>6. store[f.cred] # None => Stored(f.cred, f.value) # None
    BY <2>1 DEF Stored
  <2>7. late' # "overtaken" => late # "overtaken"
    BY <2>2
  <2> QED
    BY <2>1, <2>3, <2>5, <2>6, <2>7
<1> QED
  BY <1>1, <1>2, <1>3, VaultFrame

LEMMA SameStays ==
    ASSUME [Next]_vars, TypeOK, Sent, NEW c \in Creds, NEW v, Same(c, v)
    PROVE  Same(c, v)'
  BY StoreKeeps DEF Same

\* what is there stays
LEMMA Stays ==
    ASSUME [Next]_vars, TypeOK
    PROVE  /\ db # NoPasswords => db' = db
           /\ database = "ready" => database' = "ready"
           /\ cert => cert'
           /\ UNCHANGED <<place, role, prepared>>
<1>1. (db # NoPasswords => db' = db) /\ (database = "ready" => database' = "ready")
  <2> USE DEF data, Advances, Checked, Goto, Abandon, world
  <2>1. ASSUME NEW r \in Runs, Advances(r), CreateInitSecret(r) \/ DeployDatabase(r)
        PROVE  db' = db /\ (database = "ready" => database' = "ready")
    BY <2>1 DEF CreateInitSecret, DeployDatabase
  <2>2. ASSUME NEW r \in Runs, CreateInitJob(r) \/ CleanInitialization(r), Advances(r)
        PROVE  UNCHANGED <<db, database>>
    BY <2>2 DEF CreateInitJob, CleanInitialization
  <2> QED
    BY <2>1, <2>2, DataFrame DEF DatabaseMade, Initialize
<1>2. cert => cert'
  <2> USE DEF gateway, Advances, Checked, Goto
  <2>1. ASSUME NEW r \in Runs, Advances(r),
               DeployApp(r) \/ DeployHttps(r) \/ Certificate(r) \/ AwaitCertificate(r)
        PROVE  cert' = cert
    BY <2>1 DEF DeployApp, DeployHttps, SendApp, Certificate, AwaitCertificate
  <2> QED
    BY <2>1, GatewayFrame DEF AppDeployed, IssueCertificate
<1>3. UNCHANGED <<place, role, prepared>>
  <2>1. ASSUME NEW r \in Runs, Ends(r) \/ Advances(r) \/ Begin(r)
        PROVE  UNCHANGED config
    BY <2>1, StepFrame DEF Ends, Advances, Begin
  <2>2. UNCHANGED config \/ EditKey
    BY <2>1, NextCases
    DEF RemoveClaim, RemoveJob, DatabaseMade, Initialize, AppDeployed, TagJob,
        IssueCertificate, InterfaceReplaced, Land, vars
  <2> QED
    BY <2>2 DEF EditKey, config
<1> QED
  BY <1>1, <1>2, <1>3

\* a credential is settled with what the store has
LEMMA Settles ==
    ASSUME TypeOK, Errands, NEW r \in Runs, Advances(r), Read(r) \/ ReadBack(r)
    PROVE  /\ claim = r /\ pc[r] \in Storing /\ Head(todo[r]) \in Creds
           /\ \/ /\ pc'[r] = "create" /\ store[Head(todo[r])] = None
                 /\ todo'[r] = todo[r] /\ known'[r] = known[r]
              \/ /\ store[Head(todo[r])] # None
                 /\ known'[r] = [known[r] EXCEPT ![Head(todo[r])] = store[Head(todo[r])]]
                 /\ todo'[r] = Tail(todo[r])
                 /\ pc'[r] = IF Tail(todo[r]) = NoneLeft THEN next[r] ELSE "read"
           /\ next'[r] = next[r] /\ UNCHANGED <<claim, ok, previous, word, world>>
<1> USE DEF Advances, Checked, Goto, Settled, world, vault, data, secrets, gateway, interface
<1>1. Head(todo[r]) \in Creds /\ pc[r] \in Storing
  BY Lists DEF Errands, Errand, Storing, Read, ReadBack, Creds
<1>2. CASE Read(r)
  BY <1>1, <1>2 DEF Read, TypeOK, NoneLeft
<1>3. CASE ReadBack(r)
  BY <1>1, <1>3 DEF ReadBack, Matches, TypeOK, NoneLeft
<1> QED
  BY <1>1, <1>2, <1>3

LEMMA ErrandSettled ==
    ASSUME TypeOK, Errands, NEW q \in Runs, Advances(q), Read(q) \/ ReadBack(q)
    PROVE  Errand(q)'
<1>1. /\ pc[q] \in Storing /\ next'[q] = next[q]
      /\ \/ pc'[q] = "create" /\ todo'[q] = todo[q]
         \/ /\ todo'[q] = Tail(todo[q])
            /\ pc'[q] = IF Tail(todo[q]) = NoneLeft THEN next[q] ELSE "read"
  BY Settles
<1>2. \/ next[q] = "previous" /\ todo[q] = KeyOnly
      \/ next[q] = "runtimeApi" /\ role = "data" /\ todo[q] = KeyOnly
      \/ next[q] = "initJob" /\ todo[q] = AdminOnly
      \/ /\ next[q] = "initSecret" /\ role # "data"
         /\ todo[q] \in {AllThree, LastTwo, WorkerOnly}
  BY <1>1 DEF Errands, Errand
<1>0. role' = role
  BY StepFrame DEF Advances, config
<1> USE <1>0 DEF Errand
<1>3. CASE pc'[q] = "create" /\ todo'[q] = todo[q]
  BY <1>1, <1>2, <1>3
<1>4. CASE next[q] # "initSecret" /\ todo'[q] = Tail(todo[q])
  <2>1. Tail(todo[q]) = NoneLeft
    BY <1>2, <1>4, Lists
  <2> QED
    BY <1>1, <1>2, <1>4, <2>1 DEF Storing
<1>5. CASE next[q] = "initSecret" /\ todo'[q] = Tail(todo[q])
  <2>1. Tail(todo[q]) \in {NoneLeft, LastTwo, WorkerOnly}
    BY <1>2, <1>5, Lists
  <2> QED
    BY <1>1, <1>2, <1>5, <2>1 DEF Storing
<1> QED
  BY <1>1, <1>3, <1>4, <1>5

\* a run works through what it was given
LEMMA ErrandsStep ==
    ASSUME NEW q \in Runs, [Next]_vars, TypeOK, Errands
    PROVE  Errand(q)'
<1> USE ValueFacts, Stays DEF TypeOK, Storing, Idle, Errands, Errand
<1>1. CASE Advances(q)
  <2> USE <1>1, StepFrame DEF Advances, Checked, Goto, Settle
  <2>1. CASE Seed(q) \/ Read(q) \/ Create(q) \/ ReadBack(q) \/ CurrentCertificate(q)
    <3>1. CASE Read(q) \/ ReadBack(q)
      BY <1>1, <3>1, ErrandSettled
    <3>2. CASE Seed(q) \/ Create(q) \/ CurrentCertificate(q)
      BY <3>2 DEF Seed, Create, CurrentCertificate, KeyOnly
    <3> QED
      BY <2>1, <3>1, <3>2
  <2>2. CASE LookForDatabase(q) \/ Observe(q) \/ CreateInitSecret(q) \/ DeployDatabase(q)
    BY <2>2 DEF LookForDatabase, Observe, CreateInitSecret, DeployDatabase, AllThree
  <2>3. CASE AwaitDatabase(q) \/ CreateInitJob(q) \/ AwaitInitJob(q) \/ CleanInitialization(q)
    BY <2>3 DEF AwaitDatabase, CreateInitJob, AwaitInitJob, CleanInitialization, Forget,
       Released, AdminOnly
  <2>4. CASE Runtime(q) \/ WriteApiSecret(q) \/ WriteWorkerSecret(q)
    BY <2>4 DEF Runtime, WriteApiSecret, WriteWorkerSecret, KeyOnly
  <2>5. CASE DeployApp(q) \/ AwaitApp(q) \/ TagRedisNic(q) \/ AwaitTags(q)
    BY <2>5 DEF DeployApp, AwaitApp, TagRedisNic, AwaitTags, SendApp
  <2>6. CASE Certificate(q) \/ AwaitCertificate(q) \/ DeployHttps(q) \/ AwaitHttps(q) \/ Verify(q)
    BY <2>6 DEF Certificate, AwaitCertificate, DeployHttps, AwaitHttps, Verify, SendApp, Forget,
       Released
  <2> QED
    BY <2>1, <2>2, <2>3, <2>4, <2>5, <2>6 DEF Step
<1>2. CASE ~Advances(q)
  BY <1>2, RunFrame
<1> QED
  BY <1>1, <1>2

\* the store changes only when a write lands
LEMMA StoreSame ==
    ASSUME [Next]_vars
    PROVE  UNCHANGED <<store, late>> \/ \E f \in flying : Land(f)
<1>1. ASSUME NEW r \in Runs, Create(r), Advances(r)
      PROVE  UNCHANGED <<store, late>>
  BY <1>1 DEF Create, Checked, Advances
<1> QED
  BY <1>1, VaultFrame DEF vault

LEMMA ValuesSent ==
    ASSUME [Next]_vars, TypeOK, Sent
    PROVE  \A f \in flying' : f.value # None
<1>1. ASSUME NEW r \in Runs, Create(r), Advances(r)
      PROVE  \A f \in flying' : f.value # None
  <2> DEFINE c == Head(todo[r])
             v == IF Provided(c) # None THEN Provided(c) ELSE Fresh
  <2>1. v # None
    BY FreshIsGenerated, ValueFacts
  <2>2. flying' = flying \cup {[run |-> r, cred |-> c, value |-> v]}
    BY <1>1, Zenon DEF Create, Checked, Advances
  <2> QED
    BY <2>1, <2>2 DEF Sent
<1>2. ASSUME NEW f \in flying, Land(f)
      PROVE  flying' \subseteq flying
  BY <1>2 DEF Land
<1> QED
  BY <1>1, <1>2, VaultFrame DEF Sent, vault

\* only these steps lead to a write
LEMMA StoresOnly ==
    ASSUME NEW q \in Runs, TypeOK, Advances(q), ~(Read(q) \/ ReadBack(q) \/ Create(q))
    PROVE  pc'[q] \notin {"create", "sent"}
<1> USE StepFrame DEF Advances, Checked, Goto, Settle, Idle, TypeOK, Settled
<1>1. CASE Seed(q) \/ Read(q) \/ Create(q) \/ ReadBack(q) \/ CurrentCertificate(q)
  BY <1>1 DEF Seed, CurrentCertificate
<1>2. CASE LookForDatabase(q) \/ Observe(q) \/ CreateInitSecret(q) \/ DeployDatabase(q)
  BY <1>2 DEF LookForDatabase, Observe, CreateInitSecret, DeployDatabase
<1>3. CASE AwaitDatabase(q) \/ CreateInitJob(q) \/ AwaitInitJob(q) \/ CleanInitialization(q)
  BY <1>3 DEF AwaitDatabase, CreateInitJob, AwaitInitJob, CleanInitialization, Forget, Released
<1>4. CASE Runtime(q) \/ WriteApiSecret(q) \/ WriteWorkerSecret(q)
  BY <1>4 DEF Runtime, WriteApiSecret, WriteWorkerSecret
<1>5. CASE DeployApp(q) \/ AwaitApp(q) \/ TagRedisNic(q) \/ AwaitTags(q)
  BY <1>5 DEF DeployApp, AwaitApp, TagRedisNic, AwaitTags, SendApp
<1>6. CASE Certificate(q) \/ AwaitCertificate(q) \/ DeployHttps(q) \/ AwaitHttps(q) \/ Verify(q)
  BY <1>6 DEF Certificate, AwaitCertificate, DeployHttps, AwaitHttps, Verify, SendApp,
     Forget, Released
<1> QED
  BY <1>1, <1>2, <1>3, <1>4, <1>5, <1>6 DEF Step

LEMMA SendsOnly ==
    ASSUME NEW q \in Runs, TypeOK, Errands, Advances(q), pc'[q] = "sent"
    PROVE  Create(q)
<1>1. ASSUME Read(q) \/ ReadBack(q)
      PROVE  pc'[q] # "sent"
  BY <1>1, Settles DEF Errands, Errand, Storing
<1> QED
  BY <1>1, StoresOnly

\* a run sends a write only while no other pod is there
LEMMA AloneStep ==
    ASSUME [Next]_vars, TypeOK, Errands, Sent
    PROVE  Alone'
<1>0. place' = place
  BY Stays
<1>1. ASSUME NEW q \in Runs, pc'[q] = "sent", pc[q] # "sent"
      PROVE  Create(q) /\ Advances(q)
  <2>1. Advances(q)
    BY <1>1, RunFrame DEF Idle
  <2> QED
    BY <1>1, <2>1, SendsOnly
<1>2. ASSUME NEW q \in Runs, Create(q), Advances(q), Azure, NEW p \in Runs, p # q
      PROVE  pc'[p] # "sent"
  <2>1. MayWrite(q)
    BY <1>2 DEF Create, Checked, Advances
  <2>2. pc[p] = Idle
    BY <1>2, <2>1 DEF MayWrite, Alive
  <2>3. pc'[p] = pc[p]
    BY <1>2 DEF Create, Checked, Advances, TypeOK
  <2> QED
    BY <2>2, <2>3 DEF Idle
<1> QED
  BY <1>0, <1>1, <1>2 DEF Sent, Alone, Azure

\* a write that nobody waits for, or whose sender lost its claim, is late
LEMMA InTimeStep ==
    ASSUME [Next]_vars, TypeOK, Errands, Sent, NEW q \in Runs
    PROVE  InTime(q)'
<1> USE DEF Sent, InTime, Azure
<1>0. place' = place
  BY Stays
<1>1. CASE Advances(q)
  <2>1. CASE Read(q) \/ ReadBack(q)
    BY <1>0, <1>1, <2>1, Settles DEF world, vault, Errands, Errand
  <2>2. CASE Create(q)
    BY <1>0, <1>1, <2>2 DEF Create, Checked, Advances, TypeOK
  <2>3. ASSUME ~(Read(q) \/ ReadBack(q) \/ Create(q))
        PROVE  pc'[q] \notin {"create", "sent"}
    BY <1>1, <2>3, StoresOnly
  <2> QED
    BY <2>1, <2>2, <2>3
<1>2. CASE ~Advances(q)
  <2> DEFINE waits == pc[q] = "sent" \/ (pc[q] = "create" /\ claim = q)
             waits1 == pc'[q] = "sent" \/ (pc'[q] = "create" /\ claim' = q)
  <2>1. ASSUME NEW f \in flying, Land(f), Azure, late' = "none"
        PROVE  pc[f.run] = "sent" /\ claim = f.run /\ pc'[f.run] = "readBack"
               /\ claim' = claim /\ \A p \in Runs \ {f.run} : pc'[p] = pc[p]
    BY <2>1 DEF Land, TypeOK
  <2>2. waits1 => waits /\ todo'[q] = todo[q]
    BY <1>2, RunFrame DEF Idle
  <2>3. late' = "none" /\ Azure /\ waits1 => UNCHANGED <<store, late>>
    <3> SUFFICES ASSUME late' = "none", Azure, waits1, NEW f \in flying, Land(f)
                 PROVE  FALSE
      BY StoreSame
    <3>1. f.run \in Runs
      BY DEF TypeOK
    <3>2. q # f.run
      BY <2>1
    <3>3. pc[q] = "sent" \/ (pc[q] = "create" /\ claim = q)
      BY <2>2
    <3> QED
      BY <2>1, <3>1, <3>2, <3>3 DEF Alone
  <2> QED
    BY <1>0, <2>2, <2>3
<1> QED
  BY <1>1, <1>2


LEMMA KeepsSettled ==
    ASSUME NEW q \in Runs, TypeOK, Errands, Keeps(q), Advances(q), Read(q) \/ ReadBack(q)
    PROVE  Keeps(q)'
<1>1. UNCHANGED <<store, late>>
  BY Settles DEF world, vault
<1>2. \/ known'[q] = known[q]
      \/ /\ store[Head(todo[q])] # None
         /\ known'[q] = [known[q] EXCEPT ![Head(todo[q])] = store[Head(todo[q])]]
  BY Settles
<1>3. ASSUME NEW c \in Creds
      PROVE  known'[q][c] = known[q][c] \/ (known'[q][c] = store[c] /\ store[c] # None)
  BY <1>2 DEF TypeOK
<1> QED
  BY <1>1, <1>3 DEF Keeps, Same

\* what a run has read is still there
LEMMA KeepsStep ==
    ASSUME NEW q \in Runs, [Next]_vars, TypeOK, Errands, Sent, Keeps(q)
    PROVE  Keeps(q)'
<1> USE ValueFacts, Stays, StoreKeeps DEF TypeOK, Keeps, Same
<1>1. CASE Advances(q)
  <2> USE <1>1, StepFrame DEF Advances, Checked, Goto, Settle
  <2>1. CASE Seed(q) \/ Read(q) \/ Create(q) \/ ReadBack(q) \/ CurrentCertificate(q)
    <3>1. CASE Read(q) \/ ReadBack(q)
      BY <1>1, <3>1, KeepsSettled
    <3>2. CASE Seed(q) \/ Create(q) \/ CurrentCertificate(q)
      BY <3>2 DEF Seed, Create, CurrentCertificate
    <3> QED
      BY <2>1, <3>1, <3>2
  <2>2. CASE LookForDatabase(q) \/ Observe(q) \/ CreateInitSecret(q) \/ DeployDatabase(q)
    BY <2>2 DEF LookForDatabase, Observe, CreateInitSecret, DeployDatabase
  <2>3. CASE AwaitDatabase(q) \/ CreateInitJob(q) \/ AwaitInitJob(q) \/ CleanInitialization(q)
    BY <2>3 DEF AwaitDatabase, CreateInitJob, AwaitInitJob, CleanInitialization, Forget, Released
  <2>4. CASE Runtime(q) \/ WriteApiSecret(q) \/ WriteWorkerSecret(q)
    BY <2>4 DEF Runtime, WriteApiSecret, WriteWorkerSecret
  <2>5. CASE DeployApp(q) \/ AwaitApp(q) \/ TagRedisNic(q) \/ AwaitTags(q)
    BY <2>5 DEF DeployApp, AwaitApp, TagRedisNic, AwaitTags, SendApp
  <2>6. CASE Certificate(q) \/ AwaitCertificate(q) \/ DeployHttps(q) \/ AwaitHttps(q) \/ Verify(q)
    BY <2>6 DEF Certificate, AwaitCertificate, DeployHttps, AwaitHttps, Verify, SendApp, Forget,
       Released
  <2> QED
    BY <2>1, <2>2, <2>3, <2>4, <2>5, <2>6 DEF Step
<1>2. CASE ~Advances(q)
  <2>1. known'[q] = known[q] \/ known'[q] = [c \in Creds |-> None]
    BY <1>2, RunFrame
  <2>2. ASSUME NEW c \in Creds, known'[q][c] # None
        PROVE  known'[q][c] = known[q][c]
    BY <2>1, <2>2
  <2> QED
    BY <2>2
<1> QED
  BY <1>1, <1>2

LEMMA KnowsSettled ==
    ASSUME NEW q \in Runs, TypeOK, Errands, Knows(q), Advances(q), Read(q) \/ ReadBack(q)
    PROVE  Knows(q)'
<1>0. UNCHANGED store
  BY Settles DEF world, vault
<1>1. /\ pc[q] \in Storing /\ next'[q] = next[q] /\ Head(todo[q]) \in Creds
      /\ \/ pc'[q] = "create" /\ todo'[q] = todo[q] /\ known'[q] = known[q]
         \/ /\ todo'[q] = Tail(todo[q]) /\ store[Head(todo[q])] # None
            /\ known'[q] = [known[q] EXCEPT ![Head(todo[q])] = store[Head(todo[q])]]
            /\ pc'[q] = IF Tail(todo[q]) = NoneLeft THEN next[q] ELSE "read"
  BY Settles
<1>2. \/ next[q] = "previous" /\ todo[q] = KeyOnly
      \/ next[q] = "runtimeApi" /\ role = "data" /\ todo[q] = KeyOnly
      \/ next[q] = "initJob" /\ todo[q] = AdminOnly
      \/ /\ next[q] = "initSecret" /\ role # "data"
         /\ todo[q] \in {AllThree, LastTwo, WorkerOnly}
  BY <1>1 DEF Errands, Errand
<1> USE DEF Knows, At, Roles
<1>3. CASE pc'[q] = "create" /\ todo'[q] = todo[q] /\ known'[q] = known[q]
  BY <1>0, <1>1, <1>3 DEF Storing
<1> DEFINE settled == /\ todo'[q] = Tail(todo[q]) /\ store[Head(todo[q])] # None
                      /\ known'[q] = [known[q] EXCEPT ![Head(todo[q])] = store[Head(todo[q])]]
                      /\ pc'[q] = IF Tail(todo[q]) = NoneLeft THEN next[q] ELSE "read"
<1>4. CASE settled /\ todo[q] \in {KeyOnly, AdminOnly}
  <2>1. Tail(todo[q]) = NoneLeft /\ Head(todo[q]) \in {"demoKey", "admin"}
    BY <1>4, Lists
  <2>2. next[q] \in {"previous", "runtimeApi", "initJob", "initSecret"}
    BY <1>2
  <2>3. next[q] = "runtimeApi" => Head(todo[q]) = "demoKey"
    BY <1>2, <1>4, Lists
  <2>4. next[q] # "initSecret"
    BY <1>2, <1>4, Lists
  <2>5. \A c \in Roles : known'[q][c] = known[q][c]
    BY <1>1, <1>4, <2>1 DEF TypeOK
  <2> QED
    BY <1>0, <1>1, <1>4, <2>1, <2>2, <2>3, <2>4, <2>5 DEF Storing
<1>5. CASE settled /\ todo[q] = AllThree
  BY <1>0, <1>1, <1>2, <1>5, Lists DEF Storing
<1>6. CASE settled /\ todo[q] = LastTwo
  <2>1. Head(todo[q]) = "api" /\ todo'[q] = WorkerOnly /\ pc'[q] = "read"
    BY <1>6, Lists
  <2>2. known'[q]["api"] # None
    BY <1>6, <2>1 DEF TypeOK, Creds
  <2>3. next[q] = "initSecret" => store["demoKey"] # None
    BY <1>1, <1>6, Lists
  <2>4. next[q] = "initSecret"
    BY <1>2, <1>6, Lists DEF LastTwo, KeyOnly, AdminOnly
  <2> QED
    BY <1>0, <1>1, <2>1, <2>2, <2>3, <2>4 DEF Storing
<1>7. CASE settled /\ todo[q] = WorkerOnly
  <2>1. Head(todo[q]) = "worker" /\ pc'[q] = next[q]
    BY <1>7, Lists
  <2>2. known'[q]["worker"] # None /\ known'[q]["api"] = known[q]["api"]
    BY <1>7, <2>1 DEF TypeOK, Creds
  <2>3. next[q] = "initSecret"
    BY <1>2, <1>7, Lists DEF WorkerOnly, KeyOnly, AdminOnly
  <2>4. store["demoKey"] # None /\ known[q]["api"] # None
    BY <1>1, <1>7, <2>3, Lists
  <2> QED
    BY <1>0, <1>1, <2>1, <2>2, <2>3, <2>4 DEF Storing
<1> QED
  BY <1>1, <1>2, <1>3, <1>4, <1>5, <1>6, <1>7

\* a run copies what was stored
LEMMA KnowsStep ==
    ASSUME NEW q \in Runs, [Next]_vars, TypeOK, Errands, Sent, Knows(q), Reached(q), Initialized
    PROVE  Knows(q)'
<1> USE ValueFacts, Stays, StoreKeeps DEF TypeOK, Knows, At, Roles, Storing, Idle, Creds
<1>1. CASE Advances(q)
  <2> USE <1>1, StepFrame DEF Advances, Checked, Goto, Settle
  <2>1. CASE Seed(q) \/ Read(q) \/ Create(q) \/ ReadBack(q) \/ CurrentCertificate(q)
    <3>1. CASE Read(q) \/ ReadBack(q)
      BY <1>1, <3>1, KnowsSettled
    <3>2. CASE Seed(q) \/ Create(q) \/ CurrentCertificate(q)
      BY <3>2 DEF Seed, Create, CurrentCertificate
    <3> QED
      BY <2>1, <3>1, <3>2
  <2>2. CASE LookForDatabase(q) \/ Observe(q) \/ CreateInitSecret(q) \/ DeployDatabase(q)
    <3>1. CASE LookForDatabase(q)
      <4>1. \/ pc'[q] \in {"runtime", "observe", Idle}
            \/ pc'[q] = "read" /\ next'[q] = "initSecret" /\ todo'[q] = AllThree
        BY <3>1 DEF LookForDatabase, AllThree
      <4> QED
        BY <4>1, Lists
    <3>2. CASE Observe(q) \/ CreateInitSecret(q) \/ DeployDatabase(q)
      BY <3>2 DEF Observe, CreateInitSecret, DeployDatabase
    <3> QED
      BY <2>2, <3>1, <3>2
  <2>3. CASE AwaitDatabase(q) \/ CreateInitJob(q) \/ AwaitInitJob(q) \/ CleanInitialization(q)
    BY <2>3 DEF AwaitDatabase, CreateInitJob, AwaitInitJob, CleanInitialization, Forget,
       Released, Reached
  <2>4. CASE Runtime(q) \/ WriteApiSecret(q) \/ WriteWorkerSecret(q)
    BY <2>4 DEF Runtime, WriteApiSecret, WriteWorkerSecret, Reached, WithDatabase, AfterCleanup,
       Initialized
  <2>5. CASE DeployApp(q) \/ AwaitApp(q) \/ TagRedisNic(q) \/ AwaitTags(q)
    BY <2>5 DEF DeployApp, AwaitApp, TagRedisNic, AwaitTags, SendApp
  <2>6. CASE Certificate(q) \/ AwaitCertificate(q) \/ DeployHttps(q) \/ AwaitHttps(q) \/ Verify(q)
    BY <2>6 DEF Certificate, AwaitCertificate, DeployHttps, AwaitHttps, Verify, SendApp, Forget,
       Released
  <2> QED
    BY <2>1, <2>2, <2>3, <2>4, <2>5, <2>6 DEF Step
<1>2. CASE ~Advances(q)
  BY <1>2, RunFrame
<1> QED
  BY <1>1, <1>2

-----------------------------------------------------------------------------
(* The database and the runtime Secrets *)

\* what a run takes to the Secret of an initialization is in the store
LEMMA PasswordsAreStored ==
    ASSUME NEW r \in Runs, Keeps(r), Knows(r), pc[r] \in {"initSecret", "initJob"}
    PROVE  /\ store["demoKey"] # None /\ Passwords(r) # NoPasswords
           /\ \A c \in Roles : Same(c, Passwords(r)[c])
<1>1. store["demoKey"] # None /\ \A c \in Roles : known[r][c] # None
  BY DEF Knows, At
<1>2. \A c \in Roles : Passwords(r)[c] = known[r][c] /\ NoPasswords[c] = None
  BY DEF Passwords, NoPasswords, Roles
<1>3. \A c \in Roles : Same(c, Passwords(r)[c])
  BY <1>1, <1>2 DEF Keeps, Roles, Creds
<1>4. Passwords(r) # NoPasswords
  BY <1>1, <1>2 DEF Roles
<1> QED
  BY <1>1, <1>3, <1>4

\* passwords that were in the store still are
LEMMA PasswordsStay ==
    ASSUME [Next]_vars, TypeOK, Sent, NEW passwords,
           store["demoKey"] # None, \A c \in Roles : Same(c, passwords[c])
    PROVE  /\ store'["demoKey"] # None
           /\ \A c \in Roles : passwords[c] # None /\ store'[c] # None
                              /\ (late' # "overtaken" => store'[c] = passwords[c])
  BY StoreKeeps DEF Same, Roles, Creds

LEMMA InitializedStep ==
    ASSUME [Next]_vars, TypeOK, Sent, RunsAreRight, Initialized
    PROVE  Initialized'
<1> DEFINE stored(passwords) ==
             store["demoKey"] # None /\ \A c \in Roles : Same(c, passwords[c])
           copied == /\ initSecret' # NoPasswords => initSecret' = initSecret \/ stored(initSecret')
                     /\ db' # NoPasswords => db' = db \/ stored(db')
           staged == /\ initJob' # "none" => initSecret' # NoPasswords
                     /\ initJob' = "complete" => db' # NoPasswords
<1>1. copied /\ staged
  <2> USE DEF data, Initialized
  <2>1. ASSUME NEW r \in Runs, Advances(r), CreateInitSecret(r) \/ CreateInitJob(r)
        PROVE  copied /\ staged
    <3>1. pc[r] \in {"initSecret", "initJob"} /\ claim = r
      BY <2>1, StepFrame DEF Advances, CreateInitSecret, CreateInitJob
    <3>2. stored(Passwords(r)) /\ Passwords(r) # NoPasswords
      BY <3>1, PasswordsAreStored DEF RunsAreRight
    <3>3. /\ initSecret' = Passwords(r) /\ db' = db
          /\ initJob' \in {initJob, "running"}
      BY <2>1, <3>1 DEF Advances, CreateInitSecret, CreateInitJob, Checked
    <3> QED
      BY <3>2, <3>3
  <2>2. ASSUME NEW r \in Runs, Advances(r), DeployDatabase(r) \/ CleanInitialization(r)
        PROVE  copied /\ staged
    BY <2>2 DEF Advances, DeployDatabase, CleanInitialization, Checked
  <2>3. CASE Initialize
    BY <2>3 DEF Initialize
  <2>4. CASE DatabaseMade
    BY <2>4 DEF DatabaseMade
  <2>5. CASE UNCHANGED data
    BY <2>5
  <2> QED
    BY <2>1, <2>2, <2>3, <2>4, <2>5, DataFrame
<1>2. ASSUME NEW passwords \in {initSecret', db'}, passwords # NoPasswords
      PROVE  stored(passwords)
  BY <1>1, <1>2 DEF Initialized
<1>3. ASSUME NEW passwords \in {initSecret', db'}, passwords # NoPasswords
      PROVE  /\ store'["demoKey"] # None
             /\ \A c \in Roles : passwords[c] # None /\ store'[c] # None
                              /\ (late' # "overtaken" => store'[c] = passwords[c])
  BY <1>2, <1>3, PasswordsStay
<1> QED
  BY <1>1, <1>3 DEF Initialized, Same

\* a runtime Secret is written from the store, and the store keeps its values
LEMMA RunningStep ==
    ASSUME [Next]_vars, TypeOK, Sent, RunsAreRight, Initialized, Running
    PROVE  Running'
<1> DEFINE good(a, w) ==
             /\ a # NoSecret =>
                  /\ Same("demoKey", a.key)
                  /\ role # "data" => db # NoPasswords /\ Same("api", a.password)
             /\ role # "data" /\ w # NoSecret =>
                  db # NoPasswords /\ Same("worker", w.password)
<1>1. good(api', worker')
  <2>1. ASSUME NEW r \in Runs, Advances(r), WriteApiSecret(r)
        PROVE  good(api', worker')
    <3>1. pc[r] = "runtimeApi" /\ api' = ApiSecret(r) /\ worker' = worker
      BY <2>1 DEF WriteApiSecret, Checked, Advances
    <3>2. store["demoKey"] # None /\ (role # "data" => db # NoPasswords)
      BY <3>1 DEF RunsAreRight, Knows, Reached, At, AfterCleanup
    <3>3. role # "data" => store["api"] # None
      BY <3>2 DEF Initialized, Same, Roles
    <3> QED
      BY <3>1, <3>2, <3>3 DEF ApiSecret, Same, Running
  <2>2. ASSUME NEW r \in Runs, Advances(r), WriteWorkerSecret(r)
        PROVE  good(api', worker')
    <3>1. /\ pc[r] = "runtimeWorker" /\ api' = api
          /\ worker' = [key |-> None, password |-> IF role = "data" THEN None ELSE store["worker"]]
      BY <2>2 DEF WriteWorkerSecret, Checked, Advances
    <3>2. role # "data" => db # NoPasswords
      BY <3>1 DEF RunsAreRight, Reached, At, AfterCleanup, AfterApi
    <3>3. role # "data" => store["worker"] # None
      BY <3>2 DEF Initialized, Same, Roles
    <3> QED
      BY <3>1, <3>2, <3>3 DEF Same, Running
  <2>3. CASE UNCHANGED secrets
    BY <2>3 DEF secrets, Running
  <2> QED
    BY <2>1, <2>2, <2>3, SecretsFrame
<1>2. db # NoPasswords => db' = db
  BY Stays
<1>3. role' = role
  BY Stays
<1>4. \A c \in {"demoKey", "api", "worker"} :
        /\ store[c] # None => store'[c] # None
        /\ late' # "overtaken" => late # "overtaken" /\ (store[c] # None => store'[c] = store[c])
  BY StoreKeeps DEF Creds
<1> QED
  BY <1>1, <1>2, <1>3, <1>4 DEF Running, Same

LEMMA NoDatabaseStep ==
    ASSUME [Next]_vars, TypeOK, RunsAreRight, NoDatabase
    PROVE  NoDatabase'
<1>1. role' = role
  BY Stays
<1>2. ASSUME NEW r \in Runs, Advances(r),
             CreateInitSecret(r) \/ DeployDatabase(r) \/ CreateInitJob(r) \/ CleanInitialization(r)
      PROVE  role # "data"
  BY <1>2 DEF CreateInitSecret, DeployDatabase, CreateInitJob, CleanInitialization, RunsAreRight,
     Reached, At, WithDatabase
<1>3. role = "data" => ~DatabaseMade /\ ~Initialize
  BY DEF NoDatabase, DatabaseMade, Initialize
<1> QED
  BY <1>1, <1>2, <1>3, DataFrame DEF NoDatabase, data

LEMMA CertifiedStep ==
    ASSUME [Next]_vars, TypeOK, Certified
    PROVE  Certified'
<1>1. ASSUME NEW r \in Runs, Advances(r),
             DeployApp(r) \/ DeployHttps(r) \/ Certificate(r) \/ AwaitCertificate(r)
      PROVE  Certified'
  BY <1>1, Stays DEF DeployApp, DeployHttps, SendApp, Certificate, AwaitCertificate, Checked,
     Advances, Certified
<1>2. CASE AppDeployed \/ IssueCertificate
  BY <1>2, Stays DEF AppDeployed, IssueCertificate, Certified
<1> QED
  BY <1>1, <1>2, GatewayFrame DEF gateway, Certified

LEMMA SecretsStay ==
    ASSUME [Next]_vars, TypeOK, RunsAreRight, Initialized
    PROVE  /\ api # NoSecret => api' # NoSecret
           /\ role # "data" /\ worker # NoSecret => worker' # NoSecret
           /\ \A r \in Runs : Advances(r) /\ WriteApiSecret(r) => api' # NoSecret
           /\ \A r \in Runs : Advances(r) /\ WriteWorkerSecret(r) /\ role # "data" =>
                worker' # NoSecret
<1>1. ASSUME NEW r \in Runs, Advances(r), WriteApiSecret(r)
      PROVE  api' # NoSecret /\ worker' = worker
  <2>1. pc[r] = "runtimeApi" /\ api' = ApiSecret(r) /\ worker' = worker
    BY <1>1 DEF WriteApiSecret, Checked, Advances
  <2>2. store["demoKey"] # None
    BY <2>1 DEF RunsAreRight, Knows
  <2> QED
    BY <2>1, <2>2 DEF ApiSecret, NoSecret
<1>2. ASSUME NEW r \in Runs, Advances(r), WriteWorkerSecret(r)
      PROVE  api' = api /\ (role # "data" => worker' # NoSecret)
  <2>1. /\ pc[r] = "runtimeWorker" /\ api' = api
        /\ worker' = [key |-> None, password |-> IF role = "data" THEN None ELSE store["worker"]]
    BY <1>2 DEF WriteWorkerSecret, Checked, Advances
  <2>2. role # "data" => db # NoPasswords
    BY <2>1 DEF RunsAreRight, Reached, At, AfterCleanup, AfterApi
  <2>3. role # "data" => store["worker"] # None
    BY <2>2 DEF Initialized, Same, Roles
  <2> QED
    BY <2>1, <2>3 DEF NoSecret
<1> QED
  BY <1>1, <1>2, SecretsFrame DEF secrets

-----------------------------------------------------------------------------
(* Where a run goes *)

Goes(r, from, to) == pc[r] = from /\ pc'[r] = to
GoesToSettle(r, from, step) == Goes(r, from, "read") /\ next'[r] = step

\* it settles credentials, and comes to the step after them
Settling(r) ==
    /\ pc[r] \in Storing /\ pc'[r] \in Storing \cup {next[r]} /\ next'[r] = next[r]
    /\ next[r] \in {"previous", "runtimeApi", "initJob", "initSecret"}

Starting(r) ==
    \/ Goes(r, "start", "previous") \/ GoesToSettle(r, "start", "previous")
    \/ Goes(r, "previous", "look")
    \/ Goes(r, "look", "runtime") /\ role = "data"
    \/ Goes(r, "look", "observe") /\ role # "data" /\ database = "ready"
    \/ GoesToSettle(r, "look", "initSecret") /\ role # "data"

Initializing(r) ==
    \/ Goes(r, "observe", "cleanup") /\ db # NoPasswords
    \/ Goes(r, "initSecret", "deployDatabase") \/ Goes(r, "deployDatabase", "awaitDatabase")
    \/ Goes(r, "awaitDatabase", "initJob") /\ database = "ready"
    \/ GoesToSettle(r, "awaitDatabase", "initJob") /\ database = "ready"
    \/ Goes(r, "initJob", "awaitJob")
    \/ Goes(r, "awaitJob", "cleanup") /\ initJob = "complete"
    \/ Goes(r, "cleanup", "cleanup")
    \/ /\ Goes(r, "cleanup", "runtime")
       /\ ~setup' /\ initSecret' = NoPasswords /\ initJob' = "none"

WritingSecrets(r) ==
    \/ Goes(r, "runtime", "runtimeApi") /\ role # "data"
    \/ GoesToSettle(r, "runtime", "runtimeApi") /\ role = "data"
    \/ /\ WriteApiSecret(r)
       /\ \/ Goes(r, "runtimeApi", "deployApp") /\ prepared
          \/ Goes(r, "runtimeApi", "runtimeWorker") /\ ~prepared
    \/ WriteWorkerSecret(r) /\ Goes(r, "runtimeWorker", "deployApp")

Deploying(r) ==
    \/ Goes(r, "deployApp", "awaitApp") \/ Goes(r, "deployHttps", "awaitHttps")
    \/ Goes(r, "awaitApp", "tag") /\ app.state = "ready"
    \/ Goes(r, "awaitApp", "certificate")
    \/ Goes(r, "awaitApp", "verify") /\ ~Azure
    \/ TagRedisNic(r) /\ (Goes(r, "tag", "awaitTag") \/ Goes(r, "tagAgain", "awaitTagAgain"))
    \/ /\ AwaitTags(r) /\ nicJob = "complete"
       /\ Goes(r, "awaitTag", "certificate") \/ Goes(r, "awaitTagAgain", "verify")
    \/ Goes(r, "certificate", "awaitCertificate")
    \/ Goes(r, "awaitCertificate", "deployHttps") /\ certJob = "complete"
    \/ Goes(r, "awaitHttps", "tagAgain") /\ app.state = "ready"
    \/ Goes(r, "awaitHttps", "verify") /\ app.state = "ready" /\ ~Tags

LEMMA Paths ==
    ASSUME NEW q \in Runs, TypeOK, Errands, Advances(q)
    PROVE  /\ claim = q
           /\ \/ pc'[q] = Idle
              \/ Settling(q) \/ Starting(q) \/ Initializing(q) \/ WritingSecrets(q) \/ Deploying(q)
<1>0. claim = q
  BY StepFrame DEF Advances
<1> USE <1>0 DEF Advances, Checked, Goto, Settle, TypeOK, Goes, GoesToSettle
<1>1. CASE Seed(q) \/ Read(q) \/ Create(q) \/ ReadBack(q) \/ CurrentCertificate(q)
  <2>1. CASE Read(q) \/ ReadBack(q)
    <3>1. pc[q] \in Storing /\ next'[q] = next[q] /\ pc'[q] \in {"create", next[q], "read"}
      BY <2>1, Settles
    <3> QED
      BY <3>1 DEF Settling, Storing, Errands, Errand
  <2>2. CASE Create(q)
    <3>1. pc[q] = "create" /\ pc'[q] = "sent" /\ next'[q] = next[q]
      BY <2>2 DEF Create
    <3> QED
      BY <3>1 DEF Settling, Storing, Errands, Errand
  <2>3. CASE Seed(q) \/ CurrentCertificate(q)
    BY <2>3 DEF Seed, CurrentCertificate, Starting
  <2> QED
    BY <1>1, <2>1, <2>2, <2>3
<1>2. CASE LookForDatabase(q) \/ Observe(q) \/ CreateInitSecret(q) \/ DeployDatabase(q)
  BY <1>2 DEF LookForDatabase, Observe, CreateInitSecret, DeployDatabase, Starting, Initializing
<1>3. CASE AwaitDatabase(q) \/ CreateInitJob(q) \/ AwaitInitJob(q) \/ CleanInitialization(q)
  BY <1>3 DEF AwaitDatabase, CreateInitJob, AwaitInitJob, CleanInitialization, Forget, Initializing
<1>4. CASE Runtime(q) \/ WriteApiSecret(q) \/ WriteWorkerSecret(q)
  BY <1>4 DEF Runtime, WriteApiSecret, WriteWorkerSecret, WritingSecrets
<1>5. CASE DeployApp(q) \/ AwaitApp(q) \/ TagRedisNic(q) \/ AwaitTags(q)
  <2>4. CASE DeployApp(q)
    <3>1. pc[q] = "deployApp" /\ pc' = [pc EXCEPT ![q] = "awaitApp"]
      BY <2>4, Zenon DEF DeployApp, SendApp
    <3> QED
      BY <3>1 DEF Deploying
  <2>1. CASE AwaitApp(q)
    <3>1. /\ pc[q] = "awaitApp" /\ app.state = "ready"
          /\ pc'[q] = IF Tags THEN "tag" ELSE IF Azure THEN "certificate" ELSE "verify"
      BY <2>1 DEF AwaitApp
    <3> QED
      BY <3>1 DEF Deploying
  <2>2. CASE TagRedisNic(q)
    BY <2>2, Zenon DEF TagRedisNic, Deploying
  <2>3. CASE AwaitTags(q)
    BY <2>3 DEF AwaitTags, Deploying
  <2> QED
    BY <1>5, <2>1, <2>2, <2>3, <2>4
<1>6. CASE Certificate(q) \/ AwaitCertificate(q) \/ DeployHttps(q) \/ AwaitHttps(q) \/ Verify(q)
  BY <1>6 DEF Certificate, AwaitCertificate, DeployHttps, AwaitHttps, Verify, SendApp, Forget,
     Deploying
<1> QED
  BY <1>1, <1>2, <1>3, <1>4, <1>5, <1>6 DEF Step

\* a run comes to a step only when what it relies on is there, and it stays
LEMMA ReachedStep ==
    ASSUME NEW q \in Runs, [Next]_vars, TypeOK, Errands, RunsAreRight, Initialized, Certified
    PROVE  Reached(q)'
<1>0. /\ Reached(q)
      /\ db # NoPasswords => db' = db
      /\ database = "ready" => database' = "ready"
      /\ cert => cert'
      /\ role' = role /\ prepared' = prepared /\ (Azure' <=> Azure)
      /\ api # NoSecret => api' # NoSecret
      /\ role # "data" /\ worker # NoSecret => worker' # NoSecret
      /\ Advances(q) /\ WriteApiSecret(q) => api' # NoSecret
      /\ Advances(q) /\ WriteWorkerSecret(q) /\ role # "data" => worker' # NoSecret
  BY Stays, SecretsStay DEF RunsAreRight, Azure
<1> USE <1>0 DEF Reached, At, WithDatabase, AfterCleanup, AfterApi, AfterWorker, AfterHttps,
  Storing,
    Idle, Goes, GoesToSettle
<1>1. CASE Advances(q)
  <2>1. CASE Settling(q)
    BY <2>1 DEF Settling
  <2>2. CASE Starting(q)
    BY <2>2 DEF Starting
  <2>3. CASE Initializing(q)
    BY <2>3 DEF Initializing, Initialized
  <2>4. CASE WritingSecrets(q)
    BY <1>1, <2>4 DEF WritingSecrets
  <2>5. CASE Deploying(q)
    BY <2>5 DEF Deploying, Certified
  <2>6. CASE pc'[q] = Idle
    BY <2>6
  <2> QED
    BY <1>1, <2>1, <2>2, <2>3, <2>4, <2>5, <2>6, Paths
<1>2. CASE ~Advances(q)
  BY <1>2, RunFrame
<1> QED
  BY <1>1, <1>2

-----------------------------------------------------------------------------
(* What a run with the claim relies on *)

\* nobody else touches what was cleaned up
LEMMA CleanedStep ==
    ASSUME NEW q \in Runs, [Next]_vars, TypeOK, Errands, RunsAreRight, NoDatabase
    PROVE  Cleaned(q)'
<1> DEFINE clean == ~setup /\ initSecret = NoPasswords /\ initJob = "none"
           after == claim = q /\ At(q, AfterCleanup)
<1>1. ASSUME after
      PROVE  clean /\ UNCHANGED data
  <2>1. clean /\ database # "working" /\ claim = q /\ At(q, AfterCleanup)
    BY <1>1 DEF RunsAreRight, Cleaned, Reached, NoDatabase
  <2>2. ~DatabaseMade /\ ~Initialize
    BY <2>1 DEF DatabaseMade, Initialize
  <2>3. ASSUME NEW r \in Runs, Advances(r),
               CreateInitSecret(r) \/ DeployDatabase(r) \/ CreateInitJob(r) \/ CleanInitialization(r)
        PROVE  FALSE
    <3>1. claim = r /\ pc[r] \in {"initSecret", "deployDatabase", "initJob", "cleanup"}
      BY <2>3, StepFrame DEF Advances, CreateInitSecret, DeployDatabase, CreateInitJob,
         CleanInitialization
    <3> QED
      BY <2>1, <3>1 DEF At, AfterCleanup, AfterApi, AfterWorker, AfterHttps, Storing
  <2> QED
    BY <2>1, <2>2, <2>3, DataFrame
<1>2. after' => after \/ clean'
  <2> USE DEF At, AfterCleanup, AfterApi, AfterWorker, AfterHttps, Storing, Idle, Goes, GoesToSettle
  <2>1. CASE Advances(q)
    <3>1. claim = q
      BY <2>1, Paths
    <3>2. CASE Settling(q)
      BY <3>1, <3>2 DEF Settling
    <3>3. CASE Starting(q)
      <4>1. role = "data" => clean'
        BY NoDatabaseStep, Stays DEF NoDatabase
      <4> QED
        BY <3>1, <3>3, <4>1 DEF Starting
    <3>4. CASE Initializing(q)
      BY <3>1, <3>4 DEF Initializing
    <3>5. CASE WritingSecrets(q)
      BY <3>1, <3>5 DEF WritingSecrets
    <3>6. CASE Deploying(q)
      BY <3>1, <3>6 DEF Deploying
    <3>7. CASE pc'[q] = Idle
      BY <3>7
    <3> QED
      BY <2>1, <3>2, <3>3, <3>4, <3>5, <3>6, <3>7, Paths
  <2>2. CASE ~Advances(q)
    BY <2>2, RunFrame
  <2> QED
    BY <2>1, <2>2
<1> QED
  BY <1>1, <1>2 DEF Cleaned, data

\* a tag Job ends on an interface that it saw with its tags
LEMMA TagJobTags ==
    ASSUME TypeOK, TagJob
    PROVE  (Tagged => Tagged') /\ (nicJob' = "complete" => Tagged') /\ UNCHANGED app
<1>1. CASE ReadInterface
  BY <1>1 DEF ReadInterface, TagJob, gateway, Tagged
<1>2. CASE PatchInterface
  <2>1. nic'.tags /\ nicJob' = "verify"
    BY <1>2 DEF PatchInterface, TypeOK
  <2> QED
    BY <2>1 DEF TagJob, gateway, Tagged
<1>3. CASE VerifyInterface \/ TagJobFails
  BY <1>3 DEF VerifyInterface, TagJobFails, TagJob, gateway, Tagged
<1> QED
  BY <1>1, <1>2, <1>3 DEF TagJob

\* an interface that replaces another is not the one a Job ended on
LEMMA ReplacedIsAnother ==
    ASSUME TypeOK, tagged <= nic.serial, InterfaceReplaced
    PROVE  Tagged' /\ UNCHANGED <<app, nicJob>>
<1>1. nic' = [serial |-> nic.serial + 1, tags |-> FALSE] /\ tagged' = tagged
  BY DEF InterfaceReplaced
<1>2. nic'.serial = nic.serial + 1 /\ nic.serial \in Nat /\ tagged \in Nat
  BY <1>1 DEF TypeOK
<1> QED
  BY <1>1, <1>2 DEF Tagged, InterfaceReplaced, gateway

LEMMA SerialStep ==
    ASSUME [Next]_vars, TypeOK, tagged <= nic.serial
    PROVE  tagged' <= nic'.serial
<1>0. tagged \in Nat /\ nic \in Interfaces /\ nic.serial \in Nat /\ nic.tags \in BOOLEAN
  BY DEF TypeOK, Interfaces
<1>1. ASSUME NEW r \in Runs, Advances(r), TagRedisNic(r) \/ AwaitTags(r)
      PROVE  UNCHANGED <<tagged, nic>>
  BY <1>1 DEF Advances, TagRedisNic, AwaitTags, Checked
<1>2. CASE AppDeployed
  <2>1. tagged' = tagged
    BY <1>2 DEF AppDeployed
  <2>2. \/ nic' = nic
        \/ \E t \in {nic.tags, FALSE} :
             nic' = [nic EXCEPT !.serial = IF @ = 0 THEN 1 ELSE @, !.tags = t]
    BY <1>2, Zenon DEF AppDeployed
  <2>3. ASSUME NEW t \in BOOLEAN, NEW x \in Nat,
               nic' = [nic EXCEPT !.serial = x, !.tags = t]
        PROVE  nic'.serial = x
    BY <1>0, <2>3, InterfaceUpdates, Zenon
  <2>4. \/ nic' = nic
        \/ \E t \in BOOLEAN : nic' = [nic EXCEPT !.serial = IF nic.serial = 0 THEN 1 ELSE nic.serial,
                                                 !.tags = t]
    BY <1>0, <2>2, Zenon
  <2>5. (IF nic.serial = 0 THEN 1 ELSE nic.serial) \in Nat
    BY <1>0
  <2>6. nic'.serial = nic.serial \/ nic'.serial = IF nic.serial = 0 THEN 1 ELSE nic.serial
    BY <2>3, <2>4, <2>5, Zenon
  <2> QED
    BY <1>0, <2>1, <2>6
<1>3. CASE TagJob
  <2>1. nic'.serial = nic.serial /\ tagged' \in {tagged, nic.serial}
    BY <1>0, <1>3 DEF TagJob, ReadInterface, PatchInterface, VerifyInterface, TagJobFails,
       Interfaces
  <2> QED
    BY <1>0, <2>1
<1>4. CASE InterfaceReplaced
  BY <1>0, <1>4 DEF InterfaceReplaced
<1> QED
  BY <1>1, <1>2, <1>3, <1>4, InterfaceFrame DEF interface

LEMMA TaggingStep ==
    ASSUME NEW q \in Runs, [Next]_vars, TypeOK, Errands, RunsAreRight, tagged <= nic.serial
    PROVE  Tagging(q)'
<1>0. (Tags' <=> Tags) /\ (Tags => Azure)
  BY Stays DEF Tags, Azure
<1> USE <1>0
<1>1. CASE Advances(q)
  <2> USE DEF Tagging, Storing, Idle, Goes, GoesToSettle
  <2>1. CASE Settling(q)
    BY <2>1 DEF Settling
  <2>2. CASE Starting(q)
    BY <2>2 DEF Starting
  <2>3. CASE Initializing(q)
    BY <2>3 DEF Initializing
  <2>4. CASE WritingSecrets(q)
    BY <2>4 DEF WritingSecrets
  <2>5. CASE Deploying(q)
    <3>1. CASE TagRedisNic(q)
      <4>1. /\ app.state = "ready" /\ nicJob' = "first" /\ app' = app
            /\ pc'[q] \in {"awaitTag", "awaitTagAgain"}
        BY <1>1, <3>1 DEF TagRedisNic, Advances, Checked, gateway, Goto, TypeOK
      <4> QED
        BY <4>1
    <3>2. CASE AwaitTags(q)
      <4>1. /\ nicJob = "complete" /\ nicJob' = "none" /\ UNCHANGED <<app, nic, tagged>>
            /\ pc[q] \in {"awaitTag", "awaitTagAgain"}
        BY <1>1, <3>2 DEF AwaitTags, Advances, Checked, gateway
      <4>2. Tags => app.state = "ready" /\ Tagged
        BY <1>1, <4>1, Paths DEF RunsAreRight
      <4> QED
        BY <4>1, <4>2 DEF Tagged
    <3> QED
      BY <2>5, <3>1, <3>2 DEF Deploying
  <2>6. CASE pc'[q] = Idle
    BY <2>6
  <2> QED
    BY <1>1, <2>1, <2>2, <2>3, <2>4, <2>5, <2>6, Paths
<1>2. CASE ~Advances(q)
  <2> SUFFICES ASSUME Tags, claim' = q, pc'[q] \in {"awaitTag", "awaitTagAgain", "verify"}
               PROVE  /\ app'.state = "ready"
                      /\ pc'[q] = "verify" \/ nicJob' = "complete" => Tagged'
    BY DEF Tagging
  <2>1. claim = q /\ pc'[q] = pc[q]
    BY <1>2, RunFrame DEF Idle
  <2>2. /\ app.state = "ready"
        /\ pc[q] = "verify" \/ nicJob = "complete" => Tagged
    BY <2>1 DEF RunsAreRight, Tagging
  <2>3. ~\E r \in Runs : Advances(r)
    BY <1>2, <2>1, StepFrame DEF Advances
  <2>4. ~AppDeployed
    BY <2>2 DEF AppDeployed
  <2>5. app' = app
    BY <2>3, <2>4, GatewayFrame DEF IssueCertificate, gateway
  <2>6. CASE UNCHANGED interface
    BY <2>1, <2>2, <2>5, <2>6 DEF interface, Tagged
  <2>7. CASE TagJob
    BY <2>1, <2>2, <2>5, <2>7, TagJobTags
  <2>8. CASE InterfaceReplaced
    BY <2>2, <2>5, <2>8, ReplacedIsAnother
  <2> QED
    BY <2>3, <2>4, <2>6, <2>7, <2>8, InterfaceFrame
<1> QED
  BY <1>1, <1>2

-----------------------------------------------------------------------------
(* A plane whose run ended well *)

LEMMA StepsOfTheLiving ==
    ASSUME TypeOK, NEW r \in Runs, Advances(r)
    PROVE  Alive(r) /\ claim = r /\ (ok' = ok \/ Verify(r))
<1>0. claim = r
  BY StepFrame DEF Advances
<1> USE DEF Advances, Checked, Goto, Settle, Alive, Idle
<1>1. CASE Seed(r) \/ Read(r) \/ Create(r) \/ ReadBack(r) \/ CurrentCertificate(r)
  BY <1>0, <1>1 DEF Seed, Read, Create, ReadBack, CurrentCertificate, Settled
<1>2. CASE LookForDatabase(r) \/ Observe(r) \/ CreateInitSecret(r) \/ DeployDatabase(r)
  BY <1>0, <1>2 DEF LookForDatabase, Observe, CreateInitSecret, DeployDatabase
<1>3. CASE AwaitDatabase(r) \/ CreateInitJob(r) \/ AwaitInitJob(r) \/ CleanInitialization(r)
  BY <1>0, <1>3 DEF AwaitDatabase, CreateInitJob, AwaitInitJob, CleanInitialization
<1>4. CASE Runtime(r) \/ WriteApiSecret(r) \/ WriteWorkerSecret(r)
  BY <1>0, <1>4 DEF Runtime, WriteApiSecret, WriteWorkerSecret
<1>5. CASE DeployApp(r) \/ AwaitApp(r) \/ TagRedisNic(r) \/ AwaitTags(r)
  BY <1>0, <1>5 DEF DeployApp, AwaitApp, TagRedisNic, AwaitTags, SendApp
<1>6. CASE Certificate(r) \/ AwaitCertificate(r) \/ DeployHttps(r) \/ AwaitHttps(r)
  BY <1>0, <1>6 DEF Certificate, AwaitCertificate, DeployHttps, AwaitHttps, SendApp
<1>7. CASE Verify(r)
  BY <1>0, <1>7 DEF Verify
<1> QED
  BY <1>1, <1>2, <1>3, <1>4, <1>5, <1>6, <1>7 DEF Step

\* a run ends well, or nobody was at work and nobody is
LEMMA EndsWell ==
    ASSUME [Next]_vars, TypeOK, Resting, ok'
    PROVE  \/ \E r \in Runs : Advances(r) /\ Verify(r)
           \/ /\ ok /\ ~\E r \in Runs : Advances(r)
              /\ claim' \in {claim, NoRun}
              /\ \A r \in Runs : Alive(r)' => Alive(r)
<1>1. ASSUME NEW r \in Runs, Advances(r)
      PROVE  Verify(r)
  <2>1. Alive(r) /\ claim = r /\ (ok' = ok \/ Verify(r))
    BY <1>1, StepsOfTheLiving
  <2> QED
    BY <2>1 DEF Resting
<1>2. CASE ~\E r \in Runs : Advances(r)
  <2>1. ASSUME NEW r \in Runs, Begin(r)
        PROVE  FALSE
    BY <2>1 DEF Begin
  <2>2. ok /\ claim' \in {claim, NoRun}
    <3>1. ASSUME NEW r \in Runs, Ends(r)
          PROVE  ok /\ claim' \in {claim, NoRun}
      BY <3>1 DEF Ends
    <3>2. CASE RemoveClaim \/ RemoveJob
      BY <3>2 DEF RemoveClaim, RemoveJob
    <3>3. CASE EditKey \/ DatabaseMade \/ Initialize \/ AppDeployed \/ TagJob \/ IssueCertificate
               \/ InterfaceReplaced \/ UNCHANGED vars
      BY <3>3 DEF EditKey, DatabaseMade, Initialize, AppDeployed, TagJob, IssueCertificate,
         InterfaceReplaced, run, vars
    <3>4. ASSUME NEW f \in flying, Land(f)
          PROVE  ok /\ claim' \in {claim, NoRun}
      BY <3>4 DEF Land
    <3> QED
      BY <1>2, <2>1, <3>1, <3>2, <3>3, <3>4, NextCases
  <2>3. ASSUME NEW q \in Runs
        PROVE  Alive(q)' => Alive(q)
    BY <1>2, <2>1, RunFrame DEF Alive, Idle
  <2> QED
    BY <1>2, <2>2, <2>3
<1> QED
  BY <1>1, <1>2

LEMMA VerifiedIs ==
    ASSUME NEW r \in Runs, TypeOK, Advances(r), Verify(r)
    PROVE  /\ pc[r] = "verify" /\ claim = r /\ app.state = "ready"
           /\ Azure => app.phase = "https"
           /\ pc' = [pc EXCEPT ![r] = Idle] /\ claim' \in {claim, NoRun}
           /\ UNCHANGED <<config, world>>
  BY DEF Verify, Advances, Checked, Forget, Released

LEMMA RestingStep ==
    ASSUME [Next]_vars, TypeOK, Errands, RunsAreRight, NoDatabase, Resting
    PROVE  Resting'
<1> SUFFICES ASSUME ok'
             PROVE  /\ app'.state = "ready" /\ database' # "working"
                    /\ \A q \in Runs : Alive(q)' => claim' # q
  BY DEF Resting
<1>1. ASSUME NEW r \in Runs, Advances(r), Verify(r)
      PROVE  /\ app'.state = "ready" /\ database' # "working"
             /\ \A q \in Runs : Alive(q)' => claim' # q
  <2>1. /\ pc[r] = "verify" /\ claim = r /\ app.state = "ready"
        /\ pc' = [pc EXCEPT ![r] = Idle] /\ claim' \in {claim, NoRun}
        /\ app' = app /\ database' = database
    BY <1>1, VerifiedIs DEF world, gateway, data
  <2>2. database # "working"
    BY <2>1 DEF RunsAreRight, Reached, At, AfterCleanup, AfterApi, AfterWorker, AfterHttps,
       NoDatabase
  <2>3. ASSUME NEW q \in Runs, Alive(q)'
        PROVE  claim' # q
    <3>1. q # r
      BY <2>1, <2>3 DEF Alive, TypeOK
    <3> QED
      BY <2>1, <3>1, RunsAssumption
  <2> QED
    BY <2>1, <2>2, <2>3
<1>2. CASE /\ ok /\ ~\E r \in Runs : Advances(r)
           /\ claim' \in {claim, NoRun}
           /\ \A r \in Runs : Alive(r)' => Alive(r)
  <2>1. app.state = "ready" /\ database # "working" /\ \A q \in Runs : Alive(q) => claim # q
    BY <1>2 DEF Resting
  <2>2. ~AppDeployed /\ ~DatabaseMade
    BY <2>1 DEF AppDeployed, DatabaseMade
  <2>3. app' = app
    BY <1>2, <2>2, GatewayFrame DEF IssueCertificate, gateway
  <2>4. database' = database
    BY <1>2, <2>2, DataFrame DEF Initialize, data
  <2>5. ASSUME NEW q \in Runs, Alive(q)'
        PROVE  claim' # q
    BY <1>2, <2>1, <2>5, RunsAssumption
  <2> QED
    BY <2>1, <2>3, <2>4, <2>5
<1> QED
  BY <1>1, <1>2, EndsWell

LEMMA DeployedStep ==
    ASSUME [Next]_vars, TypeOK, Errands, RunsAreRight, NoDatabase, Resting, tagged <= nic.serial,
           DeployedIsComplete
    PROVE  DeployedIsComplete'
<1> SUFFICES ASSUME ok'
             PROVE  Complete'
  BY DEF DeployedIsComplete
<1>0. /\ role' = role /\ prepared' = prepared
      /\ Azure' <=> Azure
      /\ Tags' <=> Tags
      /\ db # NoPasswords => db' = db
      /\ cert => cert'
  BY Stays DEF Azure, Tags
<1>1. ASSUME NEW r \in Runs, Advances(r), Verify(r)
      PROVE  Complete'
  <2>1. /\ pc[r] = "verify" /\ claim = r /\ (Azure => app.phase = "https")
        /\ UNCHANGED <<api, worker, app, cert, db, setup, initSecret, initJob, nic, tagged>>
    BY <1>1, VerifiedIs DEF world, gateway, data, secrets, interface
  <2>2. Reached(r) /\ Cleaned(r) /\ Tagging(r)
    BY DEF RunsAreRight
  <2> USE DEF At, AfterCleanup, AfterApi, AfterWorker, AfterHttps
  <2>3. /\ role # "data" => db # NoPasswords
        /\ api # NoSecret /\ (role # "data" /\ ~prepared => worker # NoSecret)
        /\ Azure => cert
    BY <2>1, <2>2 DEF Reached
  <2>4. ~setup /\ initSecret = NoPasswords /\ initJob = "none"
    BY <2>1, <2>2 DEF Cleaned
  <2>5. Tags => Tagged
    BY <2>1, <2>2 DEF Tagging
  <2> QED
    BY <1>0, <2>1, <2>3, <2>4, <2>5 DEF Complete, Tagged
<1>2. CASE ok /\ ~\E r \in Runs : Advances(r)
  <2>1. Complete /\ app.state = "ready" /\ database # "working"
    BY <1>2 DEF Resting, DeployedIsComplete
  <2>2. ~AppDeployed /\ ~DatabaseMade /\ ~Initialize
    BY <2>1 DEF AppDeployed, DatabaseMade, Initialize, Complete
  <2>3. app' = app
    BY <1>2, <2>2, GatewayFrame DEF IssueCertificate, gateway
  <2>4. UNCHANGED data
    BY <1>2, <2>2, DataFrame
  <2>5. UNCHANGED secrets
    BY <1>2, SecretsFrame
  <2>6. (Tags => Tagged) => (Tags => Tagged')
    BY <1>2, <2>2, InterfaceFrame, TagJobTags, ReplacedIsAnother DEF interface, Tagged
  <2>7. Tags => Tagged
    BY <2>1 DEF Complete, Tagged
  <2> QED
    BY <1>0, <2>1, <2>3, <2>4, <2>5, <2>6, <2>7 DEF Complete, Tagged, data, secrets
<1> QED
  BY <1>1, <1>2, EndsWell

-----------------------------------------------------------------------------
(* Types *)

Words == [value : Values, stored : BOOLEAN]

LEMMA WordUpdates ==
    ASSUME NEW w \in [Runs -> Words], NEW r \in Runs, NEW b \in BOOLEAN
    PROVE  [w EXCEPT ![r].stored = b] \in [Runs -> Words]
<1> DEFINE x == [w[r] EXCEPT !.stored = b]
<1>1. w[r] \in Words
  OBVIOUS
<1>2. x \in Words
  BY <1>1 DEF Words
<1> HIDE DEF x
<1>3. [w EXCEPT ![r] = x] \in [Runs -> Words]
  BY <1>2
<1> QED
  BY <1>3, Zenon DEF x

LEMMA ConfigTyped ==
    ASSUME [Next]_vars, TypeOK
    PROVE  /\ place' \in {"azure", "local"} /\ role' \in {"management", "control", "data"}
           /\ prepared' \in BOOLEAN /\ given' \in Given \cup {None}
<1>1. ASSUME NEW r \in Runs, Ends(r) \/ Advances(r) \/ Begin(r)
      PROVE  UNCHANGED config
  BY <1>1, StepFrame DEF Ends, Advances, Begin
<1>2. UNCHANGED config \/ EditKey
  BY <1>1, NextCases
  DEF RemoveClaim, RemoveJob, DatabaseMade, Initialize, AppDeployed, TagJob,
      IssueCertificate, InterfaceReplaced, Land, vars
<1> QED
  BY <1>2 DEF EditKey, config, TypeOK

LEMMA ProvidedTyped ==
    ASSUME TypeOK, NEW c
    PROVE  Provided(c) \in Values /\ Fresh \in Values
  BY ValueFacts, FreshIsGenerated DEF Provided, TypeOK

RunTyped ==
    /\ claim \in Runs \cup {NoRun} /\ ok \in BOOLEAN
    /\ pc \in [Runs -> Steps] /\ todo \in [Runs -> Seq(Creds)] /\ next \in [Runs -> Steps]
    /\ word \in [Runs -> Words]
    /\ known \in [Runs -> [Creds -> Values]] /\ previous \in [Runs -> BOOLEAN]

LEMMA SettledTyped ==
    ASSUME TypeOK, RunTyped, Errands, NEW r \in Runs, Advances(r), Read(r) \/ ReadBack(r)
    PROVE  RunTyped'
<1>1. pc[r] \in Storing
  BY Settles
<1>2. Head(todo[r]) \in Creds /\ Tail(todo[r]) \in Seq(Creds)
  BY <1>1, Lists DEF Errands, Errand, Creds
<1>3. store[Head(todo[r])] \in Values
  BY <1>2 DEF TypeOK
<1>4. /\ UNCHANGED <<claim, ok, next, word, previous>>
      /\ \/ pc' = [pc EXCEPT ![r] = "create"] /\ UNCHANGED <<todo, known>>
         \/ /\ known' = [known EXCEPT ![r][Head(todo[r])] = store[Head(todo[r])]]
            /\ todo' = [todo EXCEPT ![r] = Tail(todo[r])]
            /\ pc' = [pc EXCEPT ![r] = IF Tail(todo[r]) = << >> THEN next[r] ELSE "read"]
  BY DEF Read, ReadBack, Advances, Checked, Settled, Goto
<1>5. pc' \in [Runs -> Steps]
  BY <1>4 DEF RunTyped, Steps
<1>6. todo' \in [Runs -> Seq(Creds)]
  BY <1>2, <1>4 DEF RunTyped
<1>7. known' \in [Runs -> [Creds -> Values]]
  <2> DEFINE c == Head(todo[r])
             table == [known[r] EXCEPT ![c] = store[c]]
  <2>1. known \in [Runs -> [Creds -> Values]] /\ known[r] \in [Creds -> Values]
    BY DEF RunTyped
  <2>2. table \in [Creds -> Values]
    BY <1>3, <2>1
  <2>3. known' = known \/ known' = [known EXCEPT ![r] = table]
    BY <1>4, Zenon
  <2> HIDE DEF table
  <2> QED
    BY <2>1, <2>2, <2>3
<1> QED
  BY <1>4, <1>5, <1>6, <1>7 DEF RunTyped

LEMMA ForgetTyped ==
    ASSUME RunTyped, NEW r \in Runs, Forget(r)
    PROVE  /\ pc' \in [Runs -> Steps] /\ todo' \in [Runs -> Seq(Creds)] /\ next' \in [Runs -> Steps]
           /\ word' \in [Runs -> Words]
           /\ known' \in [Runs -> [Creds -> Values]] /\ previous' \in [Runs -> BOOLEAN]
<1>1. [value |-> None, stored |-> FALSE] \in Words /\ [c \in Creds |-> None] \in [Creds -> Values]
  BY ValueFacts DEF Words
<1>2. << >> \in Seq(Creds) /\ Idle \in Steps
  BY DEF Steps
<1> QED
  BY <1>1, <1>2 DEF Forget, RunTyped

LEMMA RunStep ==
    ASSUME [Next]_vars, TypeOK, Errands
    PROVE  RunTyped'
<1>0. RunTyped
  BY DEF TypeOK, RunTyped, Words
<1>1. ASSUME NEW r \in Runs, Advances(r)
      PROVE  RunTyped'
  <2> USE <1>0, <1>1, StepFrame DEF Advances, Checked
  <2> DEFINE goes == /\ \E step \in Steps : pc' = [pc EXCEPT ![r] = step]
                     /\ UNCHANGED <<claim, ok, todo, next, word, known, previous>>
             settles == /\ pc' = [pc EXCEPT ![r] = "read"]
                        /\ \E list \in {KeyOnly, AdminOnly, AllThree} : todo' = [todo EXCEPT ![r] = list]
                        /\ \E step \in Steps : next' = [next EXCEPT ![r] = step]
                        /\ UNCHANGED <<claim, ok, word, known, previous>>
             ends == Forget(r) /\ claim' \in {claim, NoRun} /\ ok' \in BOOLEAN
  <2>1. CASE goes
    BY <2>1 DEF RunTyped
  <2>2. CASE settles
    <3>1. "read" \in Steps /\ {KeyOnly, AdminOnly, AllThree} \subseteq Seq(Creds)
      BY Lists DEF Steps
    <3> QED
      BY <2>2, <3>1 DEF RunTyped
  <2>3. CASE ends
    <3>1. claim' \in Runs \cup {NoRun} /\ ok' \in BOOLEAN
      BY <2>3 DEF RunTyped
    <3> QED
      BY <2>3, <3>1, ForgetTyped DEF RunTyped
  <2>4. CASE Seed(r) \/ Read(r) \/ Create(r) \/ ReadBack(r) \/ CurrentCertificate(r)
    <3>1. CASE Read(r) \/ ReadBack(r)
      BY <3>1, SettledTyped
    <3>2. CASE Create(r)
      <4>1. \E v \in Values : word' = [word EXCEPT ![r] = [value |-> v, stored |-> FALSE]]
        BY <3>2, ProvidedTyped DEF Create
      <4>2. pc' = [pc EXCEPT ![r] = "sent"] /\ UNCHANGED <<claim, ok, todo, next, known, previous>>
        BY <3>2 DEF Create
      <4>3. "sent" \in Steps /\ \A v \in Values : [value |-> v, stored |-> FALSE] \in Words
        BY DEF Steps, Words
      <4> QED
        BY <4>1, <4>2, <4>3 DEF RunTyped
    <3>3. CASE Seed(r)
      BY <3>3, <2>1, <2>2 DEF Seed, Goto, Settle, Steps, KeyOnly
    <3>4. CASE CurrentCertificate(r)
      <4>1. /\ \E b \in BOOLEAN : previous' = [previous EXCEPT ![r] = b]
            /\ pc' = [pc EXCEPT ![r] = "look"]
            /\ UNCHANGED <<claim, ok, todo, next, word, known>>
        BY <3>4 DEF CurrentCertificate, Azure
      <4> QED
        BY <4>1 DEF RunTyped, Steps
    <3> QED
      BY <2>4, <3>1, <3>2, <3>3, <3>4
  <2>5. CASE LookForDatabase(r) \/ Observe(r) \/ CreateInitSecret(r) \/ DeployDatabase(r)
    <3>1. goes \/ settles
      BY <2>5 DEF LookForDatabase, Observe, CreateInitSecret, DeployDatabase, Goto, Settle, Steps,
         AllThree
    <3> QED
      BY <2>1, <2>2, <3>1
  <2>6. CASE AwaitDatabase(r) \/ CreateInitJob(r) \/ AwaitInitJob(r) \/ CleanInitialization(r)
    <3>1. goes \/ settles \/ ends
      BY <2>6 DEF AwaitDatabase, CreateInitJob, AwaitInitJob, CleanInitialization, Goto, Settle,
         Steps,
         AdminOnly, Released, RunTyped
    <3> QED
      BY <2>1, <2>2, <2>3, <3>1
  <2>7. CASE Runtime(r) \/ WriteApiSecret(r) \/ WriteWorkerSecret(r)
    <3>1. goes \/ settles
      BY <2>7 DEF Runtime, WriteApiSecret, WriteWorkerSecret, Goto, Settle, Steps, KeyOnly
    <3> QED
      BY <2>1, <2>2, <3>1
  <2>8. CASE DeployApp(r) \/ AwaitApp(r) \/ TagRedisNic(r) \/ AwaitTags(r)
    <3>1. goes
      BY <2>8 DEF DeployApp, AwaitApp, TagRedisNic, AwaitTags, SendApp, Goto, Steps
    <3> QED
      BY <2>1, <3>1
  <2>9. CASE Certificate(r) \/ AwaitCertificate(r) \/ DeployHttps(r) \/ AwaitHttps(r) \/ Verify(r)
    <3>1. goes \/ ends
      BY <2>9 DEF Certificate, AwaitCertificate, DeployHttps, AwaitHttps, Verify, SendApp, Goto,
         Steps,
         Released
    <3> QED
      BY <2>1, <2>3, <3>1
  <2> QED
    BY <2>4, <2>5, <2>6, <2>7, <2>8, <2>9 DEF Step
<1>2. ASSUME NEW r \in Runs, Ends(r)
      PROVE  RunTyped'
  <2>1. claim' \in Runs \cup {NoRun} /\ ok' \in BOOLEAN
    BY <1>0, <1>2 DEF Ends, RunTyped
  <2> QED
    BY <1>0, <1>2, <2>1, ForgetTyped DEF Ends, RunTyped
<1>3. ASSUME NEW r \in Runs, Begin(r)
      PROVE  RunTyped'
  BY <1>0, <1>3 DEF Begin, RunTyped, Steps
<1>4. CASE RemoveClaim \/ RemoveJob
  BY <1>0, <1>4 DEF RemoveClaim, RemoveJob, RunTyped
<1>5. CASE EditKey \/ DatabaseMade \/ Initialize \/ AppDeployed \/ TagJob \/ IssueCertificate
           \/ InterfaceReplaced \/ UNCHANGED vars
  <2>1. UNCHANGED run
    BY <1>5 DEF EditKey, DatabaseMade, Initialize, AppDeployed, TagJob, IssueCertificate,
       InterfaceReplaced, vars
  <2> QED
    BY <1>0, <2>1 DEF run, RunTyped
<1>6. ASSUME NEW f \in flying, Land(f)
      PROVE  RunTyped'
  <2>1. f.run \in Runs /\ f.cred \in Creds
    BY <1>6 DEF TypeOK
  <2>2. /\ UNCHANGED <<claim, ok, todo, next, known, previous>>
        /\ \/ UNCHANGED <<pc, word>>
           \/ /\ pc' = [pc EXCEPT ![f.run] = "readBack"]
              /\ word' = [word EXCEPT ![f.run].stored = Azure \/ store[f.cred] = None]
    BY <1>6, Zenon DEF Land
  <2>3. (Azure \/ store[f.cred] = None) \in BOOLEAN /\ "readBack" \in Steps
    BY DEF Azure, Steps
  <2>4. pc' \in [Runs -> Steps]
    BY <1>0, <2>1, <2>2, <2>3 DEF RunTyped
  <2>5. word' \in [Runs -> Words]
    <3>1. word \in [Runs -> Words]
      BY <1>0 DEF RunTyped
    <3>2. \A b \in BOOLEAN : [word EXCEPT ![f.run].stored = b] \in [Runs -> Words]
      BY <2>1, <3>1, WordUpdates, Zenon
    <3>3. word' = word \/ word' = [word EXCEPT ![f.run].stored = Azure \/ store[f.cred] = None]
      BY <2>2
    <3> QED
      BY <2>3, <3>1, <3>2, <3>3, Zenon
  <2> QED
    BY <1>0, <2>2, <2>4, <2>5 DEF RunTyped
<1> QED
  BY <1>1, <1>2, <1>3, <1>4, <1>5, <1>6, NextCases

LEMMA VaultTyped ==
    ASSUME [Next]_vars, TypeOK, Errands
    PROVE  /\ store' \in [Creds -> Values]
           /\ flying' \subseteq [run : Runs, cred : Creds, value : Values]
           /\ late' \in {"none", "stray", "overtaken"}
<1>1. ASSUME NEW r \in Runs, Create(r), Advances(r)
      PROVE  /\ UNCHANGED <<store, late>>
             /\ flying' \subseteq [run : Runs, cred : Creds, value : Values]
  <2>1. \E v \in Values :
          /\ flying' = flying \cup {[run |-> r, cred |-> Head(todo[r]), value |-> v]}
          /\ UNCHANGED <<store, late>>
    BY <1>1, ProvidedTyped DEF Create, Checked, Advances
  <2>2. pc[r] \in Storing
    BY <1>1 DEF Create, Storing
  <2>3. Head(todo[r]) \in Creds
    BY <2>2, Lists DEF Errands, Errand, Creds
  <2> QED
    BY <2>1, <2>3 DEF TypeOK
<1>2. ASSUME NEW f \in flying, Land(f)
      PROVE  /\ store' \in [Creds -> Values] /\ flying' \subseteq flying
             /\ late' \in {"none", "stray", "overtaken"}
  <2>1. f.cred \in Creds /\ Stored(f.cred, f.value) \in Values
    BY DEF TypeOK, Stored
  <2>2. /\ store' = [store EXCEPT ![f.cred] = Stored(f.cred, f.value)] /\ flying' = flying \ {f}
        /\ late' \in {late, "overtaken", "stray"}
    BY <1>2 DEF Land
  <2> QED
    BY <2>1, <2>2 DEF TypeOK
<1> QED
  BY <1>1, <1>2, VaultFrame DEF vault, TypeOK

LEMMA DataTyped ==
    ASSUME [Next]_vars, TypeOK
    PROVE  /\ database' \in {"none", "working", "ready", "broken"} /\ setup' \in BOOLEAN
           /\ {initSecret', db'} \subseteq [{"api", "worker"} -> Values]
           /\ initJob' \in {"none", "running", "complete", "failed"}
<1> USE DEF data, TypeOK
<1>0. NoPasswords \in [{"api", "worker"} -> Values]
  BY ValueFacts DEF NoPasswords
<1>1. ASSUME NEW r \in Runs, Advances(r),
             CreateInitSecret(r) \/ DeployDatabase(r) \/ CreateInitJob(r) \/ CleanInitialization(r)
      PROVE  /\ database' \in {database, "working"} /\ setup' \in {setup, FALSE} /\ db' = db
             /\ initSecret' \in {initSecret, Passwords(r), NoPasswords}
             /\ initJob' \in {initJob, "running", "none"}
  <2> USE <1>1 DEF Advances, Checked
  <2>1. CASE CreateInitSecret(r) \/ DeployDatabase(r)
    BY <2>1 DEF CreateInitSecret, DeployDatabase
  <2>2. CASE CreateInitJob(r)
    BY <2>2 DEF CreateInitJob
  <2>3. CASE CleanInitialization(r)
    BY <2>3 DEF CleanInitialization
  <2> QED
    BY <1>1, <2>1, <2>2, <2>3
<1>2. ASSUME NEW r \in Runs
      PROVE  Passwords(r) \in [{"api", "worker"} -> Values]
  BY DEF Passwords, Creds
<1>3. CASE DatabaseMade
  BY <1>3 DEF DatabaseMade
<1>4. CASE Initialize
  <2>1. /\ db' \in {db, initSecret} /\ initJob' \in {"complete", "failed"}
        /\ UNCHANGED <<database, setup, initSecret>>
    BY <1>4 DEF Initialize
  <2> QED
    BY <2>1
<1>5. ASSUME NEW r \in Runs, Advances(r),
             CreateInitSecret(r) \/ DeployDatabase(r) \/ CreateInitJob(r) \/ CleanInitialization(r)
      PROVE  /\ database' \in {"none", "working", "ready", "broken"} /\ setup' \in BOOLEAN
             /\ {initSecret', db'} \subseteq [{"api", "worker"} -> Values]
             /\ initJob' \in {"none", "running", "complete", "failed"}
  <2>1. /\ database' \in {database, "working"} /\ setup' \in {setup, FALSE} /\ db' = db
        /\ initSecret' \in {initSecret, Passwords(r), NoPasswords}
        /\ initJob' \in {initJob, "running", "none"}
    BY <1>1, <1>5
  <2>2. {initSecret, db} \subseteq [{"api", "worker"} -> Values]
    OBVIOUS
  <2>3. initSecret' \in [{"api", "worker"} -> Values] /\ db' \in [{"api", "worker"} -> Values]
    BY <1>0, <1>2, <2>1, <2>2, Zenon
  <2>4. /\ database' \in {"none", "working", "ready", "broken"} /\ setup' \in BOOLEAN
        /\ initJob' \in {"none", "running", "complete", "failed"}
    BY <2>1
  <2> QED
    BY <2>3, <2>4
<1>6. CASE UNCHANGED data
  BY <1>6
<1> QED
  BY <1>3, <1>4, <1>5, <1>6, DataFrame

LEMMA SecretsTyped ==
    ASSUME [Next]_vars, TypeOK
    PROVE  {api', worker'} \subseteq [key : Values, password : Values]
<1> USE DEF TypeOK
<1>1. ASSUME NEW r \in Runs, Advances(r), WriteApiSecret(r)
      PROVE  api' \in [key : Values, password : Values] /\ worker' = worker
  BY <1>1, ValueFacts DEF WriteApiSecret, ApiSecret, Checked, Advances, Creds
<1>2. ASSUME NEW r \in Runs, Advances(r), WriteWorkerSecret(r)
      PROVE  worker' \in [key : Values, password : Values] /\ api' = api
  BY <1>2, ValueFacts DEF WriteWorkerSecret, Checked, Advances, Creds
<1> QED
  BY <1>1, <1>2, SecretsFrame DEF secrets

LEMMA GatewayTyped ==
    ASSUME [Next]_vars, TypeOK
    PROVE  /\ app' \in Apps
           /\ certJob' \in {"none", "running", "complete", "failed"} /\ cert' \in BOOLEAN
<1>0. /\ app \in Apps /\ app.goal \in Phases /\ app.phase \in Phases
      /\ certJob \in {"none", "running", "complete", "failed"} /\ cert \in BOOLEAN
  BY DEF TypeOK, Apps, Phases
<1>1. ASSUME NEW r \in Runs, Advances(r), DeployApp(r) \/ DeployHttps(r)
      PROVE  app' \in Apps /\ UNCHANGED <<certJob, cert>>
  <2>1. \A y \in Phases : [app EXCEPT !.state = "working", !.goal = y] \in Apps
    BY <1>0, AppUpdates
  <2>2. FirstPhase(r) \in Phases /\ "https" \in Phases
    BY DEF FirstPhase, Phases
  <2>3. /\ \/ app' = [app EXCEPT !.state = "working", !.goal = FirstPhase(r)]
           \/ app' = [app EXCEPT !.state = "working", !.goal = "https"]
        /\ certJob' = certJob /\ cert' = cert
    BY <1>1, Zenon DEF DeployApp, DeployHttps, SendApp, Checked, Advances
  <2> QED
    BY <2>1, <2>2, <2>3, Zenon
<1>2. ASSUME NEW r \in Runs, Advances(r), Certificate(r) \/ AwaitCertificate(r)
      PROVE  app' = app /\ certJob' \in {"running", "none"} /\ cert' = cert
  BY <1>2 DEF Certificate, AwaitCertificate, Checked, Advances
<1>3. CASE AppDeployed
  <2>1. /\ \A y \in Phases : /\ [app EXCEPT !.state = "ready", !.goal = y] \in Apps
                             /\ [app EXCEPT !.state = "ready", !.phase = y] \in Apps
        /\ [app EXCEPT !.state = "broken"] \in Apps
    BY <1>0, AppUpdates
  <2>2. \/ app' = [app EXCEPT !.state = "ready", !.phase = app.goal]
        \/ app' = [app EXCEPT !.state = "ready", !.goal = app.phase]
        \/ app' = [app EXCEPT !.state = "broken"]
    <3>1. \/ app' = [app EXCEPT !.state = "ready", !.phase = app.goal]
          \/ app' \in {[app EXCEPT !.state = "broken"]}
                      \cup (IF app.phase = "none" THEN {}
                            ELSE {[app EXCEPT !.state = "ready", !.goal = app.phase]})
      BY <1>3, Zenon DEF AppDeployed
    <3> QED
      BY <3>1, Zenon
  <2>3. app' \in Apps
    BY <1>0, <2>1, <2>2, Zenon
  <2>4. UNCHANGED <<certJob, cert>>
    BY <1>3 DEF AppDeployed
  <2> QED
    BY <1>0, <2>3, <2>4
<1>4. CASE IssueCertificate
  BY <1>0, <1>4 DEF IssueCertificate
<1> QED
  BY <1>0, <1>1, <1>2, <1>3, <1>4, GatewayFrame DEF gateway

LEMMA InterfaceTyped ==
    ASSUME [Next]_vars, TypeOK
    PROVE  /\ nicJob' \in {"none", "first", "second", "patch", "verify", "complete", "failed"}
           /\ {nic', seen'} \subseteq Interfaces /\ tagged' \in Nat
<1>0. /\ nicJob \in {"none", "first", "second", "patch", "verify", "complete", "failed"}
      /\ {nic, seen} \subseteq Interfaces /\ tagged \in Nat
      /\ nic.serial \in Nat /\ nic.tags \in BOOLEAN
  BY DEF TypeOK, Interfaces
<1>1. ASSUME NEW r \in Runs, Advances(r), TagRedisNic(r) \/ AwaitTags(r)
      PROVE  nicJob' \in {"first", "none"} /\ UNCHANGED <<nic, seen, tagged>>
  BY <1>1 DEF Advances, TagRedisNic, AwaitTags, Checked
<1>2. CASE AppDeployed
  <2>1. UNCHANGED <<nicJob, seen, tagged>>
    BY <1>2 DEF AppDeployed
  <2>2. \/ nic' = nic
        \/ \E t \in {nic.tags, FALSE} :
             nic' = [nic EXCEPT !.serial = IF nic.serial = 0 THEN 1 ELSE nic.serial, !.tags = t]
    BY <1>2, Zenon DEF AppDeployed
  <2>3. (IF nic.serial = 0 THEN 1 ELSE nic.serial) \in Nat
    BY <1>0
  <2>4. \A t \in BOOLEAN, x \in Nat : [nic EXCEPT !.serial = x, !.tags = t] \in Interfaces
    BY <1>0, InterfaceUpdates
  <2>5. nic \in Interfaces /\ {nic.tags, FALSE} \subseteq BOOLEAN
    BY <1>0
  <2> DEFINE x == IF nic.serial = 0 THEN 1 ELSE nic.serial
  <2>7. nic' = nic \/ \E t \in BOOLEAN : nic' = [nic EXCEPT !.serial = x, !.tags = t]
    BY <2>2, <2>5, Zenon
  <2> HIDE DEF x
  <2>8. \A t \in BOOLEAN : [nic EXCEPT !.serial = x, !.tags = t] \in Interfaces
    BY <2>3, <2>4, Zenon DEF x
  <2>6. nic' \in Interfaces
    BY <2>5, <2>7, <2>8, Zenon
  <2> QED
    BY <1>0, <2>1, <2>6
<1>3. CASE TagJob
  BY <1>0, <1>3 DEF TagJob, ReadInterface, PatchInterface, VerifyInterface, TagJobFails, Interfaces
<1>4. CASE InterfaceReplaced
  <2>1. nic' \in Interfaces
    BY <1>0, <1>4 DEF InterfaceReplaced, Interfaces
  <2> QED
    BY <1>0, <1>4, <2>1 DEF InterfaceReplaced
<1> QED
  BY <1>0, <1>1, <1>2, <1>3, <1>4, InterfaceFrame DEF interface

Bounds == {"failures", "removals", "edits", "replaced", "reruns"}

LEMMA UsedTyped ==
    ASSUME [Next]_vars, TypeOK
    PROVE  used' \in [Bounds -> Nat]
<1>1. used' = used \/ \E b \in Bounds : used' = [used EXCEPT ![b] = @ + 1]
  <2> USE DEF Spend, Bounds
  <2>1. ASSUME NEW r \in Runs, Ends(r) \/ Advances(r) \/ Begin(r)
        PROVE  used' = used \/ \E b \in Bounds : used' = [used EXCEPT ![b] = @ + 1]
    BY <2>1, StepFrame DEF Ends, Advances, Begin
  <2>2. ASSUME NEW f \in flying, Land(f)
        PROVE  used' = used
    BY <2>2 DEF Land
  <2>3. CASE RemoveClaim \/ RemoveJob \/ EditKey \/ UNCHANGED vars
    BY <2>3 DEF RemoveClaim, RemoveJob, EditKey, vars
  <2>4. CASE DatabaseMade \/ Initialize \/ IssueCertificate \/ InterfaceReplaced
    BY <2>4 DEF DatabaseMade, Initialize, IssueCertificate, InterfaceReplaced
  <2>5. CASE AppDeployed
    BY <2>5, Zenon DEF AppDeployed
  <2>6. CASE TagJob
    BY <2>6 DEF TagJob, TagJobFails
  <2> QED
    BY <2>1, <2>2, <2>3, <2>4, <2>5, <2>6, NextCases
<1>2. used \in [Bounds -> Nat]
  BY DEF TypeOK, Bounds
<1>3. \A b \in Bounds : [used EXCEPT ![b] = @ + 1] \in [Bounds -> Nat]
  BY <1>2
<1> QED
  BY <1>1, <1>2, <1>3

LEMMA TypeStep ==
    ASSUME [Next]_vars, TypeOK, Errands
    PROVE  TypeOK'
  BY ConfigTyped, RunStep, VaultTyped, DataTyped, SecretsTyped, GatewayTyped, InterfaceTyped,
     UsedTyped
  DEF TypeOK, RunTyped, Words, Apps, Interfaces, Bounds

-----------------------------------------------------------------------------
(* The invariant *)

LEMMA InitHolds == Init => IInv
<1> SUFFICES ASSUME Init
             PROVE  IInv
  OBVIOUS
<1> USE ValueFacts DEF Init
<1>1. TypeOK
  <2>1. RunTyped
    <3>1. [value |-> None, stored |-> FALSE] \in Words /\ [c \in Creds |-> None] \in [Creds -> Values]
      BY DEF Words
    <3>2. << >> \in Seq(Creds) /\ Idle \in Steps
      BY DEF Steps
    <3> QED
      BY <3>1, <3>2 DEF RunTyped
  <2>2. app \in Apps /\ certJob = "none" /\ cert = FALSE
    BY DEF Apps
  <2>3. {nic, seen} \subseteq Interfaces /\ tagged \in Nat /\ nicJob = "none"
    BY DEF Interfaces, NoInterface
  <2>4. {initSecret, db} \subseteq [{"api", "worker"} -> Values]
    BY DEF NoPasswords
  <2>5. {api, worker} \subseteq [key : Values, password : Values]
    BY DEF NoSecret
  <2>6. used \in [Bounds -> Nat]
    BY DEF Bounds
  <2>7. /\ store \in [Creds -> Values] /\ late = "none"
        /\ flying \subseteq [run : Runs, cred : Creds, value : Values]
    OBVIOUS
  <2>8. /\ place \in {"azure", "local"} /\ role \in {"management", "control", "data"}
        /\ prepared \in BOOLEAN /\ given \in Given \cup {None}
        /\ database = "none" /\ setup = FALSE /\ initJob = "none"
    OBVIOUS
  <2> QED
    BY <2>1, <2>2, <2>3, <2>4, <2>5, <2>6, <2>7, <2>8
    DEF TypeOK, RunTyped, Words, Apps, Interfaces, Bounds
<1>2. \A r \in Runs : pc[r] = Idle /\ \A c \in Creds : known[r][c] = None
  OBVIOUS
<1>3. Errands /\ Sent
  BY <1>2 DEF Errands, Errand, Storing, Idle, Sent, InTime, Alone
<1>4. ASSUME NEW r \in Runs
      PROVE  Keeps(r) /\ Knows(r) /\ Reached(r) /\ Cleaned(r) /\ Tagging(r)
  <2>1. ~At(r, WithDatabase) /\ ~At(r, AfterCleanup)
    BY <1>2 DEF At, WithDatabase, AfterCleanup, AfterApi, AfterWorker, AfterHttps, Storing, Idle
  <2>2. Keeps(r) /\ Knows(r) /\ Tagging(r)
    BY <1>2 DEF Keeps, Knows, At, Storing, Idle, Tagging
  <2>3. Reached(r) /\ Cleaned(r)
    BY <1>2, <2>1 DEF Reached, Cleaned, At, WithDatabase, AfterCleanup, AfterApi, AfterWorker,
       AfterHttps, Storing, Idle
  <2> QED
    BY <2>2, <2>3
<1>5. Initialized /\ Running /\ NoDatabase /\ Certified /\ Resting /\ DeployedIsComplete
  BY DEF Initialized, Running, NoDatabase, Certified, Resting, DeployedIsComplete
<1>6. tagged <= nic.serial
  BY DEF NoInterface
<1> QED
  BY <1>1, <1>3, <1>4, <1>5, <1>6 DEF IInv, RunsAreRight

LEMMA StepHolds == IInv /\ [Next]_vars => IInv'
<1> SUFFICES ASSUME IInv, [Next]_vars
             PROVE  IInv'
  OBVIOUS
<1> USE DEF IInv
<1>1. TypeOK'
  BY TypeStep
<1>2. Errands'
  BY ErrandsStep DEF Errands
<1>3. Sent'
  BY ValuesSent, AloneStep, InTimeStep DEF Sent
<1>4. RunsAreRight'
  BY KeepsStep, KnowsStep, ReachedStep, CleanedStep, TaggingStep DEF RunsAreRight
<1>5. Initialized' /\ Running' /\ NoDatabase' /\ Certified'
  BY InitializedStep, RunningStep, NoDatabaseStep, CertifiedStep
<1>6. (tagged <= nic.serial)' /\ Resting' /\ DeployedIsComplete'
  BY SerialStep, RestingStep, DeployedStep
<1> QED
  BY <1>1, <1>2, <1>3, <1>4, <1>5, <1>6

\* What is copied from the credential store is still there, a run relies only on what
\* stays, and what it cleaned up or tagged is as it left it, in every reachable state of
\* deploy_plane's runs.
THEOREM InductiveInvariant == Spec => []IInv
<1>1. Init => IInv
  BY InitHolds
<1>2. IInv /\ [Next]_vars => IInv'
  BY StepHolds
<1> QED
  BY <1>1, <1>2, PTL DEF Spec

\* Every variable of a deployment keeps its type.
THEOREM TypeCorrect == Spec => []TypeOK
<1>1. IInv => TypeOK
  BY DEF IInv
<1> QED
  BY <1>1, InductiveInvariant, PTL

\* An initialized database accepts the passwords that the credential store has, whatever
\* runs overlapped, died or were repeated, unless a write to the Key Vault took effect
\* after its sender gave up or lost its claim and replaced a value (get_or_create).
THEOREM PasswordsStayGood == Spec => []PasswordsAgree
<1>1. IInv => PasswordsAgree
  <2> SUFFICES ASSUME IInv, db # NoPasswords, late # "overtaken", NEW c \in DOMAIN db
               PROVE  store[c] = db[c]
    BY DEF PasswordsAgree
  <2>1. c \in Roles
    BY DEF IInv, TypeOK, Roles
  <2> QED
    BY <2>1 DEF IInv, Initialized, Same
<1> QED
  BY <1>1, InductiveInvariant, PTL

\* The runtime Secrets of a plane hold passwords its database accepts and the key that is
\* stored (ensure_runtime_secrets).
THEOREM RuntimeSecretsWork == Spec => []RuntimeWorks
<1>1. IInv => RuntimeWorks
  BY DEF IInv, Running, Initialized, Same, RuntimeWorks, Roles
<1> QED
  BY <1>1, InductiveInvariant, PTL

\* A run that ends well leaves its plane complete: initialized, cleaned up, on https with
\* a certificate, the tags on the interface that its last Job ended on (deploy_plane).
THEOREM DeployedMeansComplete == Spec => []DeployedIsComplete
<1>1. IInv => DeployedIsComplete
  BY DEF IInv
<1> QED
  BY <1>1, InductiveInvariant, PTL

\* The key that clients of a plane were given never changes, whatever key the operator
\* configures for a later run.
THEOREM KeyNeverChanges == Spec => KeyStays
<1>1. IInv /\ [Next]_vars =>
        [api.key # None /\ late' # "overtaken" => api'.key = api.key]_vars
  <2> SUFFICES ASSUME IInv, [Next]_vars, api.key # None, late' # "overtaken"
               PROVE  api'.key = api.key
    OBVIOUS
  <2>1. Same("demoKey", api.key)
    BY DEF IInv, Running, NoSecret
  <2>2. late # "overtaken"
    BY StoreKeeps DEF IInv, Creds
  <2>3. ASSUME NEW r \in Runs, Advances(r), WriteApiSecret(r)
        PROVE  api'.key = store["demoKey"]
    BY <2>3 DEF WriteApiSecret, ApiSecret, Checked, Advances
  <2>4. ASSUME NEW r \in Runs, Advances(r), WriteWorkerSecret(r)
        PROVE  api' = api
    BY <2>4 DEF WriteWorkerSecret, Checked, Advances
  <2> QED
    BY <2>1, <2>2, <2>3, <2>4, SecretsFrame DEF Same, secrets
<1> QED
  BY <1>1, InductiveInvariant, PTL DEF Spec, KeyStays

=============================================================================
