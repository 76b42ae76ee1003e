--------------------------- MODULE PlaneDeployment ---------------------------
(***************************************************************************)
(* The deployment of one plane and the runs that repeat it:                *)
(* AzureProvider.deploy_plane and LocalProvider.deploy_plane with the      *)
(* credential store, the one-time initialization of the plane's database,  *)
(* its runtime Secrets, its gateway and certificate, and the tags of its   *)
(* Redis network interface.                                                *)
(*                                                                         *)
(* A run holds a claim: the Lease of a local bootstrap, the Job of an      *)
(* Azure deployment.  It keeps nothing: a later run finds out from the     *)
(* live resources how far the earlier ones came.  Radius, the Jobs it      *)
(* started and the credential store go on when a run is gone.  An operator *)
(* may delete a Job whose pod is still at work, and start another.         *)
(***************************************************************************)
EXTENDS Naturals, Sequences

CONSTANTS
    Runs,          \* who may deploy: operator processes or the pods of Jobs
    NoRun,
    Given,         \* demo keys the operator may provide
    Generated,     \* keys and passwords the store's clients may generate
    MaxFailures,   \* calls, Jobs and processes that fail
    MaxRemovals,   \* claims removed while their run was at work
    MaxEdits,      \* changes of the demo key the operator provides
    MaxReplaced,   \* replacements of the network interface
    MaxReruns      \* runs of a plane that was deployed already

ASSUME RunsAssumption == NoRun \notin Runs
ASSUME BoundsAssumption ==
    {MaxFailures, MaxRemovals, MaxEdits, MaxReplaced, MaxReruns} \subseteq Nat

VARIABLES
    place, role,   \* "azure" or "local"; the plane
    prepared,      \* management whose administrative Jobs prepare environments (Azure)
    given,         \* the demo key in the operator's configuration, or None
    claim,         \* the run that holds the Lease or owns the Job
    ok,            \* the last run ended well
    pc,            \* per run: its next step
    todo, next,    \* the credentials it has yet to settle, and the step after them
    word,          \* the value it tries to store, and whether it was stored
    known,         \* the values it read
    previous,      \* it found the gateway on https
    store,         \* the credential store
    flying,        \* writes sent to the store that have not taken effect
    late,          \* a write took effect after its sender gave up or lost its claim
                   \* ("stray"), and one replaced the value of another ("overtaken")
    database,      \* the Radius resource of the database
    setup,         \* the Secret with the setup password
    initSecret,    \* the Secret database-init: passwords, or NoPasswords
    initJob,       \* the Job database-init
    db,            \* the roles' passwords in an initialized database
    api, worker,   \* the runtime Secrets of the API and of the reconciler
    app,           \* the Radius application and the phase of its gateway
    certJob, cert, \* the certificate Job; a certificate in the vault
    nicJob, seen,  \* the tag Job, and the interface it read
    nic, tagged,   \* the interface; the one a Job ended on
    used           \* how much of each bound is used

config == <<place, role, prepared, given>>
run == <<claim, ok, pc, todo, next, word, known, previous>>
vault == <<store, flying, late>>
data == <<database, setup, initSecret, initJob, db>>
secrets == <<api, worker>>
gateway == <<app, certJob, cert>>
interface == <<nicJob, seen, nic, tagged>>
world == <<vault, data, secrets, gateway, interface>>
vars == <<config, run, world, used>>

\* Secret values are numbers: the setup password of the database, the keys the operator
\* provides, and those the store's clients generate.
None == 0
Setup == 3
Values == {None, Setup} \cup Given \cup Generated

ASSUME ValuesAssumption ==
    {None, Setup} \cap (Given \cup Generated) = {} /\ Generated # {}

Creds == {"demoKey", "api", "worker", "admin"}
NoPasswords == [c \in {"api", "worker"} |-> None]
NoSecret == [key |-> None, password |-> None]
NoInterface == [serial |-> 0, tags |-> FALSE]
Idle == "idle"
Steps == {Idle, "start", "read", "create", "sent", "readBack", "previous", "look",
          "observe", "initSecret", "deployDatabase", "awaitDatabase", "initJob",
          "awaitJob", "cleanup", "runtime", "runtimeApi", "runtimeWorker",
          "deployApp", "awaitApp", "tag", "awaitTag", "certificate",
          "awaitCertificate", "deployHttps", "awaitHttps", "tagAgain",
          "awaitTagAgain", "verify"}

TypeOK ==
    /\ place \in {"azure", "local"} /\ role \in {"management", "control", "data"}
    /\ prepared \in BOOLEAN /\ given \in Given \cup {None}
    /\ claim \in Runs \cup {NoRun} /\ ok \in BOOLEAN
    /\ pc \in [Runs -> Steps] /\ todo \in [Runs -> Seq(Creds)] /\ next \in [Runs -> Steps]
    /\ word \in [Runs -> [value : Values, stored : BOOLEAN]]
    /\ known \in [Runs -> [Creds -> Values]] /\ previous \in [Runs -> BOOLEAN]
    /\ store \in [Creds -> Values]
    /\ flying \subseteq [run : Runs, cred : Creds, value : Values]
    /\ late \in {"none", "stray", "overtaken"}
    /\ database \in {"none", "working", "ready", "broken"} /\ setup \in BOOLEAN
    /\ {initSecret, db} \subseteq [{"api", "worker"} -> Values]
    /\ initJob \in {"none", "running", "complete", "failed"}
    /\ {api, worker} \subseteq [key : Values, password : Values]
    /\ app \in [phase : {"none", "http", "https"}, goal : {"none", "http", "https"},
                state : {"none", "working", "ready", "broken"}]
    /\ certJob \in {"none", "running", "complete", "failed"} /\ cert \in BOOLEAN
    /\ nicJob \in {"none", "first", "second", "patch", "verify", "complete", "failed"}
    /\ {nic, seen} \subseteq [serial : Nat, tags : BOOLEAN] /\ tagged \in Nat
    /\ used \in [{"failures", "removals", "edits", "replaced", "reruns"} -> Nat]

Init ==
    /\ \/ place = "local" /\ role = "management" /\ prepared = FALSE
       \/ place = "azure" /\ role \in {"management", "control", "data"}
          /\ prepared \in {FALSE, role = "management"}
    /\ given \in Given \cup {None}
    /\ claim = NoRun /\ ok = FALSE
    /\ pc = [r \in Runs |-> Idle] /\ todo = [r \in Runs |-> << >>]
    /\ next = [r \in Runs |-> Idle]
    /\ word = [r \in Runs |-> [value |-> None, stored |-> FALSE]]
    /\ known = [r \in Runs |-> [c \in Creds |-> None]]
    /\ previous = [r \in Runs |-> FALSE]
    /\ store = [c \in Creds |-> None] /\ flying = {} /\ late = "none"
    /\ database = "none" /\ setup = FALSE /\ initSecret = NoPasswords
    /\ initJob = "none" /\ db = NoPasswords
    /\ api = NoSecret /\ worker = NoSecret
    /\ app = [phase |-> "none", goal |-> "none", state |-> "none"]
    /\ certJob = "none" /\ cert = FALSE
    /\ nicJob = "none" /\ nic = NoInterface /\ seen = NoInterface /\ tagged = 0
    /\ used = [b \in {"failures", "removals", "edits", "replaced", "reruns"} |-> 0]

Spend(bound, max) == used[bound] < max /\ used' = [used EXCEPT ![bound] = @ + 1]

Azure == place = "azure"
Alive(r) == pc[r] # Idle

-----------------------------------------------------------------------------
(* Runs begin and end.                                                      *)

Forget(r) ==
    /\ pc' = [pc EXCEPT ![r] = Idle] /\ todo' = [todo EXCEPT ![r] = << >>]
    /\ next' = [next EXCEPT ![r] = Idle]
    /\ word' = [word EXCEPT ![r] = [value |-> None, stored |-> FALSE]]
    /\ known' = [known EXCEPT ![r] = [c \in Creds |-> None]]
    /\ previous' = [previous EXCEPT ![r] = FALSE]

\* A local run gives its Lease back; the Job of an Azure run stays, completed or failed.
Released(r) == IF claim = r /\ ~Azure THEN NoRun ELSE claim

\* A run that does not end well changes nothing about what the last one achieved.
Abandon(r) == Forget(r) /\ claim' = Released(r) /\ UNCHANGED <<ok, config, world>>

Begin(r) ==
    /\ claim = NoRun /\ ~Alive(r)
    /\ IF ok THEN Spend("reruns", MaxReruns) ELSE UNCHANGED used
    /\ claim' = r /\ ok' = FALSE /\ pc' = [pc EXCEPT ![r] = "start"]
    /\ UNCHANGED <<config, todo, next, word, known, previous, world>>

\* A call of the run fails or runs out of time, or the run is stopped.
Fail(r) ==
    /\ Alive(r) /\ Spend("failures", MaxFailures) /\ Abandon(r)

Die(r) ==
    /\ Alive(r) /\ ~Azure /\ Spend("failures", MaxFailures)
    /\ Forget(r) /\ UNCHANGED <<claim, ok, config, world>>

\* An operator removes what a run left, in order to deploy again.
RemoveClaim ==
    /\ claim # NoRun /\ ~Alive(claim) /\ claim' = NoRun
    /\ UNCHANGED <<ok, pc, todo, next, word, known, previous, config, world, used>>

\* The Job is deleted while its pod is at work: the pod goes on until it is stopped.
RemoveJob ==
    /\ Azure /\ claim # NoRun /\ Alive(claim) /\ Spend("removals", MaxRemovals)
    /\ claim' = NoRun
    /\ UNCHANGED <<ok, pc, todo, next, word, known, previous, config, world>>

StopPod(r) ==
    /\ Azure /\ Alive(r) /\ claim # r /\ Abandon(r) /\ UNCHANGED used

EditKey ==
    /\ Spend("edits", MaxEdits) /\ given' \in (Given \cup {None}) \ {given}
    /\ claim = NoRun /\ \A r \in Runs : ~Alive(r)   \* a run keeps what it was started with
    /\ UNCHANGED <<place, role, prepared, run, world>>

\* A step of a run that still holds its claim, and meets what the step requires;
\* otherwise the run is over.
Checked(r, requirement, step) ==
    \/ claim = r /\ requirement /\ step
    \/ ~(claim = r /\ requirement) /\ Abandon(r) /\ UNCHANGED used

Goto(r, step) ==
    /\ pc' = [pc EXCEPT ![r] = step]
    /\ UNCHANGED <<claim, ok, todo, next, word, known, previous>>

Settle(r, creds, step) ==
    /\ pc' = [pc EXCEPT ![r] = "read"]
    /\ todo' = [todo EXCEPT ![r] = creds] /\ next' = [next EXCEPT ![r] = step]
    /\ UNCHANGED <<claim, ok, word, known, previous, world>>

-----------------------------------------------------------------------------
(* The credential store: get_or_create.                                     *)

\* The value that must be stored, if one is provided.
Provided(c) == CASE c = "demoKey" -> given
                 [] c = "admin" -> Setup
                 [] OTHER -> None

InUse == {store[c] : c \in Creds} \cup {f.value : f \in flying}
         \cup {db[c] : c \in DOMAIN db} \cup {initSecret[c] : c \in DOMAIN initSecret}
         \cup {api.key} \cup {known[r][c] : r \in Runs, c \in Creds}
         \cup {word[r].value : r \in Runs}
\* A value that nobody has; one of the others only when there is none.
Fresh == LET unused == Generated \ InUse
         IN CHOOSE v \in (IF unused = {} THEN Generated ELSE unused) : TRUE

\* The credential is settled with value v.
Settled(r, v) ==
    LET rest == Tail(todo[r]) IN
    /\ known' = [known EXCEPT ![r][Head(todo[r])] = v]
    /\ todo' = [todo EXCEPT ![r] = rest]
    /\ pc' = [pc EXCEPT ![r] = IF rest = << >> THEN next[r] ELSE "read"]
    /\ UNCHANGED <<claim, ok, next, word, previous, config, world, used>>

Matches(stored, expected) == stored # None /\ expected \in {None, stored}

\* Whether the data plane was deployed before: then its key must be there.
MustExist == role = "data" /\ (api # NoSecret \/ app.phase # "none")

\* a slip: a provided value replaces the one that is stored
ReadOrReplace(r) ==
    LET c == Head(todo[r]) IN
    /\ pc[r] = "read"
    /\ Checked(r, TRUE,
         IF store[c] = None \/ Provided(c) \notin {None, store[c]}
         THEN Goto(r, "create") /\ UNCHANGED <<config, world, used>>
         ELSE Settled(r, store[c]))

Read(r) ==
    LET c == Head(todo[r]) IN
    /\ pc[r] = "read"
    /\ Checked(r, IF store[c] = None
                  THEN ~(next[r] = "runtimeApi" /\ MustExist)
                  ELSE Matches(store[c], Provided(c)),
         IF store[c] = None
         THEN Goto(r, "create") /\ UNCHANGED <<config, world, used>>
         ELSE Settled(r, store[c]))

\* a slip: the guard looks only at the run's own Job
MayWriteUnseen(r) == TRUE

\* No other pod that may write is there.  A local run does not see another one: the
\* store itself refuses to replace a value.
MayWrite(r) == Azure => \A q \in Runs \ {r} : ~Alive(q)

Create(r) ==
    LET c == Head(todo[r])
        v == IF Provided(c) # None THEN Provided(c) ELSE Fresh IN
    /\ pc[r] = "create"
    /\ Checked(r, MayWrite(r),
         /\ flying' = flying \cup {[run |-> r, cred |-> c, value |-> v]}
         /\ word' = [word EXCEPT ![r] = [value |-> v, stored |-> FALSE]]
         /\ pc' = [pc EXCEPT ![r] = "sent"]
         /\ UNCHANGED <<claim, ok, todo, next, known, previous, config, store, late,
                        data, secrets, gateway, interface, used>>)

\* Kubernetes refuses to create what exists; the Key Vault adds a version.
Stored(c, v) == IF Azure \/ store[c] = None THEN v ELSE store[c]

\* A write takes effect; its sender may have given up, be gone, or have lost its claim.
Land(f) ==
    LET awaited == pc[f.run] = "sent" /\ Head(todo[f.run]) = f.cred
                   /\ word[f.run].value = f.value
        inTime == awaited /\ claim = f.run IN
    /\ f \in flying /\ flying' = flying \ {f}
    /\ store' = [store EXCEPT ![f.cred] = Stored(f.cred, f.value)]
    /\ late' = IF ~Azure THEN late
               ELSE IF store[f.cred] \notin {None, f.value} /\ ~(awaited /\ late = "none")
                    THEN "overtaken"
               ELSE IF ~inTime /\ late = "none" THEN "stray" ELSE late
    /\ IF awaited
       THEN /\ pc' = [pc EXCEPT ![f.run] = "readBack"]
            /\ word' = [word EXCEPT ![f.run].stored = Azure \/ store[f.cred] = None]
       ELSE UNCHANGED <<pc, word>>
    /\ UNCHANGED <<claim, ok, todo, next, known, previous, config, data, secrets, gateway,
                   interface, used>>

\* What was written must be read back; another writer's value is as good unless one
\* was provided.
ReadBack(r) ==
    LET c == Head(todo[r]) IN
    /\ pc[r] = "readBack"
    /\ Checked(r, Matches(store[c], IF word[r].stored THEN word[r].value ELSE Provided(c)),
         Settled(r, store[c]))

-----------------------------------------------------------------------------
(* The start of a run, and the database.                                    *)

Seed(r) ==
    /\ pc[r] = "start"
    /\ Checked(r, TRUE,
         /\ IF given = None THEN Goto(r, "previous") /\ UNCHANGED world
            ELSE Settle(r, <<"demoKey">>, "previous")
         /\ UNCHANGED <<config, used>>)

\* A gateway that has a certificate keeps it through the deployment.
CurrentCertificate(r) ==
    /\ pc[r] = "previous"
    /\ Checked(r, Azure => app.state \in {"none", "ready"},
         /\ previous' = [previous EXCEPT ![r] = Azure /\ app.phase = "https"]
         /\ pc' = [pc EXCEPT ![r] = "look"]
         /\ UNCHANGED <<claim, ok, todo, next, word, known, config, world, used>>)

\* What an interrupted initialization may leave.
Leftovers == initSecret # NoPasswords \/ initJob # "none" \/ setup
             \/ api # NoSecret \/ worker # NoSecret

\* A database that is there is only observed, one that is not is made, and what lies
\* between needs an operator.
LookForDatabase(r) ==
    /\ pc[r] = "look"
    /\ Checked(r, role # "data" => \/ database = "ready"
                                   \/ database = "none" /\ ~Leftovers,
         /\ CASE role = "data" -> Goto(r, "runtime") /\ UNCHANGED world
              [] role # "data" /\ database = "ready" ->
                   Goto(r, "observe") /\ UNCHANGED world
              [] OTHER -> Settle(r, <<"demoKey", "api", "worker">>, "initSecret")
         /\ UNCHANGED <<config, used>>)

\* The role whose login shows that a database is the plane's own.
Probe == IF role = "management" THEN "worker" ELSE "api"

\* a slip: what is initialized is not cleaned up again
ObserveOnly(r) ==
    /\ pc[r] = "observe"
    /\ Checked(r, db # NoPasswords /\ store[Probe] = db[Probe],
         Goto(r, "runtime") /\ UNCHANGED <<config, world, used>>)

\* The Job in observe mode: it logs in with the stored password and compares the marker.
Observe(r) ==
    /\ pc[r] = "observe"
    /\ Checked(r, db # NoPasswords /\ store[Probe] = db[Probe],
         Goto(r, "cleanup") /\ UNCHANGED <<config, world, used>>)

Passwords(r) == [c \in {"api", "worker"} |-> known[r][c]]

CreateInitSecret(r) ==
    /\ pc[r] = "initSecret"
    /\ Checked(r, initSecret = NoPasswords,
         /\ initSecret' = Passwords(r) /\ Goto(r, "deployDatabase")
         /\ UNCHANGED <<config, vault, database, setup, initJob, db, secrets, gateway,
                        interface, used>>)

DeployDatabase(r) ==
    /\ pc[r] = "deployDatabase"
    /\ Checked(r, database = "none",
         /\ database' = "working" /\ Goto(r, "awaitDatabase")
         /\ UNCHANGED <<config, vault, setup, initSecret, initJob, db, secrets, gateway,
                        interface, used>>)

\* Radius runs the recipe, which makes the database and the Secret for its setup.
DatabaseMade ==
    /\ database = "working"
    /\ \/ database' = "ready" /\ setup' = TRUE /\ UNCHANGED used
       \/ database' = "broken" /\ setup' \in BOOLEAN /\ Spend("failures", MaxFailures)
    /\ UNCHANGED <<config, run, vault, initSecret, initJob, db, secrets, gateway, interface>>

\* The setup password is kept, before anything is initialized, where administrative
\* Jobs need it later.
AwaitDatabase(r) ==
    /\ pc[r] = "awaitDatabase" /\ database # "working"
    /\ Checked(r, database = "ready" /\ setup,
         /\ IF prepared THEN Settle(r, <<"admin">>, "initJob")
            ELSE Goto(r, "initJob") /\ UNCHANGED world
         /\ UNCHANGED <<config, used>>)

CreateInitJob(r) ==
    /\ pc[r] = "initJob"
    /\ initSecret' = IF claim = r THEN Passwords(r) ELSE initSecret
    /\ \/ /\ claim = r /\ initJob = "none"
          /\ initJob' = "running" /\ Goto(r, "awaitJob")
       \/ /\ ~(claim = r /\ initJob = "none") /\ UNCHANGED <<initJob, ok>>
          /\ Forget(r) /\ claim' = Released(r)
    /\ UNCHANGED <<config, vault, database, setup, db, secrets, gateway, interface, used>>

\* One transaction, under a lock: roles with their passwords, schema and marker, unless
\* the marker is there.  It may commit and the Job fail all the same.
Initialize ==
    /\ initJob = "running"
    /\ \/ /\ initJob' = "complete" /\ UNCHANGED used
          /\ db' = IF db = NoPasswords THEN initSecret ELSE db
       \/ /\ initJob' = "failed" /\ Spend("failures", MaxFailures)
          /\ db' \in {db, IF db = NoPasswords THEN initSecret ELSE db}
    /\ UNCHANGED <<config, run, vault, database, setup, initSecret, secrets, gateway,
                   interface>>

AwaitInitJob(r) ==
    /\ pc[r] = "awaitJob" /\ initJob # "running"
    /\ Checked(r, initJob = "complete",
         Goto(r, "cleanup") /\ UNCHANGED <<config, world, used>>)

\* The Job and the two Secrets go one after the other.
CleanInitialization(r) ==
    /\ pc[r] = "cleanup"
    /\ Checked(r, TRUE,
         /\ \/ /\ initJob # "none" /\ initJob' = "none"
               /\ UNCHANGED <<initSecret, setup>> /\ Goto(r, "cleanup")
            \/ /\ initJob = "none" /\ initSecret # NoPasswords
               /\ initSecret' = NoPasswords /\ UNCHANGED <<initJob, setup>>
               /\ Goto(r, "cleanup")
            \/ /\ initJob = "none" /\ initSecret = NoPasswords
               /\ setup' = FALSE /\ UNCHANGED <<initJob, initSecret>>
               /\ Goto(r, "runtime")
         /\ UNCHANGED <<config, vault, database, db, secrets, gateway, interface, used>>)

-----------------------------------------------------------------------------
(* Runtime Secrets.                                                         *)

\* The data plane has only a key, which is made here.
Runtime(r) ==
    /\ pc[r] = "runtime"
    /\ Checked(r, TRUE,
         /\ IF role = "data" THEN Settle(r, <<"demoKey">>, "runtimeApi")
            ELSE Goto(r, "runtimeApi") /\ UNCHANGED world
         /\ UNCHANGED <<config, used>>)

\* a slip: the values remembered from the start of the run
ApiSecretRemembered(r) == [key |-> known[r]["demoKey"], password |-> known[r]["api"]]

\* Values are read from the store again.
ApiSecret(r) == [key |-> store["demoKey"],
                 password |-> IF role = "data" THEN None ELSE store["api"]]

WriteApiSecret(r) ==
    /\ pc[r] = "runtimeApi"
    /\ Checked(r, TRUE,
         /\ api' = ApiSecret(r)
         /\ Goto(r, IF prepared THEN "deployApp"
                    ELSE "runtimeWorker")
         /\ UNCHANGED <<config, vault, data, worker, gateway, interface, used>>)

WriteWorkerSecret(r) ==
    /\ pc[r] = "runtimeWorker"
    /\ Checked(r, TRUE,
         /\ worker' = [key |-> None,
                       password |-> IF role = "data" THEN None ELSE store["worker"]]
         /\ Goto(r, "deployApp")
         /\ UNCHANGED <<config, vault, data, api, gateway, interface, used>>)

-----------------------------------------------------------------------------
(* The application, its certificate and the tags of its interface.          *)

Tags == Azure /\ role = "data"

SendApp(r, phase, step) ==
    Checked(r, app.state # "working",
      /\ app' = [app EXCEPT !.state = "working", !.goal = phase] /\ Goto(r, step)
      /\ UNCHANGED <<config, vault, data, secrets, certJob, cert, interface, used>>)

FirstPhase(r) == IF previous[r] THEN "https" ELSE "http"

DeployApp(r) == pc[r] = "deployApp" /\ SendApp(r, FirstPhase(r), "awaitApp")

\* Radius deploys; the recipe of the cache may set the interface's tags back.
AppDeployed ==
    /\ app.state = "working"
    /\ \/ /\ app' = [app EXCEPT !.state = "ready", !.phase = app.goal]
          /\ IF Tags
             THEN nic' \in {[nic EXCEPT !.serial = IF @ = 0 THEN 1 ELSE @, !.tags = t] :
                            t \in {nic.tags, FALSE}}
             ELSE UNCHANGED nic
          /\ UNCHANGED used
       \/ /\ app' \in {[app EXCEPT !.state = "broken"]}
                      \cup (IF app.phase = "none" THEN {}
                            ELSE {[app EXCEPT !.state = "ready", !.goal = app.phase]})
          /\ UNCHANGED nic /\ Spend("failures", MaxFailures)
    /\ UNCHANGED <<config, run, vault, data, secrets, certJob, cert, nicJob, seen, tagged>>

AwaitApp(r) ==
    /\ pc[r] = "awaitApp" /\ app.state # "working"
    /\ Checked(r, app.state = "ready" /\ app.phase = FirstPhase(r),
         /\ Goto(r, IF Tags THEN "tag" ELSE IF Azure THEN "certificate" ELSE "verify")
         /\ UNCHANGED <<config, world, used>>)

\* A tag Job that is there, running or left by a run, stops the next.
TagRedisNic(r) ==
    /\ pc[r] \in {"tag", "tagAgain"}
    /\ Checked(r, nicJob = "none" /\ app.state = "ready",
         /\ nicJob' = "first"
         /\ Goto(r, IF pc[r] = "tag" THEN "awaitTag" ELSE "awaitTagAgain")
         /\ UNCHANGED <<config, vault, data, secrets, gateway, seen, nic, tagged, used>>)

AwaitTags(r) ==
    /\ pc[r] \in {"awaitTag", "awaitTagAgain"}
    /\ nicJob \in {"none", "complete", "failed"}
    /\ Checked(r, nicJob = "complete",
         /\ nicJob' = "none"
         /\ Goto(r, IF pc[r] = "awaitTag" THEN "certificate" ELSE "verify")
         /\ UNCHANGED <<config, vault, data, secrets, gateway, seen, nic, tagged, used>>)

\* The Job reads the interface twice before it writes and compares it after.
ReadInterface ==
    \/ /\ nicJob = "first" /\ seen' = nic
       /\ nicJob' = IF nic.tags THEN "complete" ELSE "second"
       /\ tagged' = IF nic.tags THEN nic.serial ELSE tagged
       /\ UNCHANGED nic
    \/ /\ nicJob = "second" /\ nicJob' = IF nic = seen THEN "patch" ELSE "failed"
       /\ UNCHANGED <<nic, seen, tagged>>

PatchInterface ==
    /\ nicJob = "patch" /\ nicJob' = "verify" /\ nic' = [nic EXCEPT !.tags = TRUE]
    /\ UNCHANGED <<seen, tagged>>

\* a slip: a write that was accepted is not looked at again
VerifyNothing ==
    /\ nicJob = "verify" /\ nicJob' = "complete" /\ tagged' = nic.serial
    /\ UNCHANGED <<nic, seen>>

VerifyInterface ==
    /\ nicJob = "verify"
    /\ IF nic.serial = seen.serial /\ nic.tags
       THEN nicJob' = "complete" /\ tagged' = nic.serial
       ELSE nicJob' = "failed" /\ UNCHANGED tagged
    /\ UNCHANGED <<nic, seen>>

TagJobFails ==
    /\ nicJob \in {"first", "second", "patch", "verify"} /\ nicJob' = "failed"
    /\ Spend("failures", MaxFailures) /\ UNCHANGED <<nic, seen, tagged>>

TagJob ==
    /\ \/ (ReadInterface \/ PatchInterface \/ VerifyInterface) /\ UNCHANGED used
       \/ TagJobFails
    /\ UNCHANGED <<config, run, vault, data, secrets, gateway>>

InterfaceReplaced ==
    /\ nic.serial > 0 /\ Spend("replaced", MaxReplaced)
    /\ nic' = [serial |-> nic.serial + 1, tags |-> FALSE]
    /\ UNCHANGED <<config, run, vault, data, secrets, gateway, nicJob, seen, tagged>>

Certificate(r) ==
    /\ pc[r] = "certificate"
    /\ Checked(r, certJob = "none" /\ app.state = "ready",
         /\ certJob' = "running" /\ Goto(r, "awaitCertificate")
         /\ UNCHANGED <<config, vault, data, secrets, app, cert, interface, used>>)

\* A certificate that is valid is kept; the Job may fail after it imported one.
IssueCertificate ==
    /\ certJob = "running"
    /\ \/ certJob' = "complete" /\ cert' = TRUE /\ UNCHANGED used
       \/ certJob' = "failed" /\ cert' \in {cert, TRUE} /\ Spend("failures", MaxFailures)
    /\ UNCHANGED <<config, run, vault, data, secrets, app, interface>>

AwaitCertificate(r) ==
    /\ pc[r] = "awaitCertificate" /\ certJob # "running"
    /\ Checked(r, certJob = "complete",
         /\ certJob' = "none" /\ Goto(r, "deployHttps")
         /\ UNCHANGED <<config, vault, data, secrets, app, cert, interface, used>>)

DeployHttps(r) == pc[r] = "deployHttps" /\ SendApp(r, "https", "awaitHttps")

AwaitHttps(r) ==
    /\ pc[r] = "awaitHttps" /\ app.state # "working"
    /\ Checked(r, app.state = "ready" /\ app.phase = "https",
         /\ Goto(r, IF Tags THEN "tagAgain" ELSE "verify")
         /\ UNCHANGED <<config, world, used>>)

Verify(r) ==
    /\ pc[r] = "verify"
    /\ Checked(r, app.state = "ready" /\ (Azure => app.phase = "https"),
         /\ ok' = TRUE /\ Forget(r) /\ claim' = Released(r)
         /\ UNCHANGED <<config, world, used>>)

-----------------------------------------------------------------------------
Step(r) ==
    \/ Seed(r) \/ Read(r) \/ Create(r) \/ ReadBack(r) \/ CurrentCertificate(r)
    \/ LookForDatabase(r) \/ Observe(r) \/ CreateInitSecret(r) \/ DeployDatabase(r)
    \/ AwaitDatabase(r) \/ CreateInitJob(r) \/ AwaitInitJob(r) \/ CleanInitialization(r)
    \/ Runtime(r) \/ WriteApiSecret(r) \/ WriteWorkerSecret(r)
    \/ DeployApp(r) \/ AwaitApp(r) \/ TagRedisNic(r) \/ AwaitTags(r)
    \/ Certificate(r) \/ AwaitCertificate(r) \/ DeployHttps(r) \/ AwaitHttps(r)
    \/ Verify(r)

Outside == \/ DatabaseMade \/ Initialize \/ AppDeployed \/ TagJob \/ IssueCertificate
           \/ \E f \in flying : Land(f)

Next ==
    \/ \E r \in Runs : Begin(r) \/ Step(r) \/ Fail(r) \/ Die(r) \/ StopPod(r)
    \/ RemoveClaim \/ RemoveJob \/ EditKey \/ Outside \/ InterfaceReplaced

Spec == Init /\ [][Next]_vars

\* Processes and Jobs go on, a pod whose Job is gone is stopped, and an operator
\* deploys again until a run ends well.
Fairness ==
    /\ \A r \in Runs : WF_vars(Step(r)) /\ WF_vars(StopPod(r))
    /\ WF_vars(~ok /\ RemoveClaim) /\ WF_vars(~ok /\ \E r \in Runs : Begin(r))
    /\ WF_vars(DatabaseMade) /\ WF_vars(Initialize) /\ WF_vars(AppDeployed)
    /\ WF_vars(TagJob) /\ WF_vars(IssueCertificate)
    /\ WF_vars(\E f \in flying : Land(f))

FairSpec == Spec /\ Fairness

-----------------------------------------------------------------------------
(* Properties.                                                              *)

\* A database that is initialized accepts the passwords in the store, whatever runs
\* overlapped, died or were repeated: one that did not could not be used and would
\* never be initialized again.  Key Vault gives no such promise when a write replaces a
\* value after its sender gave up, or after another write that came late; while its pod
\* waits for it, MayWrite keeps the others from writing, also when the claim is gone.
PasswordsAgree ==
    db # NoPasswords /\ late # "overtaken" => \A c \in DOMAIN db : store[c] = db[c]

\* Runtime Secrets hold passwords that the database accepts.
RuntimeWorks ==
    late # "overtaken" =>
      /\ role # "data" /\ api # NoSecret =>
           db # NoPasswords /\ api.password = db["api"] /\ api.key = store["demoKey"]
      /\ role # "data" /\ worker # NoSecret => worker.password = db["worker"]

\* The key that clients of a plane were given never changes, also when the operator
\* configures another one.
KeyStays == [][api.key # None /\ late' # "overtaken" => api'.key = api.key]_vars

\* What is true of a plane whose run ended well.
Complete ==
    /\ role # "data" => db # NoPasswords
    /\ api # NoSecret /\ (role # "data" /\ ~prepared => worker # NoSecret)
    /\ ~setup /\ initSecret = NoPasswords /\ initJob = "none"
    /\ Azure => app.phase = "https" /\ cert
    /\ Tags /\ nic.serial = tagged => nic.tags

\* A run that ends well leaves a complete plane: no setup password in the cluster,
\* https, and the tags on the interface that its last Job ended on.
DeployedIsComplete == ok => Complete

\* States in which every further run fails until an operator repairs something: an
\* initialization that never committed, a Job that a run left, a failed resource, a
\* provided key that is not the plane's, a value that a late write replaced.
Stuck ==
    \/ role # "data" /\ db = NoPasswords
       /\ (database # "none" \/ Leftovers)
    \/ certJob # "none" \/ nicJob # "none"
    \/ Azure /\ app.state = "broken"
    \/ given # None /\ store["demoKey"] \notin {None, given}
    \/ late = "overtaken"

\* Repeated runs complete the plane, wherever earlier ones died, or end in a state
\* that needs an operator.
CompleteInTheEnd == <>[]((ok /\ Complete) \/ Stuck)
=============================================================================
