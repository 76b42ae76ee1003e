----------------------------- MODULE Acceptance -----------------------------
(***************************************************************************)
(* The acceptance harness (scripts/harness/test-e2e.py).  A run admits     *)
(* three tenants to a live environment, or finds them there, changes their *)
(* configurations, pauses a reconciler, blocks the parent links one after  *)
(* the other, and records what it saw in a ConfigMap of its own, the       *)
(* journal.  A second run may continue the first admission of one that was *)
(* interrupted, or is believed to be.                                      *)
(*                                                                         *)
(* Each command line has a script, the steps its methods take in order;    *)
(* `with` blocks are a step that opens and a step that closes them.  A     *)
(* step that fails inside a block goes on at the step that closes it.  A   *)
(* step may fail for reasons of its own (a call, a deadline, a signal), or *)
(* because what it saw contradicts what it asserts: then the run accuses   *)
(* the system.                                                             *)
(*                                                                         *)
(* The system under test is healthy: provisioning, propagation and reports *)
(* happen in their own time, and none fails.  Its services are modelled    *)
(* by what the harness can see (Provisioning, Onboarding and               *)
(* ConfigPropagation have the details).                                    *)
(*                                                                         *)
(* Abstracted: images, sources and identities (a mismatch fails the step), *)
(* messages, the pages of a timeline, authentication checks, the number of *)
(* continuity samples.  A check of several services is one observation,    *)
(* except the poll for an applied configuration, which reads the control   *)
(* plane and then the data plane.                                          *)
(***************************************************************************)
EXTENDS Integers, Sequences, FiniteSets

CONSTANTS
    Runs,           \* executions of the harness
    NoRun,          \* no run
    First, Second,  \* the tenants on the shared pair
    Third,          \* the tenant on an isolated pair
    Sentinel,       \* the tenants asked for while the coordinator is busy
    NoTenant,       \* a step about no tenant
    MaxVersion      \* bound: the versions of a configuration

ASSUME BoundAssumption == MaxVersion \in Nat \ {0}
ASSUME RunsAssumption == NoRun \notin Runs
ASSUME TenantsAssumption == Cardinality({First, Second, Third, Sentinel, NoTenant}) = 5

Names == {First, Second, Third}
Shared == {First, Second}

Modes == {"scenario", "outages", "all", "verify-existing"}

\* On-demand provisioning (local), or prepared environments (Azure) without an
\* isolated one, or with the one that --isolated-environment names.
Sites == {"local", "azure", "isolated"}

Active(site) == IF site = "azure" THEN Shared ELSE Names

VARIABLES
    site,        \* the environment
    mode, from,  \* --mode and the run of --continue-first-from of every command line
    todo,        \* what is left of the script of a run
    begun,       \* runs that began
    failed,      \* runs that raised an error
    killed,      \* runs that were killed
    journal,     \* of every run: the outcome recorded, and the step saved last
    claimed,     \* runs whose journal says that another run continues it
    stale,       \* runs whose journal is not what they wrote last
    held,        \* runs that read the journal they continue, unchanged since
    row,         \* a tenant at the management API: none, accepted or built
    ready,       \* tenants whose control record was reported
    desired,     \* the version at the control plane, 0 before there is a record
    applied,     \* the version the data plane serves, 0 for none
    reports,     \* the versions reported as applied
    replicas,    \* of the shared pair's data reconciler
    pod,         \* whether that reconciler runs
    api,         \* whether the shared pair's data API runs
    link,        \* the run that blocks a parent link of the shared pair, or NoRun
    base,        \* the version of each tenant a run goes on from, or waits for
    asked,       \* runs in a poll that have read the control plane
    known,       \* runs and tenants whose counter the run knows
    shot,        \* the reports a run saw in the timelines
    told,        \* runs that saw the first tenant's record in its management timeline
    polled,      \* runs since whose last mark the control reconciler polled well
    \* what only the properties are about
    accuses,     \* runs that saw the system contradict what they assert
    quiet,       \* runs since whose pause no reconciler ran
    meddled,     \* somebody else changed the replicas of a paused reconciler
    gaveUp,      \* runs that failed while they closed a block
    overlapped   \* runs that were not alone

command == <<site, mode, from>>
control == <<todo, failed, accuses>>
record == <<journal, claimed, stale, held>>
tenants == <<row, ready, desired, applied, reports>>
cluster == <<replicas, pod, api, link>>
notes == <<base, asked, known, shot, told, polled>>
history == <<begun, killed, meddled, gaveUp, overlapped, quiet>>
vars == <<command, control, record, tenants, cluster, notes, history>>

-----------------------------------------------------------------------------
(* Scripts.                                                                 *)

Do(what, t) == <<what, t, "">>
Save(event, t) == <<"save", t, event>>
NoEvent == Save("none", NoTenant)

\* What a step does, the events that one saves, and the links one blocks.
Kinds == {"load", "claim", "save", "finish", "absent", "post", "repeat", "succeeded", "window",
    "sentinel", "ready", "operation", "continued", "rejected", "applied", "expected", "reached",
    "verify", "tally", "tallied", "count", "version", "put", "mark", "timelines", "same",
    "survived", "pause", "stop", "drain", "pending", "resume", "scale", "rollout", "guard",
    "block", "sample", "restart", "replaced", "unapplied", "lift", "before", "untold",
    "recovered", "latest"}
Events == {"none", "acceptance_started", "workload_image", "management_ready", "tenant_accepted",
    "first_tenant_continued", "data_applied", "control_images", "data_images",
    "configuration_counter_and_auth_checks", "complete_paginated_timelines",
    "requested_messages_and_counters_survived_management_poll",
    "three_poll_intervals_idempotent", "data_reconciler_paused",
    "immediate_child_readiness_proved", "isolated_capacity_unavailable", "data_continuity",
    "management_link_recovered", "control_link_recovered_latest_only"}
Links == {"management", "control"}
Steps == Kinds \X (Names \cup {Sentinel, NoTenant}) \X (Events \cup Links \cup {""})

WaitReady(t) == <<Do("ready", t), Save("management_ready", t)>>

Onboard(s, t, busy) ==
    <<Do("absent", t), Do("post", t), Do("repeat", t)>>
    \o (CASE s # "local" -> <<Do("succeeded", t)>>
          [] s = "local" /\ busy -> <<Do("window", t), Do("sentinel", t)>>
          [] OTHER -> << >>)
    \o <<Save("tenant_accepted", t)>> \o WaitReady(t)
    \o <<Do("operation", t), Do("repeat", t)>>

ContinueFirst ==
    <<Do("continued", First), Save("first_tenant_continued", First)>>
    \o WaitReady(First) \o <<Do("operation", First)>>

\* applied: for any version, for the one expected, or also with the counter expected.
Applied(t) == <<Do("applied", t), Save("data_applied", t)>>
Expected(t) == <<Do("expected", t), Save("data_applied", t)>>
Reached(t) == <<Do("reached", t), Save("data_applied", t)>>

WorkloadEvidence(t) ==
    <<Save("control_images", t), Do("verify", t), Save("data_images", t)>>

PausedReconciler(body) ==
    <<Do("pause", NoTenant), Do("stop", NoTenant), Do("drain", NoTenant)>>
    \o body \o <<Do("resume", NoTenant), Do("scale", NoTenant), Do("rollout", NoTenant)>>

Updates(t) ==
    <<Do("tally", t), Do("count", t), Do("version", t), Do("put", t), Do("put", t)>>
    \o Reached(t)

CheckUpdatesAndCounters(s) ==
    <<Do("tally", Second), Do("tally", First), Do("count", First), Do("tallied", Second)>>
    \o Updates(First) \o Updates(Second) \o (IF s = "azure" THEN << >> ELSE Updates(Third))
    \o <<Do("mark", NoTenant), Save("configuration_counter_and_auth_checks", NoTenant)>>

CheckConfigurationAndIdempotency(s) ==
    CheckUpdatesAndCounters(s)
    \o <<Do("timelines", NoTenant), Save("complete_paginated_timelines", NoTenant),
         Do("survived", NoTenant),
         Save("requested_messages_and_counters_survived_management_poll", NoTenant),
         Save("complete_paginated_timelines", NoTenant), Do("same", NoTenant),
         Save("workload_image", NoTenant), Save("three_poll_intervals_idempotent", NoTenant)>>

Scenario(s, continued) ==
    (IF continued THEN << >> ELSE <<Do("absent", First)>>)
    \o <<Do("absent", Second), Do("absent", Third)>>
    \o (IF continued THEN ContinueFirst ELSE Onboard(s, First, TRUE))
    \o (IF continued THEN Expected(First) ELSE Applied(First)) \o WorkloadEvidence(First)
    \o PausedReconciler(
         <<Save("data_reconciler_paused", NoTenant)>> \o Onboard(s, Second, FALSE)
         \o <<Do("pending", Second), Save("immediate_child_readiness_proved", Second)>>)
    \o Applied(Second) \o WorkloadEvidence(Second)
    \o (IF s = "azure"
        THEN <<Do("rejected", Third), Save("isolated_capacity_unavailable", Third)>>
        ELSE Onboard(s, Third, FALSE) \o Applied(Third) \o WorkloadEvidence(Third))
    \o CheckConfigurationAndIdempotency(s)

VerifyExisting(s) ==
    WaitReady(First) \o <<Do("operation", First)>>
    \o WaitReady(Second) \o <<Do("operation", Second)>>
    \o (IF s = "azure" THEN << >> ELSE WaitReady(Third) \o <<Do("operation", Third)>>)
    \o Applied(First) \o Applied(Second)
    \o (IF s = "azure" THEN << >>
        ELSE Applied(Third) \o WorkloadEvidence(First) \o WorkloadEvidence(Third))
    \o CheckConfigurationAndIdempotency(s)

\* run, for --mode outages: every tenant is expected, and every pair inspected.
ObserveAll ==
    WaitReady(First) \o Applied(First) \o WaitReady(Second) \o Applied(Second)
    \o WaitReady(Third) \o Applied(Third)
    \o WorkloadEvidence(First) \o WorkloadEvidence(Third)

\* with ParentFault: the link is blocked, and unblocked at the end of the block.
ParentFault(l, body) ==
    <<Do("guard", NoTenant), <<"block", First, l>>>> \o body \o <<<<"lift", First, l>>>>

ManagementOutage ==
    Applied(First) \o <<Do("before", First)>>
    \o ParentFault("management",
         <<Do("put", First)>> \o Reached(First)
         \o <<Do("tally", First), <<"sample", First, "management">>,
              Save("data_continuity", First), Do("untold", First)>>)
    \o <<Do("recovered", First), Do("untold", First), Save("management_link_recovered", First)>>

ControlOutage ==
    Applied(First)
    \o ParentFault("control",
         <<Do("put", First), Do("put", First), Do("tally", First),
           <<"sample", First, "control">>, Do("restart", First), Do("replaced", First),
           <<"sample", First, "control">>, Save("data_continuity", First),
           Do("unapplied", First)>>)
    \o Reached(First)
    \o <<Do("latest", First), Save("control_link_recovered_latest_only", First)>>

Script(m, s, continued) ==
    (IF continued THEN <<Do("load", NoTenant), Do("claim", NoTenant)>> ELSE << >>)
    \o <<Save("acceptance_started", NoTenant), Save("workload_image", NoTenant)>>
    \o (CASE m \in {"scenario", "all"} -> Scenario(s, continued)
          [] m = "verify-existing" -> VerifyExisting(s)
          [] m = "outages" -> ObserveAll)
    \o (IF m = "scenario" THEN << >>
        ELSE ManagementOutage \o ControlOutage
             \o <<Do("timelines", NoTenant), Save("complete_paginated_timelines", NoTenant)>>)
    \o <<Do("finish", NoTenant)>>

\* The steps that open a block, and those that close it.
Opens == {"pause", "guard"}
Closes == {"resume", "lift"}

Running(r) == todo[r] # << >> /\ r \notin killed

Takes(r, what) == Running(r) /\ todo[r][1][1] = what
Tenant(r) == todo[r][1][2]
Detail(r) == todo[r][1][3]

\* The step that closes the block the next step is in.
Closing(r, i) ==
    /\ todo[r][i][1] \in Closes
    /\ \A j \in 1..(i - 1) : todo[r][j][1] \notin Opens \cup Closes

\* What is left to do after an error: to close the block, or to finish.
AfterError(r) ==
    LET steps == 2..Len(todo[r])
    IN  IF todo[r][1][1] \notin Opens /\ \E i \in steps : Closing(r, i)
        THEN SubSeq(todo[r], CHOOSE i \in steps : Closing(r, i), Len(todo[r]))
        ELSE <<Do("finish", NoTenant)>>

-----------------------------------------------------------------------------
(* How a step ends.                                                         *)

Versions == 1..MaxVersion

Init ==
    /\ site \in Sites
    /\ mode \in [Runs -> Modes]
    /\ from \in [Runs -> Runs \cup {NoRun}]
    /\ \A r \in Runs : from[r] # NoRun =>
          from[r] # r /\ mode[r] = mode[from[r]] /\ mode[r] \in {"scenario", "all"}
    /\ todo = [r \in Runs |-> << >>] /\ begun = {} /\ failed = {} /\ accuses = {} /\ killed = {}
    /\ journal = [r \in Runs |-> [outcome |-> "none", saved |-> NoEvent]]
    /\ claimed = {} /\ stale = {} /\ held = {}
    /\ \E existing \in {{}, Active(site)} :
          /\ row = [t \in Names \cup {Sentinel} |-> IF t \in existing THEN "built" ELSE "none"]
          /\ ready = existing
          /\ desired = [t \in Names |-> IF t \in existing THEN 1 ELSE 0]
          /\ applied = desired
          /\ reports = [t \in Names |-> IF t \in existing THEN {1} ELSE {}]
    /\ replicas = 1 /\ pod = TRUE /\ api = TRUE /\ link = [l \in Links |-> NoRun]
    /\ base = [r \in Runs |-> [t \in Names |-> 0]]
    /\ asked = {} /\ known = {} /\ told = {} /\ polled = {}
    /\ shot = [r \in Runs |-> [t \in Names |-> {}]]
    /\ quiet = {} /\ meddled = FALSE /\ gaveUp = {} /\ overlapped = {}

\* The next step; a run that failed and closed its block goes to the end.
Forward(r) ==
    /\ todo' = [todo EXCEPT ![r] =
                  IF r \in failed /\ @[1][1] \in {"rollout", "lift"}
                  THEN <<Do("finish", NoTenant)>> ELSE Tail(@)]
    /\ UNCHANGED <<failed, accuses>>

Raise(r) ==
    /\ todo' = [todo EXCEPT ![r] = AfterError(r)]
    /\ failed' = failed \cup {r}
    /\ UNCHANGED accuses

\* What the run saw is what it asserts, or it fails and says so.
Asserts(r, holds) ==
    IF holds THEN Forward(r)
    ELSE /\ todo' = [todo EXCEPT ![r] = AfterError(r)]
         /\ failed' = failed \cup {r} /\ accuses' = accuses \cup {r}

\* check_journal, before everything that changes the environment: the journal is
\* what the run wrote last, and nobody continues it.
Guarded(r) == r \notin stale

\* A request that changes the environment, if the journal allows it.  Its answer may
\* be lost when it has had its effect.
Mutates(r, effect, holds) ==
    IF Guarded(r) THEN effect /\ (Asserts(r, holds) \/ Raise(r))
    ELSE Raise(r) /\ UNCHANGED <<tenants, cluster, notes>>

\* A step that only looks.
Looks(r, what, sees) ==
    /\ Takes(r, what) /\ sees
    /\ Forward(r) /\ UNCHANGED <<command, record, tenants, cluster, notes, history>>

Sees(r, what, holds) ==
    /\ Takes(r, what) /\ Asserts(r, holds)
    /\ UNCHANGED <<command, record, tenants, cluster, notes, history>>

-----------------------------------------------------------------------------
(* A run begins, fails, or is killed.                                       *)

Others(r) == {p \in Runs \ {r} : Running(p)}

Begin(r) ==
    /\ r \notin begun /\ (from[r] # NoRun => journal[from[r]].outcome # "none")
    /\ begun' = begun \cup {r}
    /\ todo' = [todo EXCEPT ![r] = Script(mode[r], site, from[r] # NoRun)]
    /\ overlapped' = IF Others(r) = {} THEN overlapped ELSE overlapped \cup Others(r) \cup {r}
    /\ UNCHANGED <<command, failed, accuses, record, tenants, cluster, notes, killed, meddled,
                   gaveUp, quiet>>

\* Any step fails: a call, a deadline, an identity that differs, a signal.
Fail(r) ==
    /\ Running(r) /\ todo[r][1][1] # "finish"
    /\ Raise(r)
    /\ gaveUp' = IF todo[r][1][1] \in {"resume", "scale", "rollout", "lift"}
                 THEN gaveUp \cup {r} ELSE gaveUp
    /\ UNCHANGED <<command, record, tenants, cluster, notes, begun, killed, meddled, overlapped, quiet>>

Kill(r) ==
    /\ Running(r) /\ killed' = killed \cup {r}
    /\ UNCHANGED <<command, control, record, tenants, cluster, notes, begun, meddled, gaveUp,
                   overlapped, quiet>>

-----------------------------------------------------------------------------
(* The journal, and the continuation of a run.                              *)

Continuing(r) == {p \in Runs : from[p] = r}

Write(r, outcome, saved) ==
    /\ journal' = [journal EXCEPT ![r] = [outcome |-> outcome, saved |-> saved]]
    /\ held' = held \ Continuing(r)

\* a slip: the journal is replaced whatever became of it
SaveEventBlindly(r) ==
    /\ Takes(r, "save")
    /\ Write(r, "running", todo[r][1]) /\ Forward(r)
    /\ UNCHANGED <<command, claimed, stale, tenants, cluster, notes, history>>

\* save: the record is replaced by one with the next event.  A write may take
\* effect without an answer; the journal is then not what the run holds.
SaveEvent(r) ==
    /\ Takes(r, "save")
    /\ IF Guarded(r)
       THEN \/ Write(r, "running", todo[r][1]) /\ Forward(r) /\ UNCHANGED stale
            \/ Write(r, "running", todo[r][1]) /\ Raise(r) /\ stale' = stale \cup {r}
       ELSE Raise(r) /\ UNCHANGED <<journal, held, stale>>
    /\ UNCHANGED <<command, claimed, tenants, cluster, notes, history>>

\* The end of run: the outcome, if there is a journal that may still be written.
Finish(r) ==
    /\ Takes(r, "finish")
    /\ todo' = [todo EXCEPT ![r] = << >>]
    /\ \/ /\ journal[r].outcome # "none" /\ Guarded(r)
          /\ Write(r, IF r \in failed THEN "failed" ELSE "passed", journal[r].saved)
          /\ failed' \in {failed, failed \cup {r}}
       \/ failed' = failed \cup {r} /\ UNCHANGED <<journal, held>>
    /\ UNCHANGED <<command, accuses, claimed, stale, tenants, cluster, notes, history>>

\* What management_image verifies, and whether an admission met a busy coordinator.
ManagementImages == IF site = "local" THEN 2 ELSE 1
BusyVerified == site = "local"

\* load_first_admission: the progress that may be continued is that of the first
\* admission, or of the observations that follow it, and nothing in between.
Continuable(p) ==
    /\ from[p] = NoRun
    /\ journal[p].outcome \in {"running", "failed"}
    /\ ManagementImages = 2 /\ BusyVerified
    /\ journal[p].saved \in {Save("tenant_accepted", First), Save("data_images", First)}

LoadFirstAdmission(r) ==
    /\ Takes(r, "load")
    /\ IF Continuable(from[r]) /\ from[r] \notin claimed
       THEN Forward(r) /\ held' = held \cup {r}
       ELSE Raise(r) /\ UNCHANGED held
    /\ UNCHANGED <<command, journal, claimed, stale, tenants, cluster, notes, history>>

\* claim_continuation: the prior journal names this run, unless it changed meanwhile.
ClaimContinuation(r) ==
    /\ Takes(r, "claim")
    /\ IF r \in held
       THEN /\ Forward(r)
            /\ claimed' = claimed \cup {from[r]} /\ stale' = stale \cup {from[r]}
            /\ held' = held \ Continuing(from[r])
       ELSE Raise(r) /\ UNCHANGED <<claimed, stale, held>>
    /\ UNCHANGED <<command, journal, tenants, cluster, notes, history>>

-----------------------------------------------------------------------------
(* Admissions.                                                              *)

Absent(r) ==
    /\ Takes(r, "absent") /\ Asserts(r, row[Tenant(r)] = "none")
    /\ UNCHANGED <<command, record, tenants, cluster, notes, history>>

Busy == \E t \in DOMAIN row : row[t] = "accepted"

\* POST /tenants: refused for a known tenant, while the coordinator is busy, and
\* where no environment is free.
Admits(t) ==
    /\ row[t] = "none"
    /\ site = "local" => ~Busy
    /\ site = "azure" => t # Third

Admit(t) ==
    /\ row' = [row EXCEPT ![t] = IF site = "local" THEN "accepted" ELSE "built"]
    /\ UNCHANGED <<ready, desired, applied, reports>>

Admitting(t) ==
    /\ IF Admits(t) THEN Admit(t) ELSE UNCHANGED tenants
    /\ UNCHANGED <<cluster, notes>>

Post(r) ==
    /\ Takes(r, "post")
    /\ Mutates(r, Admitting(Tenant(r)), Admits(Tenant(r)))
    /\ UNCHANGED <<command, record, history>>

\* The same request again: 409, with the location of the first.
Repeat(r) ==
    /\ Takes(r, "repeat")
    /\ Mutates(r, UNCHANGED <<tenants, cluster, notes>>, row[Tenant(r)] # "none")
    /\ UNCHANGED <<command, record, history>>

AlreadySucceeded(r) == Sees(r, "succeeded", row[Tenant(r)] = "built")

\* check_busy: the operation is looked at; that it ended already is no accusation.
BusyWindow(r) ==
    /\ Takes(r, "window")
    /\ IF row[Tenant(r)] = "accepted" THEN Forward(r) ELSE Raise(r)
    /\ UNCHANGED <<command, record, tenants, cluster, notes, history>>

\* Then another tenant is asked for, which must be refused.  When the operation ended
\* in between, it is admitted, and the run accuses the coordinator.
AskWhileBusy(r) ==
    /\ Takes(r, "sentinel") /\ Mutates(r, Admitting(Sentinel), Busy)
    /\ UNCHANGED <<command, record, history>>

AwaitReady(r) == Looks(r, "ready", Tenant(r) \in ready)

WaitOperation(r) == Looks(r, "operation", row[Tenant(r)] = "built")

\* GET of a tenant that is not there: 404 where 200 is required.
NotFound(r) ==
    /\ Running(r) /\ todo[r][1][1] \in {"ready", "operation"} /\ row[Tenant(r)] = "none"
    /\ Asserts(r, FALSE)
    /\ UNCHANGED <<command, record, tenants, cluster, notes, history>>

\* A tenant that is continued is expected with its first version.
Continued(r) ==
    /\ Takes(r, "continued") /\ Asserts(r, row[First] # "none")
    /\ base' = [base EXCEPT ![r][First] = 1]
    /\ UNCHANGED <<command, record, tenants, cluster, asked, known, shot, told, polled, history>>

\* Without isolated capacity a third tenant is refused and leaves no row.
Rejected(r) ==
    /\ Takes(r, "rejected")
    /\ Mutates(r, Admitting(Third), ~Admits(Third) /\ row[Third] = "none")
    /\ UNCHANGED <<command, record, history>>

-----------------------------------------------------------------------------
(* Configurations and counters.                                             *)

Answers(t) == t \in Shared => api

IsApplied(t) == desired[t] # 0 /\ applied[t] = desired[t] /\ desired[t] \in reports[t]

Polling(r) == \E what \in {"applied", "expected", "reached"} : Takes(r, what)

\* The version desired is the one waited for, or any at first.
Wanted(r) ==
    desired[Tenant(r)] # 0 /\ (Takes(r, "applied") \/ desired[Tenant(r)] = base[r][Tenant(r)])

\* a slip: the report to the control plane is not waited for
AskControlUnreported(r) ==
    LET t == Tenant(r)
    IN  /\ Polling(r) /\ r \notin asked
        /\ IF Wanted(r)
           THEN asked' = asked \cup {r} /\ base' = [base EXCEPT ![r][t] = desired[t]] /\ UNCHANGED control
           ELSE Asserts(r, FALSE) /\ UNCHANGED <<asked, base>>
        /\ UNCHANGED <<command, record, tenants, cluster, known, shot, told, polled, history>>

\* A poll reads the control plane: a version nobody waits for contradicts the run at
\* once, one that is not reported as applied is asked for again.
AskControl(r) ==
    LET t == Tenant(r)
    IN  /\ Polling(r) /\ r \notin asked
        /\ IF Wanted(r)
           THEN /\ desired[t] \in reports[t]
                /\ asked' = asked \cup {r} /\ base' = [base EXCEPT ![r][t] = desired[t]]
                /\ UNCHANGED control
           ELSE Asserts(r, FALSE) /\ UNCHANGED <<asked, base>>
        /\ UNCHANGED <<command, record, tenants, cluster, known, shot, told, polled, history>>

\* Then it reads the data plane, and starts again when that serves another version.
\* At first the counter is remembered, later it must not have moved.
AskData(r) ==
    LET t == Tenant(r)
    IN  /\ Polling(r) /\ r \in asked /\ Answers(t) /\ asked' = asked \ {r}
        /\ IF applied[t] = base[r][t]
           THEN Asserts(r, Takes(r, "reached") => <<r, t>> \in known)
           ELSE UNCHANGED control
        /\ known' = IF applied[t] = base[r][t] /\ Takes(r, "applied") THEN known \cup {<<r, t>>} ELSE known
        /\ UNCHANGED <<command, record, tenants, cluster, base, shot, told, polled, history>>

\* PUT of a configuration: the answer must be the version after the last.
Put(r) ==
    LET t == Tenant(r)
    IN  /\ Takes(r, "put") /\ desired[t] # 0 /\ desired[t] < MaxVersion
        /\ Mutates(r, /\ desired' = [desired EXCEPT ![t] = @ + 1]
                      /\ base' = [base EXCEPT ![r][t] = desired'[t]]
                      /\ UNCHANGED <<row, ready, applied, reports, cluster, asked, known, shot,
                                     told, polled>>,
                      desired[t] = base[r][t])
        /\ UNCHANGED <<command, record, history>>

ReadVersion(r) ==
    /\ Takes(r, "version") /\ Forward(r)
    /\ base' = [base EXCEPT ![r][Tenant(r)] = desired[Tenant(r)]]
    /\ UNCHANGED <<command, record, tenants, cluster, asked, known, shot, told, polled, history>>

\* The counter is read, and is known until somebody else increments it.
ReadCounter(r) ==
    /\ Takes(r, "tally") /\ Answers(Tenant(r)) /\ Forward(r)
    /\ known' = known \cup {<<r, Tenant(r)>>}
    /\ UNCHANGED <<command, record, tenants, cluster, base, asked, shot, told, polled, history>>

Counted(r, t) ==
    /\ known' = {k \in known : k[2] # t \/ k[1] = r}
    /\ UNCHANGED <<tenants, cluster, base, asked, shot, told, polled>>

Count(r) ==
    LET t == Tenant(r)
    IN  /\ Takes(r, "count") /\ Answers(t)
        /\ Mutates(r, Counted(r, t), <<r, t>> \in known)
        /\ UNCHANGED <<command, record, history>>

Tallied(r) == Sees(r, "tallied", <<r, Tenant(r)>> \in known)

-----------------------------------------------------------------------------
(* Timelines and polls.                                                     *)

\* collect_timelines and control_history: one record, and every version up to an
\* applied one that was reported.
Collected(r) ==
    /\ Takes(r, "timelines")
    /\ Asserts(r, \A t \in Active(site) : t \in ready /\ IsApplied(t))
    /\ shot' = [shot EXCEPT ![r] = [t \in Names |-> IF t \in Active(site) THEN reports[t] ELSE {}]]
    /\ UNCHANGED <<command, record, tenants, cluster, base, asked, known, told, polled, history>>

Same(r) == Sees(r, "same", \A t \in Active(site) : reports[t] = shot[r][t] /\ IsApplied(t))

\* updates_finished_at: only later polls of the control reconciler count.
Mark(r) ==
    /\ Takes(r, "mark") /\ Forward(r) /\ polled' = polled \ {r}
    /\ UNCHANGED <<command, record, tenants, cluster, base, asked, known, shot, told, history>>

\* assert_updates_survived_poll: too few polls in the time given fail the step.
Survived(r) ==
    /\ Takes(r, "survived") /\ r \in polled
    /\ Asserts(r, \A t \in Active(site) :
                    IsApplied(t) /\ desired[t] = base[r][t] /\ <<r, t>> \in known)
    /\ UNCHANGED <<command, record, tenants, cluster, notes, history>>

-----------------------------------------------------------------------------
(* The paused reconciler.                                                   *)

Pause(r) ==
    /\ Takes(r, "pause")
    /\ IF Guarded(r) THEN Asserts(r, replicas = 1) ELSE Raise(r)
    /\ UNCHANGED <<command, record, tenants, cluster, notes, history>>

InPause(r) ==
    /\ Running(r)
    /\ \E i \in DOMAIN todo[r] :
          todo[r][i][1] = "rollout" /\ \A j \in 1..i : todo[r][j][1] # "pause"

\* replicas: the patch tests the count it replaces.
Stop(r) ==
    /\ Takes(r, "stop")
    /\ IF replicas = 1
       THEN replicas' = 0 /\ (Forward(r) \/ Raise(r))
       ELSE Asserts(r, FALSE) /\ UNCHANGED replicas
    /\ UNCHANGED <<command, record, tenants, pod, api, link, notes, history>>

\* a slip: the pods are not waited for
DrainNothing(r) ==
    /\ Takes(r, "drain") /\ Forward(r)
    /\ quiet' = IF pod THEN quiet \ {r} ELSE quiet \cup {r}
    /\ UNCHANGED <<command, record, tenants, cluster, notes, begun, killed, meddled, gaveUp, overlapped>>

Drain(r) ==
    /\ Takes(r, "drain") /\ ~pod /\ Forward(r)
    /\ quiet' = IF pod THEN quiet \ {r} ELSE quiet \cup {r}
    /\ UNCHANGED <<command, record, tenants, cluster, notes, begun, killed, meddled, gaveUp, overlapped>>

\* The second tenant is ready, and nothing of it reached the data plane.
PendingWhilePaused(r) ==
    LET t == Tenant(r)
    IN  /\ Takes(r, "pending") /\ Answers(t)
        /\ Asserts(r, desired[t] # 0 /\ reports[t] = {} /\ applied[t] = 0)
        /\ UNCHANGED <<command, record, tenants, cluster, notes, history>>

\* No replicas are to be scaled up again, one is left alone, and so is a count that
\* is neither: somebody else changed it.
Recount(r) ==
    \/ replicas = 1 /\ todo' = [todo EXCEPT ![r] = Tail(Tail(@))] /\ UNCHANGED <<failed, accuses>>
    \/ replicas # 1 /\ Asserts(r, replicas = 0)

\* a slip: after a failure the pause is not undone
ResumeUnlessFailed(r) ==
    /\ Takes(r, "resume")
    /\ IF r \in failed
       THEN todo' = [todo EXCEPT ![r] = <<Do("finish", NoTenant)>>] /\ UNCHANGED <<failed, accuses>>
       ELSE Recount(r)
    /\ UNCHANGED <<command, record, tenants, cluster, notes, history>>

\* The deployment is looked at again, whatever happened in between.
Resume(r) ==
    /\ Takes(r, "resume") /\ Recount(r)
    /\ UNCHANGED <<command, record, tenants, cluster, notes, history>>

\* The patch tests that there still are none.
Scale(r) ==
    /\ Takes(r, "scale")
    /\ \/ /\ replicas = 0 /\ replicas' = 1
          /\ \/ Forward(r) /\ UNCHANGED gaveUp
             \/ Raise(r) /\ gaveUp' = gaveUp \cup {r}
       \/ /\ replicas # 0 /\ UNCHANGED replicas
          /\ Asserts(r, FALSE) /\ gaveUp' = gaveUp \cup {r}
    /\ meddled' = (meddled \/ (replicas = 0 /\ \E p \in Runs \ {r} : InPause(p)))
    /\ UNCHANGED <<command, record, tenants, pod, api, link, notes, begun, killed, overlapped, quiet>>

\* rollout status: as many pods as replicas
Rollout(r) == Looks(r, "rollout", pod = (replicas # 0))

-----------------------------------------------------------------------------
(* The blocked parent links, as FaultJournal promises them.                 *)

Guard(r) ==
    /\ Takes(r, "guard")
    /\ IF Guarded(r) THEN Forward(r) ELSE Raise(r)
    /\ UNCHANGED <<command, record, tenants, cluster, notes, history>>

\* The link is blocked unless the component's journal says it may be already.  An
\* error after that goes on to restore it.
Block(r) ==
    LET l == Detail(r)
    IN  /\ Takes(r, "block")
        /\ IF link[l] = NoRun
           THEN link' = [link EXCEPT ![l] = r] /\ (Forward(r) \/ Raise(r))
           ELSE Asserts(r, FALSE) /\ UNCHANGED link
        /\ UNCHANGED <<command, record, tenants, replicas, pod, api, notes, history>>

\* The version that is served while the link is blocked.
Served(r, l) == IF l = "management" THEN base[r][First] ELSE base[r][First] - 2

\* continuity: the link is blocked, the counter counts, the version stays.
Sample(r) ==
    LET l == Detail(r)
    IN  /\ Takes(r, "sample") /\ api
        /\ Mutates(r, Counted(r, First), /\ link[l] = r
                                         /\ <<r, First>> \in known
                                         /\ applied[First] = Served(r, l))
        /\ UNCHANGED <<command, record, history>>

\* restart_data_api deletes the pod of the data API and awaits another one.
RestartDataApi(r) ==
    /\ Takes(r, "restart") /\ (Forward(r) \/ Raise(r)) /\ api' = FALSE
    /\ UNCHANGED <<command, record, tenants, replicas, pod, link, notes, history>>

Replaced(r) ==
    /\ Takes(r, "replaced") /\ api
    /\ Asserts(r, <<r, First>> \in known /\ applied[First] = Served(r, "control"))
    /\ UNCHANGED <<command, record, tenants, cluster, notes, history>>

\* The control plane does not pretend that what it desires was applied.
Unapplied(r) == Sees(r, "unapplied", desired[First] \notin reports[First])

Lift(r) ==
    LET l == Detail(r)
    IN  /\ Takes(r, "lift") /\ Forward(r)
        /\ link' = [link EXCEPT ![l] = IF @ = r THEN NoRun ELSE @]
        /\ polled' = polled \ {r}
        /\ UNCHANGED <<command, record, tenants, replicas, pod, api, base, asked, known, shot, told,
                   history>>

\* The management timeline before the link is blocked; nothing was reported twice
\* while it was, or after.
ReadTimeline(r) ==
    /\ Takes(r, "before") /\ Forward(r)
    /\ told' = IF First \in ready THEN told \cup {r} ELSE told \ {r}
    /\ UNCHANGED <<command, record, tenants, cluster, base, asked, known, shot, polled, history>>

Untold(r) == Sees(r, "untold", First \in ready <=> r \in told)

Recovered(r) == Looks(r, "recovered", r \in polled)

\* Only the latest configuration is applied after the link is back.
LatestOnly(r) == Sees(r, "latest", (base[r][First] - 1) \notin reports[First])

\* verify_workload of the data plane: one reconciler pod and one API pod.
VerifyWorkload(r) ==
    /\ Takes(r, "verify")
    /\ IF Tenant(r) \in Shared => pod /\ api THEN Forward(r) ELSE Raise(r)
    /\ UNCHANGED <<command, record, tenants, cluster, notes, history>>

-----------------------------------------------------------------------------
(* The system under test.                                                   *)

Provision(t) ==
    /\ row[t] = "accepted" /\ row' = [row EXCEPT ![t] = "built"]
    /\ UNCHANGED <<ready, desired, applied, reports>>

Reports(t) == t \in Shared => link["management"] = NoRun
Polls(t) == t \in Shared => pod /\ link["control"] = NoRun

CreateRecord(t) ==
    /\ Reports(t) /\ row[t] = "built" /\ desired[t] = 0
    /\ desired' = [desired EXCEPT ![t] = 1]
    /\ UNCHANGED <<row, ready, applied, reports>>

ReportRecord(t) ==
    /\ Reports(t) /\ desired[t] # 0 /\ t \notin ready
    /\ ready' = ready \cup {t}
    /\ UNCHANGED <<row, desired, applied, reports>>

Apply(t) ==
    /\ Polls(t) /\ applied[t] # desired[t]
    /\ applied' = [applied EXCEPT ![t] = desired[t]]
    /\ UNCHANGED <<row, ready, desired, reports>>

Report(t) ==
    /\ Polls(t) /\ applied[t] # 0 /\ applied[t] \notin reports[t]
    /\ reports' = [reports EXCEPT ![t] = @ \cup {applied[t]}]
    /\ UNCHANGED <<row, ready, desired, applied>>

Services ==
    /\ \/ \E t \in DOMAIN row : Provision(t)
       \/ \E t \in Names : CreateRecord(t) \/ ReportRecord(t) \/ Apply(t) \/ Report(t)
    /\ UNCHANGED <<command, control, record, cluster, notes, history>>

PodFollows ==
    /\ pod # (replicas # 0) /\ pod' = (replicas # 0)
    /\ quiet' = {}
    /\ UNCHANGED <<command, control, record, tenants, replicas, api, link, notes, begun, killed,
                   meddled, gaveUp, overlapped>>

ApiReturns ==
    /\ ~api /\ api' = TRUE
    /\ UNCHANGED <<command, control, record, tenants, replicas, pod, link, notes, history>>

ControlPolls ==
    /\ link["management"] = NoRun /\ polled # Runs /\ polled' = Runs
    /\ UNCHANGED <<command, control, record, tenants, cluster, base, asked, known, shot, told,
                   history>>

\* Somebody scales the reconciler by hand while a run has it paused.
ScaleByHand ==
    /\ ~meddled /\ \E r \in Runs : InPause(r)
    /\ \E n \in 0..2 : n # replicas /\ replicas' = n
    /\ meddled' = TRUE
    /\ UNCHANGED <<command, control, record, tenants, pod, api, link, notes, begun, killed, gaveUp,
                   overlapped, quiet>>

-----------------------------------------------------------------------------

Step(r) ==
    \/ SaveEvent(r) \/ Finish(r) \/ LoadFirstAdmission(r) \/ ClaimContinuation(r)
    \/ Absent(r) \/ Post(r) \/ Repeat(r) \/ AlreadySucceeded(r) \/ BusyWindow(r)
    \/ AskWhileBusy(r) \/ AwaitReady(r) \/ WaitOperation(r) \/ NotFound(r)
    \/ Continued(r) \/ Rejected(r)
    \/ AskControl(r) \/ AskData(r) \/ Put(r) \/ ReadVersion(r) \/ ReadCounter(r)
    \/ Count(r) \/ Tallied(r) \/ Collected(r) \/ Same(r) \/ Mark(r) \/ Survived(r)
    \/ Pause(r) \/ Stop(r) \/ Drain(r) \/ PendingWhilePaused(r) \/ Resume(r) \/ Scale(r)
    \/ Rollout(r)
    \/ Guard(r) \/ Block(r) \/ Sample(r) \/ RestartDataApi(r) \/ Replaced(r) \/ Unapplied(r)
    \/ Lift(r) \/ ReadTimeline(r) \/ Untold(r) \/ Recovered(r) \/ LatestOnly(r) \/ VerifyWorkload(r)

Next ==
    \/ \E r \in Runs : Begin(r) \/ Step(r) \/ Fail(r) \/ Kill(r)
    \/ Services \/ PodFollows \/ ApiReturns \/ ControlPolls \/ ScaleByHand

Spec == Init /\ [][Next]_vars

-----------------------------------------------------------------------------
(* Properties.                                                              *)

TypeOK ==
    /\ site \in Sites /\ mode \in [Runs -> Modes] /\ from \in [Runs -> Runs \cup {NoRun}]
    /\ todo \in [Runs -> Seq(Steps)] /\ failed \cup accuses \cup killed \subseteq Runs
    /\ journal \in [Runs -> [outcome : {"none", "running", "passed", "failed"}, saved : Steps]]
    /\ begun \cup claimed \cup stale \cup held \cup quiet \cup gaveUp \cup overlapped \subseteq Runs
    /\ asked \cup told \cup polled \subseteq Runs
    /\ row \in [Names \cup {Sentinel} -> {"none", "accepted", "built"}] /\ ready \subseteq Names
    /\ desired \in [Names -> 0..MaxVersion] /\ applied \in [Names -> 0..MaxVersion]
    /\ reports \in [Names -> SUBSET Versions]
    /\ replicas \in 0..2 /\ pod \in BOOLEAN /\ api \in BOOLEAN /\ meddled \in BOOLEAN
    /\ link \in [Links -> Runs \cup {NoRun}]
    /\ base \in [Runs -> [Names -> 0..MaxVersion]] /\ known \subseteq Runs \X Names
    /\ shot \in [Runs -> [Names -> SUBSET Versions]]

\* "immediate_child_readiness_proved" is recorded only by a run in whose pause no
\* data reconciler ran, from before the tenant was asked for on, unless somebody
\* else changed the replicas meanwhile.
ReadinessIsProved ==
    \A r \in Runs :
        Takes(r, "save") /\ Detail(r) = "immediate_child_readiness_proved" /\ Guarded(r) =>
            r \in quiet \/ meddled

\* A run leaves nothing behind: a reconciler without replicas or a blocked link is
\* that of a run which is at it, was killed, or failed while it cleaned up, however
\* else it ended and whatever other runs did.  Of replicas this says nothing from the
\* moment on that somebody changed them while another had them paused (meddled), by
\* hand or at the end of a pause of his own.
NothingLeftBehind ==
    /\ replicas = 0 =>
          meddled \/ \E r \in Runs : InPause(r) \/ r \in killed \/ r \in gaveUp
    /\ \A l \in Links : link[l] # NoRun =>
          \/ link[l] \in killed \cup gaveUp
          \/ Running(link[l]) /\ \E i \in DOMAIN todo[link[l]] : Closing(link[l], i)

\* A run that is alone never accuses a healthy system: what it asserts of versions,
\* counters, reports, timelines and pods holds at the moment it looks.  The exception
\* is check_busy: the operation may end between the look at it and the request that it
\* must refuse, which then leaves the tenant it asked for behind.
NoFalseAlarm ==
    \A r \in accuses :
        \/ r \in overlapped \/ meddled \/ \E p \in Runs \ {r} : p \in killed \cup gaveUp
        \/ row[Sentinel] # "none"

\* Once another run continues an admission, the journal of the first says what it
\* said then, and that was such as may be continued: the first run records no event
\* and no outcome any more, also when it is alive and does not know.
ContinuedStays ==
    \A p \in claimed' : journal'[p] = journal[p] /\ (p \notin claimed => Continuable(p))
ContinuedIsOver == [][ContinuedStays]_vars
=============================================================================
