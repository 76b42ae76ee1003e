------------------------- MODULE ConfigPropagation -------------------------
(***************************************************************************)
(* One tenant's way from its control record to a served configuration:     *)
(* the functions of sql/control.sql, the configuration update of the       *)
(* control API, the data pollers (src/plane_demo/data/reconciler.py) and   *)
(* the ConfigMap they write (src/plane_demo/shared/kube.py).               *)
(*                                                                         *)
(* A poller may run twice for a while (a rolling restart), works from the  *)
(* rows it read, may die anywhere, and may see any remote call fail        *)
(* although it took effect.  A write to the cluster or a report that was   *)
(* sent is in flight on its own: it takes effect at any later time or      *)
(* never, also after its sender gave up on it.                             *)
(*                                                                         *)
(* Abstracted: the tenant's identity and labels (nothing here changes      *)
(* them), login roles, error codes other than the one each report uses,    *)
(* and the other rows of a poll, which are independent of this one.        *)
(***************************************************************************)
EXTENDS Integers, Sequences, ReportLog

CONSTANTS
    Pollers,        \* data reconciler processes
    Messages,       \* configuration messages clients may ask for
    NoMessage,      \* the message of a record or ConfigMap that is not there
    MaxVersion,     \* bound: versions of the configuration
    MaxDeletions    \* bound: times an operator deletes the tenant's ConfigMap

ASSUME MessagesAssumption == NoMessage \notin Messages
ASSUME BoundsAssumption == MaxVersion \in Nat \ {0} /\ MaxDeletions \in Nat

VARIABLES
    row,            \* control.tenant_config: version (0: no row) and message
    asked,          \* every message asked for, by version (history)
    events,         \* data's reports in control.events, oldest first
    map,            \* the tenant's ConfigMap: version (0: missing), message, revision
    revision,       \* the cluster's last resource version
    held,           \* every version the ConfigMap ever had (history)
    deletions,      \* how often the ConfigMap was deleted
    pc,             \* where each data poller is
    snap,           \* the row a poller works from
    seen,           \* the resource version it read, 0 for a missing ConfigMap
    writes,         \* writes to the ConfigMap in flight
    reports         \* reports in flight

config == <<row, asked, events>>
cluster == <<map, revision, held, deletions>>
poller == <<pc, snap, seen>>
vars == <<config, cluster, poller, writes, reports>>

Missing == [version |-> 0, message |-> NoMessage, revision |-> 0]
NoRow == [version |-> 0, message |-> NoMessage]

-----------------------------------------------------------------------------
(* Control *)

\* ensure_tenant inserts the record; once it exists, it changes nothing
EnsureTenant(m) ==
    /\ row.version = 0
    /\ row' = [version |-> 1, message |-> m]
    /\ asked' = <<m>>
    /\ UNCHANGED <<events, cluster, poller, writes, reports>>

\* PUT /tenants/{id}/configuration
UpdateConfiguration(m) ==
    /\ row.version \in 1..MaxVersion - 1
    /\ row' = [version |-> row.version + 1, message |-> m]
    /\ asked' = Append(asked, m)
    /\ UNCHANGED <<events, cluster, poller, writes, reports>>

-----------------------------------------------------------------------------
(* The data plane *)

\* run_once reads the desired rows; what it does next works from this copy
PollControl(p) ==
    /\ pc[p] = "idle"
    /\ row.version > 0
    /\ snap' = [snap EXCEPT ![p] = row]
    /\ pc' = [pc EXCEPT ![p] = "polled"]
    /\ UNCHANGED <<config, cluster, seen, writes, reports>>

\* a slip: the message is read again, apart from the version
TornWrite(p, rev) ==
    [revision |-> rev, version |-> snap[p].version, message |-> row.message]

\* the write of a poller that read the ConfigMap at a resource version
Write(p, rev) ==
    [revision |-> rev, version |-> snap[p].version, message |-> snap[p].message]

\* a poller returns to its loop: what it read is gone
Return(p) ==
    /\ pc' = [pc EXCEPT ![p] = "idle"]
    /\ snap' = [snap EXCEPT ![p] = NoRow]
    /\ seen' = [seen EXCEPT ![p] = 0]

\* a slip: a newer ConfigMap is not left alone
OverwriteMap(p) ==
    /\ pc[p] = "polled"
    /\ IF map.version = snap[p].version
       THEN /\ pc' = [pc EXCEPT ![p] = "applied"]
            /\ UNCHANGED <<snap, seen, writes>>
       ELSE /\ seen' = [seen EXCEPT ![p] = map.revision]
            /\ writes' = writes \cup {Write(p, map.revision)}
            /\ pc' = [pc EXCEPT ![p] = "writing"]
            /\ UNCHANGED snap
    /\ UNCHANGED <<config, cluster, reports>>

\* a slip: a missing ConfigMap is created for the first version only
ReadMapFirst(p) ==
    /\ pc[p] = "polled"
    /\ IF map.version >= snap[p].version \/ (map.version = 0 /\ snap[p].version > 1)
       THEN /\ pc' = [pc EXCEPT ![p] = IF map.message = snap[p].message THEN "applied" ELSE "failed"]
            /\ UNCHANGED <<snap, seen, writes>>
       ELSE /\ seen' = [seen EXCEPT ![p] = map.revision]
            /\ writes' = writes \cup {Write(p, map.revision)}
            /\ pc' = [pc EXCEPT ![p] = "writing"]
            /\ UNCHANGED snap
    /\ UNCHANGED <<config, cluster, reports>>

\* apply reads the ConfigMap: a newer one is left alone, the same one is
\* applied, a different one of the same version is invalid, and an older or
\* missing one is written, on condition that it is still as it was read
ReadMap(p) ==
    /\ pc[p] = "polled"
    /\ \/ /\ map.version > snap[p].version
          /\ Return(p)
          /\ UNCHANGED writes
       \/ /\ map.version = snap[p].version
          /\ pc' = [pc EXCEPT ![p] =
                       IF map.message = snap[p].message THEN "applied" ELSE "failed"]
          /\ UNCHANGED <<snap, seen, writes>>
       \/ /\ map.version < snap[p].version
          /\ seen' = [seen EXCEPT ![p] = map.revision]
          /\ writes' = writes \cup {Write(p, map.revision)}
          /\ pc' = [pc EXCEPT ![p] = "writing"]
          /\ UNCHANGED snap
    /\ UNCHANGED <<config, cluster, reports>>

\* a slip: the patch carries no resource version
BlindWriteLands(w) ==
    /\ w \in writes
    /\ writes' = writes \ {w}
    /\ revision' = revision + 1
    /\ map' = [version |-> w.version, message |-> w.message, revision |-> revision + 1]
    /\ held' = held \cup {w.version}
    /\ \/ \E p \in Pollers :
             /\ pc[p] = "writing" /\ w = Write(p, seen[p])
             /\ pc' = [pc EXCEPT ![p] = "applied"]
       \/ UNCHANGED pc
    /\ UNCHANGED <<config, deletions, snap, seen, reports>>

\* the cluster takes a write: a create of a missing ConfigMap, or a patch whose
\* resource version is still the current one; it refuses any other.  A sender
\* that still waits may get the answer (a refusal is a failed call).
WriteLands(w) ==
    /\ w \in writes
    /\ writes' = writes \ {w}
    /\ IF w.revision = map.revision
       THEN /\ revision' = revision + 1
            /\ map' = [version |-> w.version, message |-> w.message,
                       revision |-> revision + 1]
            /\ held' = held \cup {w.version}
            /\ \/ \E p \in Pollers :
                     /\ pc[p] = "writing" /\ w = Write(p, seen[p])
                     /\ pc' = [pc EXCEPT ![p] = "applied"]
               \/ UNCHANGED pc
       ELSE UNCHANGED <<map, revision, held, pc>>
    /\ UNCHANGED <<config, deletions, snap, seen, reports>>

\* the read or the write fails or times out, whatever became of it
CallFails(p) ==
    /\ pc[p] \in {"polled", "writing"}
    /\ pc' = [pc EXCEPT ![p] = "failed"]
    /\ UNCHANGED <<config, cluster, snap, seen, writes, reports>>

\* report: sent, and whatever its answer the next poll follows
ReportData(p) ==
    /\ pc[p] \in {"applied", "failed"}
    /\ reports' = reports \cup {<<pc[p], snap[p].version>>}
    /\ Return(p)
    /\ UNCHANGED <<config, cluster, writes>>

\* report_data, for a version the record has had
ReportLands(r) ==
    /\ r \in reports
    /\ reports' = reports \ {r}
    /\ events' = IF r[2] \in 1..row.version
                 THEN Recorded(events, r, <<"applied", r[2]>>)
                 ELSE events
    /\ UNCHANGED <<row, asked, cluster, poller, writes>>

CrashPoller(p) ==
    /\ pc[p] # "idle"
    /\ Return(p)
    /\ UNCHANGED <<config, cluster, writes, reports>>

\* an operator deletes the tenant's ConfigMap (an immutable one blocks writes)
DeleteMap ==
    /\ map.version > 0
    /\ deletions < MaxDeletions
    /\ deletions' = deletions + 1
    /\ map' = Missing
    /\ revision' = revision + 1
    /\ UNCHANGED <<config, held, poller, writes, reports>>

-----------------------------------------------------------------------------

Init ==
    /\ row = NoRow /\ asked = <<>> /\ events = <<>>
    /\ map = Missing /\ revision = 0 /\ held = {} /\ deletions = 0
    /\ pc = [p \in Pollers |-> "idle"]
    /\ snap = [p \in Pollers |-> NoRow]
    /\ seen = [p \in Pollers |-> 0]
    /\ writes = {} /\ reports = {}

Next ==
    \/ DeleteMap
    \/ \E m \in Messages : EnsureTenant(m) \/ UpdateConfiguration(m)
    \/ \E p \in Pollers :
          PollControl(p) \/ ReadMap(p) \/ CallFails(p) \/ ReportData(p) \/ CrashPoller(p)
    \/ \E w \in writes : WriteLands(w)
    \/ \E r \in reports : ReportLands(r)

Spec == Init /\ [][Next]_vars

-----------------------------------------------------------------------------
(* Fairness.  Every poller keeps polling and does not stay in a call for     *)
(* ever (each has a timeout).  Calls may fail again and again, and pollers    *)
(* die again and again, but not at the same call every time for ever.  A      *)
(* report is sent again at every poll, so one of its copies is recorded.      *)
(* Clients and operators owe nothing.                                         *)

PollerFairness(p) ==
    /\ WF_vars(PollControl(p))
    /\ WF_vars(CallFails(p))
    /\ WF_vars(ReportData(p))
    /\ SF_vars(ReadMap(p))
    /\ SF_vars(\E w \in writes : WriteLands(w) /\ pc'[p] # pc[p])
    /\ SF_vars(ReportData(p) /\ pc[p] = "applied")

ReportFairness == \A v \in 1..MaxVersion : WF_vars(ReportLands(<<"applied", v>>))

Fairness == (\A p \in Pollers : PollerFairness(p)) /\ ReportFairness

FairSpec == Spec /\ Fairness

-----------------------------------------------------------------------------
(* What the control API answers: tenant_status *)

AppliedVersions == {v \in 1..MaxVersion : \E i \in 1..Len(events) : events[i] = <<"applied", v>>}

\* the newest applied version decides, then a failure of the desired version
Status ==
    IF \E v \in AppliedVersions : v = row.version /\ \A u \in AppliedVersions : u <= v
    THEN "applied"
    ELSE IF \E i \in 1..Len(events) : events[i] = <<"failed", row.version>>
    THEN "failed"
    ELSE "pending"

-----------------------------------------------------------------------------
(* Properties *)

Rows == [version : 1..MaxVersion, message : Messages] \cup {NoRow}
Reports == {"applied", "failed"} \X (1..MaxVersion)

TypeOK ==
    /\ row \in Rows
    /\ asked \in Seq(Messages)
    /\ events \in Seq(Reports)
    /\ map \in [version : 0..MaxVersion, message : Messages \cup {NoMessage}, revision : Nat]
    /\ revision \in Nat
    /\ held \subseteq 1..MaxVersion
    /\ deletions \in 0..MaxDeletions
    /\ pc \in [Pollers -> {"idle", "polled", "writing", "applied", "failed"}]
    /\ snap \in [Pollers -> Rows]
    /\ seen \in [Pollers -> Nat]
    /\ writes \subseteq [revision : Nat, version : 1..MaxVersion, message : Messages]
    /\ reports \subseteq Reports

\* What the data API serves is a configuration a client asked for: the message
\* of the ConfigMap is the message of its version, and never of a version ahead
\* of the control record, however stale the poller that wrote it.
ServedIsAsked ==
    /\ map.version <= row.version
    /\ map.version > 0 => map.message = asked[map.version]

\* "Control's applied report means data applied a ConfigMap", of exactly the
\* version it names: no lost answer, stale copy or late report makes it a guess.
AppliedWasHeld ==
    \A i \in 1..Len(events) : events[i][1] = "applied" => events[i][2] \in held

\* "The timeline keeps one config_apply_failed followed by config_applied" for a
\* version: reports that arrive late or twice neither repeat an event nor bring
\* back a failure after the success.
FailureOnlyBeforeSuccess ==
    \A i, j \in 1..Len(events) :
        i < j /\ events[i][2] = events[j][2] =>
            events[i][1] = "failed" /\ events[j][1] = "applied"

\* While the control API reports the configuration as applied, the data plane
\* serves the desired configuration, unless an operator deleted the ConfigMap.
AppliedIsServed ==
    Status = "applied" /\ deletions = 0 =>
        map.version = row.version /\ map.message = row.message

\* the abstract promise: in particular a stale poller never takes the data plane
\* back to an older configuration
Promise == INSTANCE PropagationPromise
               WITH desired <- row.version,
                    served <- map.version,
                    history <- held,
                    acked <- AppliedVersions

ImplementsPromise == Promise!Spec

\* When clients stop updating, the data plane serves the last configuration and
\* control reports it as applied: no lost answer, crash, conflict between pollers
\* or deleted ConfigMap is final.
Converges ==
    <>[](row.version > 0 =>
            /\ Status = "applied"
            /\ map.version = row.version /\ map.message = row.message)

=============================================================================
