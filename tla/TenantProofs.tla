----------------------------- MODULE TenantProofs -----------------------------
(***************************************************************************)
(* What becomes of a tenant after its pair was provisioned: the safety of  *)
(* ConfigPropagation, that it implements what the planes promise           *)
(* (PropagationPromise), and the safety of Onboarding, for any pollers,    *)
(* reconcilers, tenants, pairs, messages and bounds.                       *)
(*                                                                         *)
(* The heart of the propagation is Fresh: a write in flight carries the    *)
(* resource version its sender read, and while the ConfigMap still has     *)
(* that resource version it still is older than the write.  So a write     *)
(* that is not refused moves the data plane forward, however late it is.   *)
(*                                                                         *)
(* Of Onboarding neither ReadyHasRecord nor RecordOnFinishedPair is        *)
(* inductive: they say nothing about the calls and reports in flight or    *)
(* about what the reconcilers read a while ago.  Supported covers what     *)
(* leads to "ready", Deserved everything that leads to a record.           *)
(*                                                                         *)
(* Onboarding comes as the instance Onboard of TenantOnboarding, as the   *)
(* two models use some of the same names.                                  *)
(***************************************************************************)
EXTENDS ConfigPropagation, TenantOnboarding, TLAPS

\* the message m was asked for with the version v
Known(v, m) == v \in 1..Len(asked) /\ m = asked[v]

\* the record is the last thing asked for
RowIsAsked ==
    /\ Len(asked) = row.version
    /\ row.version > 0 => Known(row.version, row.message)

\* all copies of the record, stale ones included, are something asked for
Copies ==
    /\ \A p \in Pollers : pc[p] # "idle" => Known(snap[p].version, snap[p].message)
    /\ \A w \in writes : Known(w.version, w.message)
    /\ map.version > 0 => Known(map.version, map.message)

Fresh ==
    /\ map.revision <= revision
    /\ \A w \in writes :
          w.revision <= revision /\ (w.revision = map.revision => map.version < w.version)

\* whatever says "applied", or is about to, names a version that was served
Witnessed ==
    /\ map.version > 0 => map.version \in held
    /\ \A p \in Pollers : pc[p] = "applied" => snap[p].version \in held
    /\ \A v \in 1..MaxVersion : <<"applied", v>> \in reports => v \in held
    /\ AppliedWasHeld

\* without deletions the ConfigMap has the newest version it ever had
Newest == deletions = 0 => \A v \in held : v <= map.version

IInv == /\ TypeOK /\ RowIsAsked /\ Copies /\ Fresh /\ Witnessed /\ Newest
        /\ FailureOnlyBeforeSuccess

-----------------------------------------------------------------------------
(* What the steps do, in the terms the proofs need *)

\* a record and what was asked for grow together
LEMMA AskGrows ==
    ASSUME TypeOK, RowIsAsked, NEW m \in Messages, EnsureTenant(m) \/ UpdateConfiguration(m)
    PROVE  /\ row' = [version |-> row.version + 1, message |-> m]
           /\ asked' = Append(asked, m)
           /\ row'.version \in 1..MaxVersion
           /\ UNCHANGED <<events, cluster, poller, writes, reports>>
<1>1. CASE EnsureTenant(m)
  <2>1. asked = <<>>
    BY <1>1 DEF EnsureTenant, TypeOK, RowIsAsked
  <2> QED
    BY <1>1, <2>1, BoundsAssumption DEF EnsureTenant
<1>2. CASE UpdateConfiguration(m)
  BY <1>2, BoundsAssumption DEF UpdateConfiguration
<1> QED
  BY <1>1, <1>2

\* what was asked for stays so
LEMMA KnownStays ==
    ASSUME TypeOK, NEW m \in Messages, asked' = Append(asked, m), NEW v, NEW n, Known(v, n)
    PROVE  Known(v, n)'
  BY DEF Known, TypeOK

\* a write that is not refused is newer than what it replaces
LEMMA LandsForward ==
    ASSUME TypeOK, Fresh, NEW w \in writes, WriteLands(w), w.revision = map.revision
    PROVE  /\ map.version < w.version
           /\ map'.version = w.version /\ map'.message = w.message
           /\ map'.revision = revision + 1 /\ revision' = revision + 1
           /\ held' = held \cup {w.version}
  BY DEF WriteLands, Fresh

\* the timeline stays, or gets a report it had not, of a version without success
LEMMA ReportAppends ==
    ASSUME TypeOK, NEW r \in reports, ReportLands(r)
    PROVE  /\ r = <<r[1], r[2]>> /\ r[1] \in {"applied", "failed"} /\ r[2] \in 1..MaxVersion
           /\ reports' = reports \ {r}
           /\ \/ events' = events
              \/ /\ events' = Append(events, r)
                 /\ \A i \in 1..Len(events) : events[i] \notin {r, <<"applied", r[2]>>}
           /\ UNCHANGED <<row, asked, cluster, poller, writes>>
  BY DEF ReportLands, Recorded, TypeOK, Reports

-----------------------------------------------------------------------------
(* Every step preserves the invariant, one part at a time *)

LEMMA TypeStep == IInv /\ [Next]_vars => TypeOK'
<1> SUFFICES ASSUME IInv, [Next]_vars
             PROVE  TypeOK'
  OBVIOUS
<1> USE DEF IInv
<1>0. /\ NoRow \in Rows /\ Missing \in [version : 0..MaxVersion,
             message : Messages \cup {NoMessage}, revision : Nat]
      /\ \A v \in 1..MaxVersion, m \in Messages : [version |-> v, message |-> m] \in Rows
  BY BoundsAssumption DEF Rows, NoRow, Missing
<1>1. ASSUME NEW m \in Messages, EnsureTenant(m) \/ UpdateConfiguration(m)
      PROVE  TypeOK'
  <2>1. row' \in Rows
    BY <1>0, <1>1, AskGrows
  <2>2. asked' = Append(asked, m) /\ asked \in Seq(Messages)
    BY <1>1, AskGrows DEF TypeOK
  <2>3. asked' \in Seq(Messages)
    BY <2>2
  <2>4. UNCHANGED <<events, cluster, poller, writes, reports>>
    BY <1>1, AskGrows
  <2> QED
    BY <2>1, <2>3, <2>4 DEF TypeOK, cluster, poller
<1>2. CASE DeleteMap
  BY <1>0, <1>2, BoundsAssumption DEF DeleteMap, TypeOK, config, poller
<1>3. ASSUME NEW p \in Pollers, PollControl(p) \/ CallFails(p) \/ CrashPoller(p)
      PROVE  TypeOK'
  <2>1. UNCHANGED <<row, asked, events, map, revision, held, deletions, writes, reports>>
    BY <1>3 DEF PollControl, CallFails, CrashPoller, config, cluster
  <2>2. CASE PollControl(p)
    BY <2>1, <2>2 DEF PollControl, TypeOK
  <2>3. CASE CallFails(p)
    BY <2>1, <2>3 DEF CallFails, TypeOK
  <2>4. CASE CrashPoller(p)
    BY <1>0, <2>1, <2>4 DEF CrashPoller, Return, TypeOK
  <2> QED
    BY <1>3, <2>2, <2>3, <2>4
<1>4. ASSUME NEW p \in Pollers, pc[p] # "idle"
      PROVE  snap[p].version \in 1..MaxVersion /\ snap[p].message \in Messages
  <2>1. Known(snap[p].version, snap[p].message) /\ snap[p] \in Rows
    BY <1>4 DEF Copies, TypeOK
  <2>2. snap[p].version # 0
    BY <2>1 DEF Known
  <2> QED
    BY <2>1, <2>2 DEF Rows, NoRow
<1>5. ASSUME NEW p \in Pollers, ReadMap(p)
      PROVE  TypeOK'
  <2>1. Write(p, map.revision) \in [revision : Nat, version : 1..MaxVersion, message : Messages]
    BY <1>4, <1>5 DEF ReadMap, Write, TypeOK
  <2> QED
    <3>1. UNCHANGED <<row, asked, events, map, revision, held, deletions, reports>>
      BY <1>5 DEF ReadMap, config, cluster
    <3>2. writes' \subseteq [revision : Nat, version : 1..MaxVersion, message : Messages]
      BY <1>5, <2>1 DEF ReadMap, TypeOK
    <3>3. pc' \in [Pollers -> {"idle", "polled", "writing", "applied", "failed"}]
      BY <1>5 DEF ReadMap, Return, TypeOK
    <3>4. snap' \in [Pollers -> Rows] /\ seen' \in [Pollers -> Nat]
      <4>1. map.revision \in Nat
        BY DEF TypeOK
      <4>2. snap' = snap \/ snap' = [snap EXCEPT ![p] = NoRow]
        BY <1>5 DEF ReadMap, Return
      <4>3. seen' = seen \/ seen' = [seen EXCEPT ![p] = 0]
                        \/ seen' = [seen EXCEPT ![p] = map.revision]
        BY <1>5 DEF ReadMap, Return
      <4>4. snap' \in [Pollers -> Rows]
        BY <1>0, <4>2 DEF TypeOK
      <4>5. seen \in [Pollers -> Nat]
        BY DEF TypeOK
      <4>6. seen' \in [Pollers -> Nat]
        BY <4>1, <4>3, <4>5
      <4> QED
        BY <4>4, <4>6
    <3> QED
      BY <3>1, <3>2, <3>3, <3>4 DEF TypeOK
<1>6. ASSUME NEW p \in Pollers, ReportData(p)
      PROVE  TypeOK'
  <2>1. <<pc[p], snap[p].version>> \in Reports
    BY <1>4, <1>6 DEF ReportData, Reports
  <2> QED
    BY <1>0, <1>6, <2>1 DEF ReportData, Return, TypeOK, config, cluster
<1>7. ASSUME NEW w \in writes, WriteLands(w)
      PROVE  TypeOK'
  <2>1. pc' \in [Pollers -> {"idle", "polled", "writing", "applied", "failed"}]
    BY <1>7 DEF WriteLands, TypeOK
  <2>2. /\ map' \in [version : 0..MaxVersion, message : Messages \cup {NoMessage}, revision : Nat]
        /\ revision' \in Nat /\ held' \subseteq 1..MaxVersion
    <3>1. /\ w.version \in 1..MaxVersion /\ w.message \in Messages
          /\ revision \in Nat /\ revision + 1 \in Nat
      BY DEF TypeOK
    <3>2. [version |-> w.version, message |-> w.message, revision |-> revision + 1]
             \in [version : 0..MaxVersion, message : Messages \cup {NoMessage}, revision : Nat]
      BY <3>1, BoundsAssumption
    <3> QED
      <4>1. CASE w.revision = map.revision
        <5>1. /\ revision' = revision + 1 /\ held' = held \cup {w.version}
              /\ map' = [version |-> w.version, message |-> w.message,
                         revision |-> revision + 1]
          BY <1>7, <4>1 DEF WriteLands
        <5> QED
          BY <3>1, <3>2, <5>1 DEF TypeOK
      <4>2. CASE w.revision # map.revision
        BY <1>7, <4>2 DEF WriteLands, TypeOK
      <4> QED
        BY <4>1, <4>2
  <2> QED
    BY <1>7, <2>1, <2>2 DEF WriteLands, TypeOK, config
<1>8. ASSUME NEW r \in reports, ReportLands(r)
      PROVE  TypeOK'
  <2>1. events' \in Seq(Reports)
    <3>1. events \in Seq(Reports) /\ r \in Reports
      BY DEF TypeOK
    <3>2. events' = events \/ events' = Append(events, r)
      BY <1>8, ReportAppends
    <3> QED
      BY <3>1, <3>2
  <2> QED
    BY <1>8, <2>1, ReportAppends DEF TypeOK, cluster, poller
<1>9. CASE UNCHANGED vars
  BY <1>9 DEF vars, config, cluster, poller, TypeOK
<1> QED
  BY <1>1, <1>2, <1>3, <1>5, <1>6, <1>7, <1>8, <1>9 DEF Next

LEMMA CopiesStep == IInv /\ [Next]_vars => RowIsAsked' /\ Copies'
<1> SUFFICES ASSUME IInv, [Next]_vars
             PROVE  RowIsAsked' /\ Copies'
  OBVIOUS
<1> USE DEF IInv
<1>1. ASSUME NEW m \in Messages, EnsureTenant(m) \/ UpdateConfiguration(m)
      PROVE  RowIsAsked' /\ Copies'
  <2>1. /\ row' = [version |-> row.version + 1, message |-> m]
        /\ asked' = Append(asked, m)
        /\ UNCHANGED <<map, pc, snap, writes>>
    BY <1>1, AskGrows DEF cluster, poller
  <2>2. RowIsAsked'
    BY <2>1 DEF RowIsAsked, Known, TypeOK
  <2>3. \A v, n : Known(v, n) => Known(v, n)'
    BY <2>1, KnownStays
  <2> QED
    BY <2>1, <2>2, <2>3 DEF Copies
<1>2. ASSUME UNCHANGED <<row, asked>>
      PROVE  RowIsAsked' /\ \A v, n : Known(v, n)' <=> Known(v, n)
  BY <1>2 DEF RowIsAsked, Known
<1>3. CASE DeleteMap
  BY <1>2, <1>3 DEF DeleteMap, Missing, Copies, config, poller
<1>4. ASSUME NEW p \in Pollers, PollControl(p) \/ CallFails(p) \/ CrashPoller(p) \/ ReportData(p)
      PROVE  RowIsAsked' /\ Copies'
  <2>1. UNCHANGED <<row, asked, map, writes>>
    BY <1>4 DEF PollControl, CallFails, CrashPoller, ReportData, config, cluster
  <2>2. CASE PollControl(p)
    BY <1>2, <2>1, <2>2 DEF PollControl, Copies, RowIsAsked, TypeOK
  <2>3. CASE CallFails(p)
    BY <1>2, <2>1, <2>3 DEF CallFails, Copies, TypeOK
  <2>4. CASE CrashPoller(p) \/ ReportData(p)
    BY <1>2, <2>1, <2>4 DEF CrashPoller, ReportData, Return, Copies, TypeOK
  <2> QED
    BY <1>4, <2>2, <2>3, <2>4
<1>5. ASSUME NEW p \in Pollers, ReadMap(p)
      PROVE  RowIsAsked' /\ Copies'
  <2>1. /\ UNCHANGED <<row, asked, map>>
        /\ writes' \subseteq writes \cup {Write(p, map.revision)}
        /\ \A q \in Pollers : pc'[q] # "idle" => pc[q] # "idle" /\ snap'[q] = snap[q]
    BY <1>5 DEF ReadMap, Return, TypeOK, config, cluster
  <2>2. Known(snap[p].version, snap[p].message)
    BY <1>5 DEF ReadMap, Copies
  <2> QED
    BY <1>2, <2>1, <2>2 DEF Copies, Write
<1>6. ASSUME NEW w \in writes, WriteLands(w)
      PROVE  RowIsAsked' /\ Copies'
  <2>1. /\ UNCHANGED <<row, asked, snap>> /\ writes' \subseteq writes
        /\ map' = map \/ (map'.version = w.version /\ map'.message = w.message)
        /\ \A q \in Pollers : pc'[q] # "idle" => pc[q] # "idle"
    BY <1>6 DEF WriteLands, TypeOK, config
  <2> QED
    BY <1>2, <2>1 DEF Copies
<1>7. ASSUME NEW r \in reports, ReportLands(r)
      PROVE  RowIsAsked' /\ Copies'
  BY <1>2, <1>7, ReportAppends DEF Copies, cluster, poller
<1>8. CASE UNCHANGED vars
  BY <1>2, <1>8 DEF vars, config, cluster, poller, Copies
<1> QED
  BY <1>1, <1>3, <1>4, <1>5, <1>6, <1>7, <1>8 DEF Next

LEMMA FreshStep == IInv /\ [Next]_vars => Fresh' /\ Newest'
<1> SUFFICES ASSUME IInv, [Next]_vars
             PROVE  Fresh' /\ Newest'
  OBVIOUS
<1> USE DEF IInv
<1>1. ASSUME UNCHANGED <<map, revision, writes, held, deletions>>
      PROVE  Fresh' /\ Newest'
  BY <1>1 DEF Fresh, Newest
<1>2. ASSUME NEW m \in Messages, EnsureTenant(m) \/ UpdateConfiguration(m)
      PROVE  Fresh' /\ Newest'
  BY <1>1, <1>2, AskGrows DEF cluster
<1>3. CASE DeleteMap
  <2>1. /\ map' = Missing /\ revision' = revision + 1
        /\ deletions' = deletions + 1 /\ UNCHANGED writes
    BY <1>3 DEF DeleteMap
  <2>2. deletions' # 0
    BY <2>1 DEF TypeOK
  <2>3. Fresh'
    BY <2>1 DEF Missing, Fresh, TypeOK
  <2> QED
    BY <2>2, <2>3 DEF Newest
<1>4. ASSUME NEW p \in Pollers, PollControl(p) \/ CallFails(p) \/ CrashPoller(p) \/ ReportData(p)
      PROVE  Fresh' /\ Newest'
  BY <1>1, <1>4 DEF PollControl, CallFails, CrashPoller, ReportData, cluster
<1>5. ASSUME NEW p \in Pollers, ReadMap(p)
      PROVE  Fresh' /\ Newest'
  <2>1. /\ UNCHANGED <<map, revision, held, deletions>>
        /\ \/ writes' = writes
           \/ map.version < snap[p].version /\ writes' = writes \cup {Write(p, map.revision)}
    BY <1>5 DEF ReadMap, cluster
  <2> QED
    BY <2>1 DEF Fresh, Newest, Write
<1>6. ASSUME NEW w \in writes, WriteLands(w)
      PROVE  Fresh' /\ Newest'
  <2>1. writes' \subseteq writes /\ UNCHANGED deletions
    BY <1>6 DEF WriteLands
  <2>2. CASE w.revision = map.revision
    <3>1. /\ map.version < w.version /\ map'.version = w.version
          /\ map'.revision = revision + 1 /\ revision' = revision + 1
          /\ held' = held \cup {w.version}
      BY <1>6, <2>2, LandsForward
    <3>2. Fresh'
      BY <2>1, <3>1 DEF Fresh, TypeOK
    <3>3. Newest'
      BY <2>1, <3>1 DEF Newest, TypeOK
    <3> QED
      BY <3>2, <3>3
  <2>3. CASE w.revision # map.revision
    BY <1>6, <2>1, <2>3 DEF WriteLands, Fresh, Newest
  <2> QED
    BY <2>2, <2>3
<1>7. ASSUME NEW r \in reports, ReportLands(r)
      PROVE  Fresh' /\ Newest'
  BY <1>1, <1>7, ReportAppends DEF cluster
<1>8. CASE UNCHANGED vars
  BY <1>1, <1>8 DEF vars, cluster
<1> QED
  BY <1>2, <1>3, <1>4, <1>5, <1>6, <1>7, <1>8 DEF Next

LEMMA WitnessedStep == IInv /\ [Next]_vars => Witnessed'
<1> SUFFICES ASSUME IInv, [Next]_vars
             PROVE  Witnessed'
  OBVIOUS
<1> USE DEF IInv, AppliedWasHeld
<1>1. ASSUME UNCHANGED <<events, held>>, map' = map \/ map'.version = 0,
             \A p \in Pollers : pc'[p] = "applied" => pc[p] = "applied" /\ snap'[p] = snap[p],
             UNCHANGED reports
      PROVE  Witnessed'
  BY <1>1 DEF Witnessed
<1>2. ASSUME NEW m \in Messages, EnsureTenant(m) \/ UpdateConfiguration(m)
      PROVE  Witnessed'
  BY <1>1, <1>2, AskGrows DEF cluster, poller
<1>3. CASE DeleteMap
  BY <1>1, <1>3 DEF DeleteMap, Missing, config, poller
<1>4. ASSUME NEW p \in Pollers, PollControl(p) \/ CallFails(p) \/ CrashPoller(p)
      PROVE  Witnessed'
  <2>1. /\ UNCHANGED <<events, held, map, reports>>
        /\ \A q \in Pollers : pc'[q] = "applied" => pc[q] = "applied" /\ snap'[q] = snap[q]
    BY <1>4 DEF PollControl, CallFails, CrashPoller, Return, TypeOK, config, cluster
  <2> QED
    BY <1>1, <2>1
<1>5. ASSUME NEW p \in Pollers, ReadMap(p)
      PROVE  Witnessed'
  <2>1. UNCHANGED <<events, held, map, reports>>
    BY <1>5 DEF ReadMap, config, cluster
  <2>2. \A q \in Pollers : pc'[q] = "applied" =>
           /\ snap'[q] = snap[q]
           /\ pc[q] = "applied" \/ (q = p /\ map.version = snap[p].version)
    BY <1>5 DEF ReadMap, Return, TypeOK
  <2>3. snap[p].version # 0 /\ map.version \in 0..MaxVersion
    BY <1>5 DEF ReadMap, Copies, Known, TypeOK
  <2>4. map.version = snap[p].version => snap[p].version \in held
    BY <2>3 DEF Witnessed
  <2> QED
    BY <2>1, <2>2, <2>4 DEF Witnessed
<1>6. ASSUME NEW p \in Pollers, ReportData(p)
      PROVE  Witnessed'
  <2>1. /\ UNCHANGED <<events, held, map>>
        /\ reports' = reports \cup {<<pc[p], snap[p].version>>}
        /\ \A q \in Pollers : pc'[q] = "applied" => pc[q] = "applied" /\ snap'[q] = snap[q]
    BY <1>6 DEF ReportData, Return, TypeOK, config, cluster
  <2> QED
    BY <2>1 DEF Witnessed
<1>7. ASSUME NEW w \in writes, WriteLands(w)
      PROVE  Witnessed'
  <2>1. UNCHANGED <<events, snap, reports>>
    BY <1>7 DEF WriteLands, config
  <2>2. held \subseteq held' /\ (map'.version > 0 => map'.version \in held')
    BY <1>7 DEF WriteLands, Witnessed
  <2>3. \A q \in Pollers : pc'[q] = "applied" =>
           pc[q] = "applied" \/ snap[q].version \in held'
    BY <1>7 DEF WriteLands, Write, TypeOK
  <2> QED
    BY <2>1, <2>2, <2>3 DEF Witnessed
<1>8. ASSUME NEW r \in reports, ReportLands(r)
      PROVE  Witnessed'
  <2>1. /\ r = <<r[1], r[2]>> /\ r[2] \in 1..MaxVersion
        /\ reports' \subseteq reports
        /\ events' = events \/ events' = Append(events, r)
        /\ UNCHANGED <<map, held, pc, snap>>
    BY <1>8, ReportAppends DEF cluster, poller
  <2>2. AppliedWasHeld'
    <3>1. r[1] = "applied" => r[2] \in held
      BY <2>1 DEF Witnessed
    <3>2. events \in Seq(Reports)
      BY DEF TypeOK
    <3> QED
      BY <2>1, <3>1, <3>2 DEF Witnessed
  <2> QED
    BY <2>1, <2>2 DEF Witnessed
<1>9. CASE UNCHANGED vars
  BY <1>1, <1>9 DEF vars, config, cluster, poller
<1> QED
  BY <1>2, <1>3, <1>4, <1>5, <1>6, <1>7, <1>8, <1>9 DEF Next

LEMMA TimelineStep == IInv /\ [Next]_vars => FailureOnlyBeforeSuccess'
<1> SUFFICES ASSUME IInv, [Next]_vars
             PROVE  FailureOnlyBeforeSuccess'
  OBVIOUS
<1>1. CASE events' = events
  BY <1>1 DEF IInv, FailureOnlyBeforeSuccess
<1>2. ASSUME NEW r \in reports, ReportLands(r)
      PROVE  FailureOnlyBeforeSuccess'
  <2>1. CASE events' = events
    BY <1>1, <2>1
  <2>2. CASE /\ events' = Append(events, r)
             /\ \A i \in 1..Len(events) : events[i] \notin {r, <<"applied", r[2]>>}
    <3>1. events \in Seq(Reports) /\ r \in Reports
      BY DEF IInv, TypeOK
    <3>2. r = <<r[1], r[2]>> /\ \A i \in 1..Len(events) :
             events[i] = <<events[i][1], events[i][2]>> /\ events[i][1] \in {"applied", "failed"}
      BY <3>1 DEF Reports
    <3>3. \A i \in 1..Len(events) : events[i][2] = r[2] => events[i][1] = "failed"
      BY <2>2, <3>2
    <3>4. \A i \in 1..Len(events) : events[i][2] = r[2] => r[1] = "applied"
      BY <2>2, <3>1, <3>2, <3>3 DEF Reports
    <3>5. /\ Len(events') = Len(events) + 1
          /\ \A i \in 1..Len(events) : events'[i] = events[i]
          /\ events'[Len(events) + 1] = r
      BY <2>2, <3>1
    <3>6. ASSUME NEW i \in 1..Len(events'), NEW j \in 1..Len(events'),
                 i < j, events'[i][2] = events'[j][2]
          PROVE  events'[i][1] = "failed" /\ events'[j][1] = "applied"
      <4>1. CASE j \in 1..Len(events)
        BY <3>1, <3>5, <3>6, <4>1 DEF IInv, FailureOnlyBeforeSuccess
      <4>2. CASE j = Len(events) + 1
        BY <3>1, <3>3, <3>4, <3>5, <3>6, <4>2
      <4> QED
        BY <3>1, <3>5, <4>1, <4>2
    <3> QED
      BY <3>6 DEF FailureOnlyBeforeSuccess
  <2> QED
    BY <1>2, <2>1, <2>2, ReportAppends DEF IInv
<1>3. ASSUME NEW m \in Messages, EnsureTenant(m) \/ UpdateConfiguration(m)
      PROVE  events' = events
  BY <1>3 DEF EnsureTenant, UpdateConfiguration
<1>4. ASSUME NEW p \in Pollers, PollControl(p) \/ ReadMap(p) \/ CallFails(p)
                                 \/ ReportData(p) \/ CrashPoller(p)
      PROVE  events' = events
  BY <1>4 DEF PollControl, ReadMap, CallFails, ReportData, CrashPoller, config
<1>5. ASSUME DeleteMap \/ (\E w \in writes : WriteLands(w)) \/ UNCHANGED vars
      PROVE  events' = events
  BY <1>5 DEF DeleteMap, WriteLands, vars, config
<1> QED
  BY <1>1, <1>2, <1>3, <1>4, <1>5 DEF Next

-----------------------------------------------------------------------------
(* The invariant *)

LEMMA InitInv == Init => IInv
<1> SUFFICES ASSUME Init
             PROVE  IInv
  OBVIOUS
<1>1. TypeOK
  BY BoundsAssumption DEF Init, TypeOK, Rows, NoRow, Missing
<1>2. RowIsAsked /\ Copies /\ Fresh /\ Newest
  BY DEF Init, RowIsAsked, Copies, Fresh, Newest, NoRow, Missing
<1>3. Witnessed /\ FailureOnlyBeforeSuccess
  BY DEF Init, Witnessed, AppliedWasHeld, FailureOnlyBeforeSuccess, Missing
<1> QED
  BY <1>1, <1>2, <1>3 DEF IInv

LEMMA InductiveInvariant == Spec => []IInv
<1>1. IInv /\ [Next]_vars => IInv'
  BY TypeStep, CopiesStep, FreshStep, WitnessedStep, TimelineStep DEF IInv
<1> QED
  BY InitInv, <1>1, PTL DEF Spec

-----------------------------------------------------------------------------
(* The theorems *)

\* Every reachable state is well typed, in-flight writes and reports included.
THEOREM TypeCorrect == Spec => []TypeOK
<1>1. IInv => TypeOK
  BY DEF IInv
<1> QED
  BY <1>1, InductiveInvariant, PTL

\* What the data API serves was asked for, whatever stale poller wrote it.
THEOREM OnlyAskedIsServed == Spec => []ServedIsAsked
<1>1. IInv => ServedIsAsked
  BY DEF IInv, TypeOK, Copies, RowIsAsked, Known, ServedIsAsked
<1> QED
  BY <1>1, InductiveInvariant, PTL

\* Control records a version as applied only if the ConfigMap had it.
THEOREM AppliedIsWitnessed == Spec => []AppliedWasHeld
<1>1. IInv => AppliedWasHeld
  BY DEF IInv, Witnessed
<1> QED
  BY <1>1, InductiveInvariant, PTL

\* The timeline has each report of a version once, and no failure after its success.
THEOREM TimelineOrdered == Spec => []FailureOnlyBeforeSuccess
<1>1. IInv => FailureOnlyBeforeSuccess
  BY DEF IInv
<1> QED
  BY <1>1, InductiveInvariant, PTL

\* While the status is "applied" and nobody deleted the ConfigMap, it is the one
\* that is desired now: a status that outlives its configuration is impossible.
THEOREM AppliedServes == Spec => []AppliedIsServed
<1>1. IInv => AppliedIsServed
  <2> SUFFICES ASSUME IInv, Status = "applied", deletions = 0
               PROVE  map.version = row.version /\ map.message = row.message
    BY DEF AppliedIsServed
  <2>1. row.version \in AppliedVersions
    BY DEF Status
  <2>2. row.version \in held /\ row.version \in 1..MaxVersion
    BY <2>1 DEF AppliedVersions, IInv, Witnessed, AppliedWasHeld
  <2>3. row.version <= map.version
    BY <2>2 DEF IInv, Newest
  <2>4. /\ map.version \in 1..Len(asked) /\ map.message = asked[map.version]
        /\ Len(asked) = row.version /\ row.message = asked[row.version]
    BY <2>2, <2>3, BoundsAssumption DEF IInv, TypeOK, Copies, RowIsAsked, Known
  <2> QED
    BY <2>2, <2>3, <2>4
<1> QED
  BY <1>1, InductiveInvariant, PTL

-----------------------------------------------------------------------------
(* The implementation of the promise *)

LEMMA PromiseInit == Init => Promise!Init
  BY DEF Init, Promise!Init, NoRow, Missing, AppliedVersions

LEMMA PromiseStep == IInv /\ [Next]_vars => [Promise!Next]_(Promise!vars)
<1> SUFFICES ASSUME IInv, [Next]_vars
             PROVE  [Promise!Next]_(Promise!vars)
  OBVIOUS
<1> USE DEF Promise!vars
<1>1. ASSUME events' = events
      PROVE  AppliedVersions' = AppliedVersions
  BY <1>1 DEF AppliedVersions
<1>2. ASSUME NEW m \in Messages, EnsureTenant(m) \/ UpdateConfiguration(m)
      PROVE  Promise!Ask
  <2>1. row'.version = row.version + 1 /\ UNCHANGED <<events, cluster>>
    BY <1>2, AskGrows DEF IInv
  <2> QED
    BY <1>1, <2>1 DEF Promise!Ask, cluster
<1>3. CASE DeleteMap
  BY <1>1, <1>3 DEF DeleteMap, Missing, config, Promise!Next, Promise!Withdraw
<1>4. ASSUME NEW p \in Pollers, PollControl(p) \/ ReadMap(p) \/ CallFails(p)
                                 \/ ReportData(p) \/ CrashPoller(p)
      PROVE  UNCHANGED Promise!vars
  <2>1. UNCHANGED <<config, cluster>>
    BY <1>4 DEF PollControl, ReadMap, CallFails, ReportData, CrashPoller
  <2> QED
    BY <1>1, <2>1 DEF config, cluster
<1>5. ASSUME NEW w \in writes, WriteLands(w)
      PROVE  Promise!Serve \/ UNCHANGED Promise!vars
  <2>1. UNCHANGED <<row, events>>
    BY <1>5 DEF WriteLands, config
  <2>2. CASE w.revision = map.revision
    <3>1. /\ map.version < w.version /\ map'.version = w.version
          /\ held' = held \cup {w.version}
      BY <1>5, <2>2, LandsForward DEF IInv
    <3>2. w.version \in (map.version + 1)..row.version
      BY <3>1 DEF IInv, TypeOK, Copies, RowIsAsked, Known
    <3> QED
      BY <1>1, <2>1, <3>1, <3>2 DEF Promise!Serve
  <2>3. CASE w.revision # map.revision
    BY <1>1, <1>5, <2>1, <2>3 DEF WriteLands
  <2> QED
    BY <2>2, <2>3
<1>6. ASSUME NEW r \in reports, ReportLands(r)
      PROVE  Promise!Acknowledge \/ UNCHANGED Promise!vars
  <2>1. /\ r = <<r[1], r[2]>> /\ r[2] \in 1..MaxVersion
        /\ r[1] \in {"applied", "failed"}
        /\ events' = events \/ events' = Append(events, r)
        /\ UNCHANGED <<row, map, held>>
    BY <1>6, ReportAppends DEF IInv, cluster
  <2>2. CASE events' = events
    BY <1>1, <2>1, <2>2
  <2>3. CASE events' = Append(events, r)
    <3>1. events \in Seq(Reports)
      BY DEF IInv, TypeOK
    <3>2. /\ Len(events') = Len(events) + 1 /\ events'[Len(events) + 1] = r
          /\ \A i \in 1..Len(events) : events'[i] = events[i]
      BY <2>3, <3>1
    <3> DEFINE Was(v) == \E i \in 1..Len(events) : events[i] = <<"applied", v>>
               Is(v) == \E i \in 1..Len(events') : events'[i] = <<"applied", v>>
    <3>3. ASSUME NEW v \in 1..MaxVersion
          PROVE  Is(v) <=> Was(v) \/ r = <<"applied", v>>
      <4>1. Len(events) \in Nat
        BY <3>1
      <4>2. ASSUME Is(v) PROVE Was(v) \/ r = <<"applied", v>>
        <5>1. PICK i \in 1..(Len(events) + 1) : events'[i] = <<"applied", v>>
          BY <3>2, <4>2
        <5>2. i \in 1..Len(events) \/ i = Len(events) + 1
          BY <4>1
        <5> QED
          BY <3>2, <5>1, <5>2
      <4>3. ASSUME Was(v) PROVE Is(v)
        <5>1. PICK i \in 1..Len(events) : events[i] = <<"applied", v>>
          BY <4>3
        <5>2. i \in 1..Len(events') /\ events'[i] = <<"applied", v>>
          BY <3>2, <4>1, <5>1
        <5> QED
          BY <5>2
      <4>4. ASSUME r = <<"applied", v>> PROVE Is(v)
        <5>1. Len(events) + 1 \in 1..Len(events')
          BY <3>2, <4>1
        <5> QED
          BY <3>2, <4>4, <5>1
      <4> HIDE DEF Is, Was
      <4> QED
        BY <4>2, <4>3, <4>4
    <3>4. AppliedVersions = {v \in 1..MaxVersion : Was(v)}
      BY DEF AppliedVersions
    <3>5. AppliedVersions' = {v \in 1..MaxVersion : Is(v)}
      BY DEF AppliedVersions
    <3> HIDE DEF Is, Was
    <3>6. CASE r[1] = "applied"
      <4>1. r[2] \in held
        BY <2>1, <3>6 DEF IInv, Witnessed
      <4>2. \A v \in 1..MaxVersion : r = <<"applied", v>> <=> v = r[2]
        BY <2>1, <3>6
      <4>3. AppliedVersions' = AppliedVersions \cup {r[2]}
        BY <2>1, <3>3, <3>4, <3>5, <4>2
      <4> QED
        BY <2>1, <4>1, <4>3 DEF Promise!Acknowledge
    <3>7. CASE r[1] = "failed"
      <4>1. \A v \in 1..MaxVersion : r # <<"applied", v>>
        BY <2>1, <3>7
      <4>2. AppliedVersions' = AppliedVersions
        BY <3>3, <3>4, <3>5, <4>1
      <4> QED
        BY <2>1, <4>2
    <3> QED
      BY <2>1, <3>6, <3>7
  <2> QED
    BY <2>1, <2>2, <2>3
<1>7. CASE UNCHANGED vars
  BY <1>1, <1>7 DEF vars, config, cluster
<1> QED
  BY <1>2, <1>3, <1>4, <1>5, <1>6, <1>7 DEF Next, Promise!Next

\* The planes keep their promise: versions are desired one after the other, what
\* is served moves to a newer desired version or is withdrawn, and what is
\* reported as applied was served.
THEOREM Implementation == Spec => ImplementsPromise
<1>1. IInv /\ [Next]_vars => [Promise!Next]_(Promise!vars)
  BY PromiseStep
<1> QED
  BY PromiseInit, <1>1, InductiveInvariant, PTL DEF Spec, ImplementsPromise, Promise!Spec

-----------------------------------------------------------------------------
(* Onboarding: from an offered pair to a tenant that is ready *)

Kinds == {"created", "failed"}

\* a tenant has a pair exactly since it was accepted
Placed == \A t \in Tenants : IF phase[t] = "none" THEN placement[t] = NoPair
                                                  ELSE placement[t] \in Pairs

\* a reconciler in the middle of a tenant has one
Working == \A q \in Onboard!Reconcilers :
    place[q] \in {"ensuring", "created", "failed"} => at[q] \in Tenants

Histories == {<<>>, <<"failed">>, <<"created">>, <<"failed", "created">>}

\* what the timeline of a tenant may be
Short == \A t \in Tenants : log[t] \in Histories

\* whoever says or is about to say that a record was created is right
Supported ==
    /\ \A q \in Onboard!Reconcilers : place[q] = "created" => at[q] \in record
    /\ \A t \in Tenants : <<t, "created">> \in told => t \in record
    /\ Onboard!ReadyHasRecord

FinishedPair(x) == \E s \in Tenants : phase[s] = "succeeded" /\ placement[s] = x

\* only tenants of finished pairs are read, called for or recorded
Deserved ==
    /\ \A x \in offered : FinishedPair(x)
    /\ \A q \in Onboard!Reconcilers : \A t \in batch[q] : FinishedPair(placement[t])
    /\ \A q \in Onboard!Reconcilers, t \in Tenants :
          <<q, t>> \in calls => FinishedPair(placement[t])
    /\ \A t \in record : FinishedPair(placement[t])

Onboarded == Onboard!TypeOK /\ Placed /\ Working /\ Short /\ Supported /\ Deserved

-----------------------------------------------------------------------------
(* Recording a report *)

\* one more report leaves the timeline one of the four
LEMMA RecordedShort ==
    ASSUME NEW h \in Histories, NEW k \in Kinds
    PROVE  /\ Onboard!Recorded(h, k, "created") \in Histories
           /\ \A i \in 1..Len(Onboard!Recorded(h, k, "created")) :
                 Onboard!Recorded(h, k, "created")[i] = "created" =>
                     k = "created" \/ \E j \in 1..Len(h) : h[j] = "created"
<1>1. CASE h = <<>>
  <2>1. Onboard!Recorded(h, k, "created") = <<k>>
    BY <1>1 DEF Onboard!Recorded
  <2> QED
    BY <2>1 DEF Histories, Kinds
<1>2. CASE h = <<"failed">>
  <2>1. CASE k = "failed"
    <3>1. 1 \in 1..Len(h) /\ h[1] \in {k, "created"}
      BY <1>2, <2>1
    <3>2. Onboard!Recorded(h, k, "created") = h
      BY <3>1 DEF Onboard!Recorded
    <3> QED
      BY <3>2
  <2>2. CASE k = "created"
    <3>1. ~ \E i \in 1..Len(h) : h[i] \in {k, "created"}
      BY <1>2, <2>2
    <3>2. Onboard!Recorded(h, k, "created") = Append(h, "created")
      BY <2>2, <3>1 DEF Onboard!Recorded
    <3> QED
      BY <1>2, <2>2, <3>2 DEF Histories
  <2> QED
    BY <2>1, <2>2 DEF Kinds
<1>3. CASE h = <<"created">> \/ h = <<"failed", "created">>
  <2>1. \E i \in 1..Len(h) : h[i] = "created"
    BY <1>3
  <2>2. Onboard!Recorded(h, k, "created") = h
    BY <2>1 DEF Onboard!Recorded
  <2> QED
    BY <2>1, <2>2
<1> QED
  BY <1>1, <1>2, <1>3 DEF Histories

LEMMA HistoriesAreLogs == Histories \subseteq Seq(Kinds)
  BY DEF Histories, Kinds

-----------------------------------------------------------------------------
(* The steps of management *)

\* whatever management does, tenants stay where they are and finished pairs finished
LEMMA ManagementKeeps ==
    ASSUME Onboard!TypeOK, Placed, \A x \in offered : FinishedPair(x),
           Onboard!Management!Next
    PROVE  /\ phase' \in [Tenants -> {"none", "pending", "running",
                                      "succeeded", "failed", "interrupted"}]
           /\ placement' \in [Tenants -> Pairs \cup {NoPair}]
           /\ offered' \subseteq Pairs
           /\ Placed'
           /\ \A t \in Tenants : FinishedPair(placement[t]) =>
                 FinishedPair(placement[t])' /\ placement'[t] = placement[t]
           /\ \A x \in offered' : FinishedPair(x)'
<1> USE DEF Onboard!TypeOK, Placed, FinishedPair
<1>1. PICK t \in Tenants :
         \/ \E x \in Pairs : Onboard!Management!Accept(t, x)
         \/ Onboard!Management!Start(t) \/ Onboard!Management!Succeed(t) \/ Onboard!Management!GiveUp(t)
  BY DEF Onboard!Management!Next
<1>2. CASE \E x \in Pairs : Onboard!Management!Accept(t, x)
  <2>1. PICK x \in Pairs : Onboard!Management!Accept(t, x)
    BY <1>2
  <2>2. /\ phase[t] = "none" /\ placement[t] = NoPair
        /\ phase' = [phase EXCEPT ![t] = "pending"]
        /\ placement' = [placement EXCEPT ![t] = x]
        /\ offered' = offered
    BY <2>1 DEF Onboard!Management!Accept
  <2>3. \A s \in Tenants : phase[s] = "succeeded" =>
           s # t /\ phase'[s] = "succeeded" /\ placement'[s] = placement[s] /\ placement[s] \in Pairs
    BY <2>2
  <2>4. ~ FinishedPair(NoPair)
    BY <2>3, PairsAssumption
  <2>5. \A y : FinishedPair(y) => FinishedPair(y)'
    BY <2>3
  <2>6. \A s \in Tenants : FinishedPair(placement[s]) => placement'[s] = placement[s]
    BY <2>2, <2>4
  <2>7. Placed' /\ phase' \in [Tenants -> {"none", "pending", "running",
                                      "succeeded", "failed", "interrupted"}]
        /\ placement' \in [Tenants -> Pairs \cup {NoPair}]
    BY <2>2
  <2>8. \A y \in offered' : FinishedPair(y)'
    BY <2>2, <2>5
  <2>9. \A s \in Tenants : FinishedPair(placement[s]) => FinishedPair(placement[s])'
    BY <2>3, <2>6
  <2>10. offered' \subseteq Pairs
    BY <2>2
  <2> QED
    BY <2>6, <2>7, <2>8, <2>9, <2>10
<1>3. CASE Onboard!Management!Start(t)
  BY <1>3 DEF Onboard!Management!Start
<1>4. CASE Onboard!Management!Succeed(t)
  BY <1>4 DEF Onboard!Management!Succeed
<1>5. CASE Onboard!Management!GiveUp(t)
  BY <1>5 DEF Onboard!Management!GiveUp
<1> QED
  BY <1>1, <1>2, <1>3, <1>4, <1>5

-----------------------------------------------------------------------------
(* Every step preserves the invariant *)

\* types, places and timelines
RowInv == Onboard!TypeOK /\ Placed /\ Working /\ Short

LEMMA RowStep == Onboarded /\ [Onboard!Next]_Onboard!vars => RowInv'
<1> SUFFICES ASSUME Onboarded, [Onboard!Next]_Onboard!vars
             PROVE  RowInv'
  OBVIOUS
<1> USE DEF Onboarded, RowInv, Working, Short
<1>1. CASE Onboard!ManagementStep
  <2>1. /\ Onboard!Management!Next
        /\ UNCHANGED <<log, record, place, batch, at, calls, told>>
    BY <1>1 DEF Onboard!ManagementStep, Onboard!reconciler
  <2>2. \A x \in offered : FinishedPair(x)
    BY DEF Deserved
  <2> QED
    BY <2>1, <2>2, ManagementKeeps DEF Onboard!TypeOK
<1>2. ASSUME NEW q \in Onboard!Reconcilers,
             Onboard!PollTenants(q) \/ Onboard!EndPoll(q) \/ Onboard!EnsureFails(q)
                                       \/ Onboard!CrashReconciler(q)
      PROVE  RowInv'
  BY <1>2 DEF Onboard!PollTenants, Onboard!EndPoll, Onboard!EnsureFails,
       Onboard!CrashReconciler, Onboard!management, Onboard!TypeOK, Placed
<1>3. ASSUME NEW q \in Onboard!Reconcilers, Onboard!ReportControl(q)
      PROVE  RowInv'
  <2>1. /\ place[q] \in {"created", "failed"} /\ at[q] \in Tenants
        /\ told' = told \cup {<<at[q], place[q]>>}
        /\ at' = [at EXCEPT ![q] = NoTenant] /\ place' = [place EXCEPT ![q] = "polled"]
        /\ UNCHANGED <<phase, placement, offered, log, record, batch, calls>>
    BY <1>3 DEF Onboard!ReportControl, Onboard!management
  <2> QED
    BY <2>1 DEF Onboard!TypeOK, Placed
<1>4. ASSUME NEW q \in Onboard!Reconcilers, NEW t \in Tenants,
             Onboard!CallEnsure(q, t) \/ Onboard!EnsureLands(q, t)
      PROVE  RowInv'
  <2>1. CASE Onboard!CallEnsure(q, t)
    <3>1. /\ batch' = [batch EXCEPT ![q] = @ \ {t}] /\ at' = [at EXCEPT ![q] = t]
          /\ place' = [place EXCEPT ![q] = "ensuring"] /\ calls' = calls \cup {<<q, t>>}
          /\ UNCHANGED <<phase, placement, offered, log, record, told>>
      BY <2>1 DEF Onboard!CallEnsure, Onboard!management
    <3>2. batch' \in [Onboard!Reconcilers -> SUBSET Tenants]
      BY <3>1 DEF Onboard!TypeOK
    <3>3. Working'
      BY <3>1 DEF Onboard!TypeOK
    <3> QED
      BY <3>1, <3>2, <3>3 DEF Onboard!TypeOK, Placed
  <2>2. CASE Onboard!EnsureLands(q, t)
    <3>1. /\ calls' \subseteq calls /\ record' = record \cup {t}
          /\ \/ place[q] = "ensuring" /\ place' = [place EXCEPT ![q] = "created"]
             \/ place' = place
          /\ UNCHANGED <<phase, placement, offered, log, batch, at, told>>
      BY <2>2 DEF Onboard!EnsureLands, Onboard!management
    <3>2. Working' /\ place' \in
             [Onboard!Reconcilers -> {"idle", "polled", "ensuring", "created", "failed"}]
      BY <3>1 DEF Onboard!TypeOK
    <3> QED
      BY <3>1, <3>2 DEF Onboard!TypeOK, Placed
  <2> QED
    BY <1>4, <2>1, <2>2
<1>5. ASSUME NEW r \in told, Onboard!ReportLands(r)
      PROVE  RowInv'
  <2>1. /\ r[1] \in Tenants /\ r[2] \in Kinds
        /\ told' \subseteq told
        /\ log' = [log EXCEPT ![r[1]] = Onboard!Recorded(@, r[2], "created")]
        /\ UNCHANGED <<phase, placement, offered, record, place, batch, at, calls>>
    BY <1>5 DEF Onboard!ReportLands, Onboard!management, Onboard!reconciler, Onboard!TypeOK, Kinds
  <2>2. Onboard!Recorded(log[r[1]], r[2], "created") \in Histories
    BY <2>1, RecordedShort
  <2>3. Short'
    BY <2>1, <2>2 DEF Onboard!TypeOK
  <2>4. log' \in [Tenants -> Seq(Kinds)]
    BY <2>1, <2>2, HistoriesAreLogs DEF Onboard!TypeOK, Kinds
  <2> QED
    BY <2>1, <2>3, <2>4 DEF Onboard!TypeOK, Placed, Kinds
<1>6. CASE UNCHANGED Onboard!vars
  BY <1>6 DEF Onboard!vars, Onboard!management, Onboard!reconciler, Onboard!TypeOK, Placed
<1> QED
  BY <1>1, <1>2, <1>3, <1>4, <1>5, <1>6 DEF Onboard!Next

LEMMA SupportedStep == Onboarded /\ [Onboard!Next]_Onboard!vars => Supported'
<1> SUFFICES ASSUME Onboarded, [Onboard!Next]_Onboard!vars
             PROVE  Supported'
  OBVIOUS
<1> USE DEF Onboarded, Supported, Onboard!ReadyHasRecord, Onboard!Ready, Onboard!Reported
<1>1. CASE Onboard!ManagementStep
  BY <1>1 DEF Onboard!ManagementStep, Onboard!reconciler
<1>2. ASSUME NEW q \in Onboard!Reconcilers,
             Onboard!PollTenants(q) \/ Onboard!EndPoll(q) \/ Onboard!EnsureFails(q)
                                       \/ Onboard!CrashReconciler(q)
      PROVE  Supported'
  BY <1>2 DEF Onboard!PollTenants, Onboard!EndPoll, Onboard!EnsureFails,
       Onboard!CrashReconciler, Onboard!TypeOK
<1>3. ASSUME NEW q \in Onboard!Reconcilers, Onboard!ReportControl(q)
      PROVE  Supported'
  BY <1>3 DEF Onboard!ReportControl, Onboard!TypeOK
<1>4. ASSUME NEW q \in Onboard!Reconcilers, NEW t \in Tenants,
             Onboard!CallEnsure(q, t) \/ Onboard!EnsureLands(q, t)
      PROVE  Supported'
  BY <1>4 DEF Onboard!CallEnsure, Onboard!EnsureLands, Onboard!TypeOK
<1>5. ASSUME NEW r \in told, Onboard!ReportLands(r)
      PROVE  Supported'
  <2>1. /\ r = <<r[1], r[2]>> /\ r[1] \in Tenants /\ r[2] \in Kinds
        /\ told' \subseteq told
        /\ log' = [log EXCEPT ![r[1]] = Onboard!Recorded(@, r[2], "created")]
        /\ UNCHANGED <<record, place, at>>
    BY <1>5 DEF Onboard!ReportLands, Onboard!reconciler, Onboard!TypeOK, Kinds
  <2>2. \A t \in Tenants : Onboard!Ready(t)' => Onboard!Ready(t) \/ r = <<t, "created">>
    <3> TAKE t \in Tenants
    <3>1. CASE t = r[1]
      <4>1. log'[t] = Onboard!Recorded(log[t], r[2], "created") /\ log[t] \in Histories
        BY <2>1, <3>1 DEF Onboard!TypeOK, Short
      <4> QED
        BY <2>1, <3>1, <4>1, RecordedShort
    <3>2. CASE t # r[1]
      BY <2>1, <3>2 DEF Onboard!TypeOK
    <3> QED
      BY <3>1, <3>2
  <2> QED
    BY <1>5, <2>1, <2>2
<1>6. CASE UNCHANGED Onboard!vars
  BY <1>6 DEF Onboard!vars, Onboard!reconciler
<1> QED
  BY <1>1, <1>2, <1>3, <1>4, <1>5, <1>6 DEF Onboard!Next

LEMMA DeservedStep == Onboarded /\ [Onboard!Next]_Onboard!vars => Deserved'
<1> SUFFICES ASSUME Onboarded, [Onboard!Next]_Onboard!vars
             PROVE  Deserved'
  OBVIOUS
<1> USE DEF Onboarded, Deserved
<1>1. CASE Onboard!ManagementStep
  <2>1. /\ Onboard!Management!Next
        /\ UNCHANGED <<log, record, place, batch, at, calls, told>>
    BY <1>1 DEF Onboard!ManagementStep, Onboard!reconciler
  <2>2. \A t \in Tenants : FinishedPair(placement[t]) => FinishedPair(placement[t])'
    BY <2>1, ManagementKeeps
  <2>3. \A x \in offered' : FinishedPair(x)'
    BY <2>1, ManagementKeeps
  <2>4. record \subseteq Tenants /\ \A q \in Onboard!Reconcilers : batch[q] \subseteq Tenants
    BY DEF Onboard!TypeOK
  <2> QED
    BY <2>1, <2>2, <2>3, <2>4
<1>2. ASSUME UNCHANGED Onboard!management
      PROVE  \A x : FinishedPair(x)' <=> FinishedPair(x)
  BY <1>2 DEF Onboard!management, FinishedPair
<1>3. ASSUME NEW q \in Onboard!Reconcilers,
             Onboard!PollTenants(q) \/ Onboard!EndPoll(q) \/ Onboard!EnsureFails(q)
                 \/ Onboard!CrashReconciler(q) \/ Onboard!ReportControl(q)
      PROVE  Deserved'
  <2>1. UNCHANGED <<Onboard!management, record, calls>>
    BY <1>3 DEF Onboard!PollTenants, Onboard!EndPoll, Onboard!EnsureFails,
         Onboard!CrashReconciler, Onboard!ReportControl
  <2>2. \A y \in Onboard!Reconcilers : \A t \in batch'[y] : FinishedPair(placement[t])
    <3>1. CASE Onboard!PollTenants(q)
      <4>1. /\ batch' = [batch EXCEPT ![q] =
                  {t \in Tenants : placement[t] = q[1] /\ q[1] \in offered}]
        BY <3>1 DEF Onboard!PollTenants
      <4>2. batch'[q] = {t \in Tenants : placement[t] = q[1] /\ q[1] \in offered}
        BY <4>1 DEF Onboard!TypeOK
      <4>3. \A y \in Onboard!Reconcilers : y # q => batch'[y] = batch[y]
        BY <4>1 DEF Onboard!TypeOK
      <4> QED
        BY <4>2, <4>3
    <3>2. CASE Onboard!CrashReconciler(q)
      BY <3>2 DEF Onboard!CrashReconciler, Onboard!TypeOK
    <3>3. CASE Onboard!EndPoll(q) \/ Onboard!EnsureFails(q) \/ Onboard!ReportControl(q)
      BY <3>3 DEF Onboard!EndPoll, Onboard!EnsureFails, Onboard!ReportControl
    <3> QED
      BY <1>3, <3>1, <3>2, <3>3
  <2> QED
    BY <1>2, <2>1, <2>2 DEF Onboard!management
<1>4. ASSUME NEW q \in Onboard!Reconcilers, NEW t \in Tenants,
             Onboard!CallEnsure(q, t) \/ Onboard!EnsureLands(q, t)
      PROVE  Deserved'
  <2>1. UNCHANGED Onboard!management
    BY <1>4 DEF Onboard!CallEnsure, Onboard!EnsureLands
  <2>2. FinishedPair(placement[t])
    BY <1>4 DEF Onboard!CallEnsure, Onboard!EnsureLands
  <2>3. /\ \A y \in Onboard!Reconcilers : batch'[y] \subseteq batch[y]
        /\ calls' \subseteq calls \cup {<<q, t>>} /\ record' \subseteq record \cup {t}
    <3>1. CASE Onboard!CallEnsure(q, t)
      <4>1. /\ batch' = [batch EXCEPT ![q] = @ \ {t}]
            /\ calls' = calls \cup {<<q, t>>} /\ record' = record
        BY <3>1 DEF Onboard!CallEnsure
      <4>2. \A y \in Onboard!Reconcilers : batch'[y] \subseteq batch[y]
        BY <4>1 DEF Onboard!TypeOK
      <4> QED
        BY <4>1, <4>2
    <3>2. CASE Onboard!EnsureLands(q, t)
      BY <3>2 DEF Onboard!EnsureLands
    <3> QED
      BY <1>4, <3>1, <3>2
  <2> QED
    BY <1>2, <2>1, <2>2, <2>3 DEF Onboard!management
<1>5. ASSUME NEW r \in told, Onboard!ReportLands(r)
      PROVE  Deserved'
  BY <1>2, <1>5 DEF Onboard!ReportLands, Onboard!reconciler, Onboard!management
<1>6. CASE UNCHANGED Onboard!vars
  BY <1>2, <1>6 DEF Onboard!vars, Onboard!reconciler, Onboard!management
<1> QED
  BY <1>1, <1>3, <1>4, <1>5, <1>6 DEF Onboard!Next

-----------------------------------------------------------------------------
(* The theorems *)

LEMMA OnboardedInit == Onboard!Init => Onboarded
<1> SUFFICES ASSUME Onboard!Init
             PROVE  Onboarded
  OBVIOUS
<1> USE DEF Onboard!Init, Onboard!Management!Init
<1>1. Onboard!TypeOK
  BY DEF Onboard!TypeOK
<1>2. Placed /\ Working /\ Deserved
  BY DEF Placed, Working, Deserved
<1>3. Short
  BY DEF Short, Histories
<1>4. Supported
  BY DEF Supported, Onboard!ReadyHasRecord, Onboard!Ready, Onboard!Reported
<1> QED
  BY <1>1, <1>2, <1>3, <1>4 DEF Onboarded

LEMMA OnboardedAlways == Onboard!Spec => []Onboarded
<1>1. Onboarded /\ [Onboard!Next]_Onboard!vars => Onboarded'
  BY RowStep, SupportedStep, DeservedStep DEF Onboarded, RowInv
<1> QED
  BY OnboardedInit, <1>1, PTL DEF Onboard!Spec

\* Every reachable state is well typed: reconcilers, calls and reports included.
THEOREM OnboardingTypeCorrect == Onboard!Spec => []Onboard!TypeOK
<1>1. Onboarded => Onboard!TypeOK
  BY DEF Onboarded
<1> QED
  BY <1>1, OnboardedAlways, PTL

\* Management never answers "ready" without a record in control, for any number
\* of reconcilers, lost answers, late reports and crashes.
THEOREM ReadyIsRecorded == Onboard!Spec => []ReadyHasRecord
<1>1. Onboarded => ReadyHasRecord
  BY DEF Onboarded, Supported, ReadyHasRecord
<1> QED
  BY <1>1, OnboardedAlways, PTL

\* No record is ever created on a pair that no operation finished, although the
\* reconcilers work from rows read long before.
THEOREM RecordDeserved == Onboard!Spec => []RecordOnFinishedPair
<1>1. Onboarded => RecordOnFinishedPair
  BY DEF Onboarded, Deserved, FinishedPair, RecordOnFinishedPair,
       Onboard!RecordOnFinishedPair
<1> QED
  BY <1>1, OnboardedAlways, PTL

\* What clients poll only moves forward, whatever reports are late or repeated.
THEOREM ReportsForward == Onboard!Spec => []ReportsMoveForward
<1>1. Onboarded => ReportsMoveForward
  <2> SUFFICES ASSUME Onboarded, NEW t \in Tenants
               PROVE  /\ log[t] \in Histories
                      /\ log[t] # <<>> => Onboard!ControlRecord(t) = log[t][Len(log[t])]
    BY DEF ReportsMoveForward, Onboard!ReportsMoveForward, Histories
  <2>1. log[t] \in Histories
    BY DEF Onboarded, Short
  <2>2. CASE log[t] = <<>>
    BY <2>1, <2>2
  <2>3. CASE log[t] = <<"failed">>
    <3>1. ~ Onboard!Reported(t, "created") /\ Onboard!Reported(t, "failed")
      BY <2>3 DEF Onboard!Reported
    <3> QED
      BY <2>1, <2>3, <3>1 DEF Onboard!ControlRecord, Onboard!Ready
  <2>4. CASE log[t] = <<"created">> \/ log[t] = <<"failed", "created">>
    <3>1. Onboard!Reported(t, "created")
      <4>1. CASE log[t] = <<"created">>
        <5>1. 1 \in 1..Len(log[t]) /\ log[t][1] = "created"
          BY <4>1
        <5> QED
          BY <5>1 DEF Onboard!Reported
      <4>2. CASE log[t] = <<"failed", "created">>
        <5>1. 2 \in 1..Len(log[t]) /\ log[t][2] = "created"
          BY <4>2
        <5> QED
          BY <5>1 DEF Onboard!Reported
      <4> QED
        BY <2>4, <4>1, <4>2
    <3> QED
      BY <2>1, <2>4, <3>1 DEF Onboard!ControlRecord, Onboard!Ready
  <2> QED
    BY <2>1, <2>2, <2>3, <2>4 DEF Histories
<1> QED
  BY <1>1, OnboardedAlways, PTL

=============================================================================
