---------------------------- MODULE FaultJournal ----------------------------
(***************************************************************************)
(* The fault helper (scripts/harness/fault-parent-link.py, live Azure      *)
(* path).  `make fault` blocks the parent link of one reconciler with a    *)
(* network policy and restores it; `make fault ARGS=--restore` restores    *)
(* what a run left behind.  All they share is the cluster: the policies,   *)
(* and one ConfigMap per component, the journal, which says what may have  *)
(* been done and is written before it is done.                             *)
(*                                                                         *)
(* A new journal is created without its uid and then sealed with it.       *)
(* Every later write replaces the object whose resource version the        *)
(* writer saw last.                                                        *)
(*                                                                         *)
(* A helper may die anywhere.  A request is answered, takes effect without *)
(* an answer, or fails; one that was given up does not take effect later.  *)
(* As the guides say, a restore begins when no run is in progress          *)
(* (RUN_AZURE_SCENARIOS.md, "Interrupted fault"); runs start at any time.  *)
(*                                                                         *)
(* Abstracted: the identity of cluster, namespace, pod and parent (a       *)
(* mismatch fails the step), policies that are not faults, the probes'     *)
(* answers while the fault is active, and timestamps.                      *)
(***************************************************************************)
CONSTANTS
    Runs,       \* runs of the helper; each has a run id and a policy of its own
    Restorers,  \* operators who call --restore
    NoJournal,  \* the component never had a journal
    NoRun       \* a restorer has not read a journal

Helpers == Runs \cup Restorers

VARIABLES
    journal,   \* the ConfigMap: its record and its uid seal
    policies,  \* the runs whose policy is in the cluster
    current,   \* helpers whose last view of the journal is its present version
    pc,        \* where each helper is
    holds,     \* the run of the record a helper holds
    plan,      \* what that record says of the policy
    seen       \* the journal in a helper's memory: none, unsealed or sealed

cluster == <<journal, policies>>
memory == <<holds, plan, seen>>
vars == <<cluster, current, pc, memory>>

Records == [run : Runs, attempted : BOOLEAN, restored : BOOLEAN, sealed : BOOLEAN]

Writing == {"creatingJournal", "sealing", "reusing", "planning", "committed", "creating", "blocking"}
Restoring == {"restoring", "looking", "deleting", "confirming", "probing"}
Closing == {"cancelling", "saving", "saved", "failing"}

TypeOK ==
    /\ journal \in Records \cup {NoJournal}
    /\ policies \subseteq Runs
    /\ current \subseteq Helpers
    /\ pc \in [Helpers -> {"idle", "cleared", "ended"} \cup Writing \cup Restoring \cup Closing]
    /\ holds \in [Helpers -> Runs \cup {NoRun}]
    /\ plan \in [Helpers -> {"none", "planned", "attempted"}]
    /\ seen \in [Helpers -> {"none", "unsealed", "sealed"}]

Init ==
    /\ journal = NoJournal
    /\ policies = {}
    /\ current = {}
    /\ pc = [h \in Helpers |-> "idle"]
    /\ holds = [h \in Helpers |-> IF h \in Runs THEN h ELSE NoRun]
    /\ plan = [h \in Helpers |-> "none"]
    /\ seen = [h \in Helpers |-> "none"]

-----------------------------------------------------------------------------
(* Helpers of the actions *)

Go(h, place) == pc' = [pc EXCEPT ![h] = place]

\* the process ends; a restorer may be called again, a run has had its turn
End(h) ==
    /\ Go(h, IF h \in Runs THEN "ended" ELSE "idle")
    /\ holds' = [holds EXCEPT ![h] = IF h \in Runs THEN h ELSE NoRun]
    /\ plan' = [plan EXCEPT ![h] = "none"]
    /\ seen' = [seen EXCEPT ![h] = "none"]

\* an error: activation goes on to restore, restoration to record that it failed
Fail(h) ==
    \/ /\ pc[h] \in Writing \ {"creatingJournal"}
       /\ Go(h, "restoring")
       /\ UNCHANGED memory
    \/ /\ pc[h] \in Restoring /\ seen[h] = "sealed"
       /\ Go(h, "failing")
       /\ UNCHANGED memory
    \/ /\ \/ pc[h] \in Closing \cup {"cleared", "creatingJournal"}
          \/ pc[h] = "restoring" /\ seen[h] = "unsealed"
       /\ End(h)

\* replace the journal; h sees the result unless the answer is lost
Replace(h, record) ==
    /\ h \in current
    /\ journal' = record
    /\ current' \in {{h}, {}}
    /\ UNCHANGED policies

Answered(h) == h \in current'

\* the replacement was refused: somebody changed the journal since
Conflict(h) ==
    /\ h \notin current
    /\ Fail(h)
    /\ UNCHANGED <<cluster, current>>

-----------------------------------------------------------------------------
(* Activation *)

\* prepare_fault: no fault of anybody may be in the cluster
PrepareFault(r) ==
    /\ pc[r] = "idle"
    /\ Go(r, IF policies = {} THEN "cleared" ELSE "ended")
    /\ UNCHANGED <<cluster, current, memory>>

\* start looks for a journal: it begins a new one, reuses a restored one, or
\* refuses.  A sealed one is remembered, even where it is refused.
LookForJournal(r) ==
    /\ pc[r] = "cleared"
    /\ \/ /\ journal = NoJournal
          /\ Go(r, "creatingJournal")
          /\ UNCHANGED <<current, memory>>
       \/ /\ journal # NoJournal
          /\ journal.sealed
          /\ Go(r, IF journal.restored THEN "reusing" ELSE "restoring")
          /\ current' = current \cup {r}
          /\ seen' = [seen EXCEPT ![r] = "sealed"]
          /\ UNCHANGED <<holds, plan>>
       \/ /\ journal # NoJournal
          /\ ~journal.sealed
          /\ Fail(r)
          /\ UNCHANGED current
    /\ UNCHANGED cluster

Preparing(r, sealed) == [run |-> r, attempted |-> FALSE, restored |-> FALSE, sealed |-> sealed]

CreateJournal(r) ==
    /\ pc[r] = "creatingJournal"
    /\ UNCHANGED policies
    /\ \/ /\ journal = NoJournal
          /\ journal' = Preparing(r, FALSE)
          /\ \/ /\ current' = {r}
                /\ Go(r, "sealing")
                /\ seen' = [seen EXCEPT ![r] = "unsealed"]
                /\ UNCHANGED <<holds, plan>>
             \/ /\ current' = {}
                /\ Fail(r)
       \/ /\ journal # NoJournal
          /\ Fail(r)
          /\ UNCHANGED <<journal, current>>

\* the uid seal: only with its acknowledgement may a fault be planned
SealJournal(r) ==
    /\ pc[r] = "sealing"
    /\ \/ /\ Replace(r, Preparing(r, TRUE))
          /\ IF Answered(r) THEN /\ Go(r, "planning")
                                 /\ seen' = [seen EXCEPT ![r] = "sealed"]
                                 /\ UNCHANGED <<holds, plan>>
                            ELSE Fail(r)
       \/ Conflict(r)

ReuseJournal(r) ==
    /\ pc[r] = "reusing"
    /\ \/ /\ Replace(r, Preparing(r, TRUE))
          /\ IF Answered(r) THEN Go(r, "planning") /\ UNCHANGED memory ELSE Fail(r)
       \/ Conflict(r)

\* plan_fault puts the policy into the record before it is committed
PlanFault(r) ==
    /\ pc[r] = "planning"
    /\ plan[r] = "none"
    /\ plan' = [plan EXCEPT ![r] = "planned"]
    /\ UNCHANGED <<cluster, current, pc, holds, seen>>

\* commit_fault: the attempt is in the journal before there is a policy
CommitFault(r) ==
    /\ pc[r] = "planning"
    /\ plan[r] = "planned"
    /\ \/ /\ Replace(r, [journal EXCEPT !.attempted = TRUE])
          /\ IF Answered(r) THEN /\ Go(r, "committed")
                                 /\ plan' = [plan EXCEPT ![r] = "attempted"]
                                 /\ UNCHANGED <<holds, seen>>
                            ELSE Fail(r)
       \/ Conflict(r)

\* create_fault: check_journal ...
CheckCommitted(r) ==
    /\ pc[r] = "committed"
    /\ IF r \in current THEN Go(r, "creating") /\ UNCHANGED memory ELSE Fail(r)
    /\ UNCHANGED <<cluster, current>>

\* ... and then the policy
CreateFault(r) ==
    /\ pc[r] = "creating"
    /\ policies' = policies \cup {r}
    /\ \/ Go(r, "blocking") /\ UNCHANGED memory
       \/ Fail(r)
    /\ UNCHANGED <<journal, current>>

\* each probe of the active fault is recorded
SaveProgress(r) ==
    /\ pc[r] = "blocking"
    /\ \/ /\ Replace(r, journal)
          /\ IF Answered(r) THEN UNCHANGED <<pc, memory>> ELSE Fail(r)
       \/ Conflict(r)

\* the time is over, a probe was not as expected, or Ctrl-C
EndFault(r) ==
    /\ pc[r] = "blocking"
    /\ Fail(r)
    /\ UNCHANGED <<cluster, current>>

-----------------------------------------------------------------------------
(* Restoration *)

\* a slip: --restore refuses a journal that was never sealed, as start does
LoadSealedJournal(q) ==
    /\ pc[q] = "idle"
    /\ \A r \in Runs : pc[r] \in {"idle", "ended"}
    /\ journal # NoJournal
    /\ journal.sealed
    /\ Go(q, "restoring")
    /\ current' = current \cup {q}
    /\ holds' = [holds EXCEPT ![q] = journal.run]
    /\ plan' = [plan EXCEPT ![q] = IF journal.attempted THEN "attempted" ELSE "none"]
    /\ seen' = [seen EXCEPT ![q] = "sealed"]
    /\ UNCHANGED cluster

\* from_journal: whatever the journal says, also one that was never sealed
LoadJournal(q) ==
    /\ pc[q] = "idle"
    /\ \A r \in Runs : pc[r] \in {"idle", "ended"}
    /\ journal # NoJournal
    /\ Go(q, "restoring")
    /\ current' = current \cup {q}
    /\ holds' = [holds EXCEPT ![q] = journal.run]
    /\ plan' = [plan EXCEPT ![q] = IF journal.attempted THEN "attempted" ELSE "none"]
    /\ seen' = [seen EXCEPT ![q] = IF journal.sealed THEN "sealed" ELSE "unsealed"]
    /\ UNCHANGED cluster

\* restore begins: the journal is as remembered, and without an attempt there
\* must be no fault at all
BeginRestore(h) ==
    /\ pc[h] = "restoring"
    /\ IF h \in current /\ (plan[h] = "attempted" \/ policies = {})
       THEN /\ Go(h, IF seen[h] = "unsealed" THEN "cancelling"
                     ELSE IF plan[h] = "attempted" THEN "looking" ELSE "probing")
            /\ UNCHANGED memory
       ELSE Fail(h)
    /\ UNCHANGED <<cluster, current>>

\* cancel_unsealed: nothing was done, so the journal is sealed and restored at once
CancelUnsealed(h) ==
    /\ pc[h] = "cancelling"
    /\ \/ /\ Replace(h, [journal EXCEPT !.restored = TRUE, !.sealed = TRUE])
          /\ End(h)
       \/ Conflict(h)

\* remove_fault: other policies must be as before the fault
LookForFault(h) ==
    /\ pc[h] = "looking"
    /\ IF policies \subseteq {holds[h]}
       THEN /\ Go(h, IF policies = {} THEN "confirming" ELSE "deleting")
            /\ UNCHANGED memory
       ELSE Fail(h)
    /\ UNCHANGED <<cluster, current>>

\* delete_uid: refused if the policy is gone meanwhile
DeleteFault(h) ==
    /\ pc[h] = "deleting"
    /\ \/ /\ holds[h] \in policies
          /\ policies' = policies \ {holds[h]}
          /\ \/ Go(h, "confirming") /\ UNCHANGED memory
             \/ Fail(h)
       \/ /\ holds[h] \notin policies
          /\ Fail(h)
          /\ UNCHANGED policies
    /\ UNCHANGED <<journal, current>>

ConfirmRemoved(h) ==
    /\ pc[h] = "confirming"
    /\ IF policies = {} THEN Go(h, "probing") /\ UNCHANGED memory ELSE Fail(h)
    /\ UNCHANGED <<cluster, current>>

\* within the deadline a fresh connection to the parent must succeed, which it
\* does only if nothing blocks it
ProbeLink(h) ==
    /\ pc[h] = "probing"
    /\ IF policies = {} THEN Go(h, "saving") /\ UNCHANGED memory ELSE Fail(h)
    /\ UNCHANGED <<cluster, current>>

\* a slip: save records whatever it is given
AnyIntent(h) == TRUE

\* save refuses a record that is not the one the journal was committed with
SameIntent(h) ==
    /\ journal.run = holds[h]
    /\ journal.attempted <=> plan[h] # "none"

SaveRestored(h) ==
    /\ pc[h] = "saving"
    /\ \/ /\ Replace(h, [journal EXCEPT !.restored = TRUE])
          /\ SameIntent(h)
          /\ IF Answered(h) THEN Go(h, "saved") /\ UNCHANGED memory ELSE Fail(h)
       \/ Conflict(h)
       \/ /\ h \in current
          /\ ~SameIntent(h)
          /\ Fail(h)
          /\ UNCHANGED <<cluster, current>>

\* in time ...
Finish(h) ==
    /\ pc[h] = "saved"
    /\ End(h)
    /\ UNCHANGED <<cluster, current>>

\* ... or past the deadline, or after an error: recorded as not restored
SaveFailure(h) ==
    /\ pc[h] \in {"saved", "failing"}
    /\ \/ /\ Replace(h, [journal EXCEPT !.restored = FALSE])
          /\ SameIntent(h)
          /\ End(h)
       \/ Conflict(h)
       \/ /\ h \in current
          /\ ~SameIntent(h)
          /\ End(h)
          /\ UNCHANGED <<cluster, current>>

-----------------------------------------------------------------------------
(* Failures *)

\* a call fails without effect, or Ctrl-C
CallFails(h) ==
    /\ Fail(h)
    /\ UNCHANGED <<cluster, current>>

Crash(h) ==
    /\ pc[h] \notin {"idle", "ended"}
    /\ End(h)
    /\ UNCHANGED <<cluster, current>>

Run(r) ==
    \/ PrepareFault(r) \/ LookForJournal(r) \/ CreateJournal(r) \/ SealJournal(r)
    \/ ReuseJournal(r) \/ PlanFault(r) \/ CommitFault(r) \/ CheckCommitted(r)
    \/ CreateFault(r) \/ SaveProgress(r) \/ EndFault(r)

Restore(h) ==
    \/ BeginRestore(h) \/ CancelUnsealed(h) \/ LookForFault(h) \/ DeleteFault(h)
    \/ ConfirmRemoved(h) \/ ProbeLink(h) \/ SaveRestored(h) \/ Finish(h) \/ SaveFailure(h)

Next ==
    \/ \E r \in Runs : Run(r)
    \/ \E q \in Restorers : LoadJournal(q)
    \/ \E h \in Helpers : Restore(h) \/ CallFails(h) \/ Crash(h)

Spec == Init /\ [][Next]_vars

-----------------------------------------------------------------------------
(* Fairness.  Every helper goes on or fails, as its commands have timeouts,  *)
(* and an operator calls --restore again as long as it has not succeeded     *)
(* ("Do not proceed until the original link is confirmed restored").  A call *)
(* of the restoration does not fail or get lost every time for ever.         *)

Fairness ==
    /\ \A r \in Runs : WF_vars(pc[r] # "idle" /\ Run(r)) /\ WF_vars(EndFault(r))
    /\ \A h \in Helpers : WF_vars(Restore(h))
    /\ \A q \in Restorers :
          /\ SF_vars(LoadJournal(q) /\ ~journal.restored)
          /\ SF_vars(BeginRestore(q) /\ pc'[q] # "failing")
          /\ SF_vars(LookForFault(q))
          /\ SF_vars(DeleteFault(q) /\ pc'[q] = "confirming")
          /\ SF_vars(ConfirmRemoved(q))
          /\ SF_vars(ProbeLink(q))
          /\ SF_vars(SaveRestored(q) /\ journal' # journal)
          /\ SF_vars(CancelUnsealed(q) /\ journal' # journal)

FairSpec == Spec /\ Fairness

-----------------------------------------------------------------------------
(* Properties *)

\* Whatever helper died or was answered late, a policy that blocks the link is
\* that of the sealed, unrestored attempt in the journal: --restore finds it,
\* and cleanup, which trusts a restored journal, destroys nothing under a fault.
FaultIsJournalled ==
    \A r \in policies : journal = [run |-> r, attempted |-> TRUE, restored |-> FALSE, sealed |-> TRUE]

\* A run never takes over the journal of a fault that nobody restored, and
\* nobody forgets within a run that the fault was attempted.
JournalForward ==
    [][journal # NoJournal =>
          /\ journal' # NoJournal
          /\ journal.sealed => journal'.sealed
          /\ IF journal'.run # journal.run THEN journal.restored
                                           ELSE journal.attempted => journal'.attempted]_vars

\* An interrupted fault can always be restored: no journal, sealed or not, is a
\* dead end for the operators who call --restore.
RestoredInTheEnd == journal # NoJournal ~> (journal # NoJournal /\ journal.restored)

=============================================================================
