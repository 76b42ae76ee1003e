---------------------------- MODULE FaultHelper ----------------------------
(***************************************************************************)
(* FaultJournal and what it promises, under names that do not meet those   *)
(* of Acceptance: the runs of the fault helper are not those of the        *)
(* harness, and its journal, the ConfigMap of a component, is not the      *)
(* record in which an acceptance run keeps what it saw.                    *)
(***************************************************************************)
CONSTANTS
    FaultRuns,  \* runs of the helper; each has a run id and a policy of its own
    Restorers,  \* operators who call --restore
    NoJournal,  \* the component never had a journal
    NoFaultRun  \* a restorer has not read a journal

ASSUME HelpersAssumption == FaultRuns \cap Restorers = {} /\ NoFaultRun \notin FaultRuns
ASSUME JournalAssumption == \A r \in FaultRuns, a, s, t \in BOOLEAN :
    NoJournal # [run |-> r, attempted |-> a, restored |-> s, sealed |-> t]

VARIABLES faultJournal, policies, current, pc, holds, plan, seen

Fault == INSTANCE FaultJournal WITH
    Runs <- FaultRuns, NoRun <- NoFaultRun, journal <- faultJournal

FairSpec == Fault!FairSpec

\* Whatever helper died or was answered late, a policy that blocks the link is
\* that of the sealed, unrestored attempt in the journal: --restore finds it,
\* and cleanup, which trusts a restored journal, destroys nothing under a fault.
FaultIsJournalled == Fault!FaultIsJournalled

\* A run never takes over the journal of a fault that nobody restored, and
\* nobody forgets within a run that the fault was attempted.
JournalForward == Fault!JournalForward

\* An interrupted fault can always be restored: no journal, sealed or not, is a
\* dead end for the operators who call --restore.
RestoredInTheEnd == Fault!RestoredInTheEnd
=============================================================================
