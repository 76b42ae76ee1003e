------------------------------ MODULE ReportLog ------------------------------
(***************************************************************************)
(* The rule by which report_control (sql/management.sql) and report_data   *)
(* (sql/control.sql) record what a reconciler reports.  The row of the     *)
(* tenant is locked, so a report is looked up and inserted in one step.    *)
(***************************************************************************)
EXTENDS Integers, Sequences

\* a slip: a failure is recorded although the success already is
RecordedAlways(log, report, success) ==
    IF \E i \in 1..Len(log) : log[i] = report THEN log ELSE Append(log, report)

\* a report is recorded once, and not at all after the success of its target
Recorded(log, report, success) ==
    IF \E i \in 1..Len(log) : log[i] \in {report, success}
    THEN log ELSE Append(log, report)
=============================================================================
