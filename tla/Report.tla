------------------------------- MODULE Report -------------------------------
(***************************************************************************)
(* The reports raccoon-cli builds and renders (models, output, error).     *)
(* A finding is its severity; a check is its name, its status and how      *)
(* many findings of each severity that matters it holds; a report is its   *)
(* checks in the order they were added and the verdict kept beside them.   *)
(***************************************************************************)
EXTENDS Naturals, Sequences, FiniteSets

CONSTANT None      \* something absent, where the code has an empty Option

\* Severity: findings of severity info never change an outcome.
Severities == {"info", "warning", "error"}

\* CheckStatus.
CheckStatuses == {"pass", "fail", "skip"}

\* CheckResult::from_findings: a check fails exactly when a finding is an error.
FromFindings(name, errors, warnings) ==
    [name     |-> name,
     status   |-> IF errors > 0 THEN "fail" ELSE "pass",
     errors   |-> errors,
     warnings |-> warnings]

\* A check over sets of findings.
FindsAll(name, errors, warnings) ==
    FromFindings(name, Cardinality(errors), Cardinality(warnings))

\* CheckResult::pass, to which callers may still push findings.
PassCheck(name, warnings) ==
    [name |-> name, status |-> "pass", errors |-> 0, warnings |-> warnings]

\* CheckResult::skip: the reason is an info finding.
SkipCheck(name) ==
    [name |-> name, status |-> "skip", errors |-> 0, warnings |-> 0]

\* Report::new.
NewReport == [checks |-> << >>, passed |-> TRUE]

\* Report::add.
AddCheck(report, check) ==
    [checks |-> Append(report.checks, check),
     passed |-> report.passed /\ check.status # "fail"]

\* A report of checks added one after the other.
ReportOf(checks) ==
    LET added[i \in Nat] ==
            IF i = 0 THEN NewReport ELSE AddCheck(added[i - 1], checks[i])
    IN  added[Len(checks)]

\* The errors and warnings of all the checks of a report (count_findings).
CountErrors(report) ==
    LET counted[i \in 0 .. Len(report.checks)] ==
            IF i = 0 THEN 0 ELSE counted[i - 1] + report.checks[i].errors
    IN  counted[Len(report.checks)]

CountWarnings(report) ==
    LET counted[i \in 0 .. Len(report.checks)] ==
            IF i = 0 THEN 0 ELSE counted[i - 1] + report.checks[i].warnings
    IN  counted[Len(report.checks)]

\* What a command hands back: a report, or an error that replaces it
\* (CliError: input and output, JSON, or a command's own message).
Failed == [error |-> TRUE, report |-> NewReport]
Ok(report) == [error |-> FALSE, report |-> report]

=============================================================================
