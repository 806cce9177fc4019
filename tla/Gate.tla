-------------------------------- MODULE Gate --------------------------------
(***************************************************************************)
(* quality-gate (src/tools/raccoon-cli/src/gate/mod.rs): six static steps  *)
(* in a fixed order and then runtime-smoke, each run, skipped by its       *)
(* profile, or skipped because a step before it failed in fail-fast mode.  *)
(*                                                                         *)
(* What a static step finds is a function of the working tree: tree maps   *)
(* each step to the result its analyzer returns.  The gate only reads it.  *)
(* The runtime step runs the smoke test, which the composing module does;  *)
(* EndGateSmoke takes over its result.                                     *)
(***************************************************************************)
EXTENDS Naturals, Sequences, Report

VARIABLES tree,     \* what each analyzer returns on the working tree
          gate      \* the run of the gate

gateVars == <<tree, gate>>

Profiles == {"fast", "ci", "deep"}

\* The static steps in the order run() lists them.
StaticSteps == <<"doctor", "topology-doctor", "contract-audit",
                 "runtime-bindings", "arch-guard", "drift-detect">>

GateSteps == Append(StaticSteps, "runtime-smoke")

StaticStepNames == {StaticSteps[i] : i \in DOMAIN StaticSteps}

\* No run yet, or a finished one.
IdleGate == [running |-> FALSE, profile |-> "fast", failFast |-> FALSE,
             blocked |-> FALSE, steps |-> << >>, smoking |-> FALSE]

\* Profile::includes_runtime, Profile::warnings_are_errors.
IncludesRuntime(profile)   == profile = "deep"
WarningsAreErrors(profile) == profile = "ci"

-----------------------------------------------------------------------------
(* One step *)

\* promote_warnings on one check: its warnings become errors, and only a
\* passed check is turned into a failed one.
Promoted(check) ==
    [check EXCEPT !.errors   = @ + check.warnings,
                  !.warnings = 0,
                  !.status   = IF check.warnings > 0 /\ @ = "pass"
                               THEN "fail" ELSE @]

\* Mutant: the promoted check fails but the report keeps its verdict.
KeepVerdict(report) ==
    [report EXCEPT !.checks =
        [i \in DOMAIN report.checks |-> Promoted(report.checks[i])]]

\* promote_warnings on a report.
PromoteWarnings(report) ==
    LET checks == [i \in DOMAIN report.checks |-> Promoted(report.checks[i])]
    IN  [checks |-> checks,
         passed |-> /\ report.passed
                    /\ \A i \in DOMAIN checks :
                          report.checks[i].status = "pass"
                             => checks[i].status = "pass"]

\* run_step on a report, and on an error of the step itself.
StepOf(name, profile, result) ==
    LET report == IF WarningsAreErrors(profile)
                  THEN PromoteWarnings(result.report)
                  ELSE result.report
    IN  IF result.error
        THEN [name |-> name, status |-> "fail", checks |-> 0,
              errors |-> 1, warnings |-> 0, broken |-> TRUE]
        ELSE [name     |-> name,
              status   |-> IF report.passed THEN "pass" ELSE "fail",
              checks   |-> Len(report.checks),
              errors   |-> CountErrors(report),
              warnings |-> CountWarnings(report),
              broken   |-> FALSE]

\* make_skip.
SkippedStep(name) ==
    [name |-> name, status |-> "skip", checks |-> 0,
     errors |-> 0, warnings |-> 0, broken |-> FALSE]

\* Mutant: in fail-fast mode the failed step itself is reported as skipped.
PushedAsSkipped(step) ==
    [gate EXCEPT !.steps   = Append(@, IF gate.failFast THEN SkippedStep(step.name)
                                       ELSE step),
                 !.blocked = @ \/ (gate.failFast /\ step.status = "fail"),
                 !.smoking = FALSE]

\* gate_step!: push the step and remember the first failure in fail-fast mode.
Pushed(step) ==
    [gate EXCEPT !.steps   = Append(@, step),
                 !.blocked = @ \/ (gate.failFast /\ step.status = "fail"),
                 !.smoking = FALSE]

NextStep == GateSteps[Len(gate.steps) + 1]

-----------------------------------------------------------------------------
(* The run *)

GateInit == gate = IdleGate

StartGate(profile, failFast) ==
    /\ ~gate.running
    /\ gate' = [IdleGate EXCEPT !.running  = TRUE,
                                !.profile  = profile,
                                !.failFast = failFast]
    /\ UNCHANGED tree

MoreSteps == gate.running /\ ~gate.smoking /\ Len(gate.steps) < Len(GateSteps)

\* A static step, with no blocker before it.
RunStatic ==
    /\ MoreSteps
    /\ NextStep # "runtime-smoke"
    /\ ~gate.blocked
    /\ gate' = Pushed(StepOf(NextStep, gate.profile, tree[NextStep]))
    /\ UNCHANGED tree

\* A step after the blocker, or the runtime step outside the deep profile.
SkipStep ==
    /\ MoreSteps
    /\ \/ gate.blocked
       \/ NextStep = "runtime-smoke" /\ ~IncludesRuntime(gate.profile)
    /\ gate' = Pushed(SkippedStep(NextStep))
    /\ UNCHANGED tree

\* The runtime step of the deep profile hands over to the smoke test ...
BeginGateSmoke ==
    /\ MoreSteps
    /\ NextStep = "runtime-smoke"
    /\ IncludesRuntime(gate.profile)
    /\ ~gate.blocked
    /\ gate' = [gate EXCEPT !.smoking = TRUE]
    /\ UNCHANGED tree

\* ... and takes its report over as the last step.
EndGateSmoke(result) ==
    /\ gate.smoking
    /\ gate' = Pushed(StepOf("runtime-smoke", gate.profile, result))
    /\ UNCHANGED tree

GateDone == gate.running /\ Len(gate.steps) = Len(GateSteps)

GatePassed == \A i \in DOMAIN gate.steps : gate.steps[i].status # "fail"

FailedSteps == {i \in DOMAIN gate.steps : gate.steps[i].status = "fail"}

\* compute_verdict: what the report tells its reader to do.
Verdict ==
    [action    |-> IF FailedSteps = {} THEN "proceed" ELSE "stop",
     toFix     |-> LET failed == [i \in DOMAIN gate.steps |->
                                    [errors |-> IF i \in FailedSteps
                                                THEN gate.steps[i].errors ELSE 0]]
                   IN  CountErrors([checks |-> failed]),
     nextSteps |-> {gate.steps[i].name : i \in FailedSteps}]

-----------------------------------------------------------------------------
(* Properties *)

\* What a step would say of the tree if it were run by itself.
Standalone(name) == StepOf(name, gate.profile, tree[name])

\* A gate never lets an unchecked tree through and never hides a failure: it
\* passes exactly when every static step, run by itself, passes and the smoke
\* test did, whatever fail-fast skipped; without fail-fast its verdict names
\* every step to go back to (gate/mod.rs run, gate_step!, compute_verdict).
GateMeansClean ==
    LET failing == {s \in StaticStepNames : Standalone(s).status = "fail"} IN
    GateDone =>
        /\ GatePassed <=> /\ failing = {}
                          /\ gate.steps[Len(GateSteps)].status # "fail"
        /\ ~gate.failFast => Verdict.nextSteps \cap StaticStepNames = failing

\* The verdict agrees with the findings that are counted.  The ci gate passes
\* exactly the trees whose reports are all without errors and warnings:
\* promote_warnings loses no warning of a failed, passed or skipped check and
\* invents none.  A gate that says stop counts something to fix.
CountsMatchVerdict ==
    GateDone =>
        /\ gate.profile = "ci" =>
              (GatePassed <=> \A s \in StaticStepNames :
                                  /\ ~tree[s].error
                                  /\ CountErrors(tree[s].report) = 0
                                  /\ CountWarnings(tree[s].report) = 0)
        /\ Verdict.action = "stop" => Verdict.toFix > 0

=============================================================================
