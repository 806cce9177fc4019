------------------------------- MODULE Smoke -------------------------------
(***************************************************************************)
(* runtime-smoke and the five scenarios of scenario-smoke                  *)
(* (src/tools/raccoon-cli/src/smoke): stages run one after the other       *)
(* against a running cluster, over HTTP and docker compose, while the      *)
(* cluster goes on: services come and go, the data plane catches up with   *)
(* the configuration, and other operators activate theirs in the same      *)
(* scope.                                                                  *)
(*                                                                         *)
(* A deadline is a number of polls; between two polls the cluster moves.   *)
(* The cluster is as much of the deployed system as these stages observe.  *)
(***************************************************************************)
EXTENDS Naturals, Sequences, FiniteSets, Report

CONSTANTS Clusters,     \* the clusters a test may start on
          PollLimit,    \* polls before a deadline passes
          PageLimit,    \* results one query returns, the newest first
          MaxResults,   \* bound on the results of the cluster
          MaxOthers     \* bound on the activations of other operators

VARIABLES smoke,        \* the run of a smoke test or a scenario
          cluster       \* the system under test

smokeVars == <<smoke, cluster>>

CoreServices == {"nats", "configctl", "server"}
DataServices == {"kafka", "consumer", "validator", "emulator"}
AllServices  == CoreServices \cup DataServices


\* STAGE_NAMES.
SmokeStages == <<"bootstrap", "readiness", "inject", "route", "consume", "validate">>

\* The stages of a test in the order they run.
Stages(test) ==
    CASE test = "runtime-smoke"    -> SmokeStages
      [] test = "happy-path"       -> Append(SmokeStages, "bootstrap-alignment")
      [] test = "config-lifecycle" -> <<"bootstrap", "readiness", "create-draft",
                                        "validate-draft", "compile", "activate",
                                        "verify-active">>
      [] test = "invalid-payload"  -> <<"bootstrap", "readiness", "inject", "route",
                                        "wait-for-failures", "verify-violations">>
      [] test = "missing-binding"  -> <<"readiness", "query-missing-bindings",
                                        "query-missing-results">>
      [] test = "readiness-probe"  -> <<"bootstrap", "readiness">>

Scenarios == {"happy-path", "config-lifecycle", "invalid-payload",
              "missing-binding", "readiness-probe"}

\* run_stages_sequential: the stages after the failed one are skipped.
SkipsAfter(stages, i) == SubSeq(stages, i + 1, Len(stages))

\* Mutant: the skips of a failed readiness stage were not extended with a stage.
SkipsForgotten(stage) ==
    CASE stage = "bootstrap"      -> <<"readiness", "create-draft", "validate-draft",
                                       "compile", "activate", "verify-active">>
      [] stage = "readiness"      -> <<"create-draft", "validate-draft", "compile",
                                       "activate">>
      [] stage = "create-draft"   -> <<"validate-draft", "compile", "activate",
                                       "verify-active">>
      [] stage = "validate-draft" -> <<"compile", "activate", "verify-active">>
      [] stage = "compile"        -> <<"activate", "verify-active">>
      [] stage = "activate"       -> <<"verify-active">>
      [] OTHER                    -> << >>

\* run_config_lifecycle writes the skips of each stage out by hand.
LifecycleSkips(stage) ==
    CASE stage = "bootstrap"      -> <<"readiness", "create-draft", "validate-draft",
                                       "compile", "activate", "verify-active">>
      [] stage = "readiness"      -> <<"create-draft", "validate-draft", "compile",
                                       "activate", "verify-active">>
      [] stage = "create-draft"   -> <<"validate-draft", "compile", "activate",
                                       "verify-active">>
      [] stage = "validate-draft" -> <<"compile", "activate", "verify-active">>
      [] stage = "compile"        -> <<"activate", "verify-active">>
      [] stage = "activate"       -> <<"verify-active">>
      [] OTHER                    -> << >>

\* run_missing_binding: only a failed readiness stage ends the scenario.
MissingBindingSkips(stage) ==
    IF stage = "readiness"
    THEN <<"query-missing-bindings", "query-missing-results">> ELSE << >>

-----------------------------------------------------------------------------
(* One run *)

\* The version this run creates; those of other operators are numbered in the
\* order they are activated.
Own == 0

\* SmokeConfig::new: the binding and the configuration have fresh names, the
\* scope is always global:default.
IdleSmoke == [running |-> FALSE, test |-> "runtime-smoke", pos |-> 1, draft |-> None,
              polls |-> 0, checks |-> << >>, seen |-> None]

Running == smoke.running /\ smoke.pos <= Len(Stages(smoke.test))
Stage   == Stages(smoke.test)[smoke.pos]
At(stage) == Running /\ Stage = stage

SmokeDone   == smoke.running /\ smoke.pos > Len(Stages(smoke.test))
SmokeReport == ReportOf(smoke.checks)

\* The checks a stage that did not pass leaves for the stages after it.
Skips ==
    LET stages == Stages(smoke.test) IN
    CASE smoke.test = "config-lifecycle" -> LifecycleSkips(Stage)
      [] smoke.test = "missing-binding"  -> MissingBindingSkips(Stage)
      [] OTHER                           -> SkipsAfter(stages, smoke.pos)

\* A stage that passed is followed by the next one; after any other the rest
\* is skipped, except after the two queries of missing-binding.
EndStage(check, draft) ==
    LET goOn == \/ check.status = "pass"
                \/ Stage \in {"query-missing-bindings", "query-missing-results"}
        skipped == IF goOn THEN << >> ELSE Skips
    IN  smoke' = [smoke EXCEPT
            !.checks = Append(@, check) \o
                       [i \in DOMAIN skipped |-> SkipCheck(skipped[i])],
            !.pos    = IF goOn THEN @ + 1 ELSE Len(Stages(smoke.test)) + 1,
            !.draft  = draft,
            !.polls  = PollLimit,
            !.seen   = None]

Pass(warnings) == EndStage(PassCheck(Stage, warnings), smoke.draft)
Fail(warnings) == EndStage(FromFindings(Stage, 1, warnings), smoke.draft)

\* A poll that missed: the next one comes after the interval, unless the
\* deadline has passed.
Poll(warnings) ==
    IF smoke.polls > 1
    THEN smoke' = [smoke EXCEPT !.polls = @ - 1, !.seen = None]
    ELSE Fail(warnings)

\* A request reaches the server and its answer comes back within the timeout.
Answers == {ok \in BOOLEAN : ok => "server" \in cluster.up}

-----------------------------------------------------------------------------
(* The cluster, as the stages see it *)

\* The server can ask configctl.
Serving == {"server", "configctl", "nats"} \subseteq cluster.up

\* The server applies a request to the version of this run only in the
\* lifecycle the request asks for; validation may find the source invalid.
Applicable(request) ==
    /\ Serving
    /\ cluster.own = (CASE request = "create"   -> None
                        [] request = "validate" -> "draft"
                        [] request = "compile"  -> "validated"
                        [] request = "activate" -> "compiled")

Applied(request, valid) ==
    CASE request = "create"   -> [cluster EXCEPT !.own = "draft"]
      [] request = "validate" -> [cluster EXCEPT !.own = IF valid THEN "validated" ELSE @]
      [] request = "compile"  -> [cluster EXCEPT !.own = "compiled"]
      [] OTHER                -> [cluster EXCEPT !.own = "active", !.active = Own]

\* The results a query returns: a page of the newest of the whole scope.
Page == SubSeq(cluster.results, 1,
               IF Len(cluster.results) < PageLimit THEN Len(cluster.results)
                                                   ELSE PageLimit)
PageHas(status) == status \in {Page[i] : i \in DOMAIN Page}

\* A test starts on a cluster that runs versions of other operators, if any; an
\* absent version has no number and no lifecycle.
ASSUME ClustersAssumption ==
    /\ None \notin Nat \cup {"create", "validate", "compile"}
                       \cup {"draft", "validated", "compiled", "active"}
    /\ \A c \in Clusters :
          LET versions == {None} \cup 1 .. c.others IN
          /\ c.others \in Nat
          /\ c \in [up : SUBSET AllServices, flapped : BOOLEAN,
                    own : {None}, active : versions, others : {c.others},
                    loaded : [{"consumer", "emulator"} -> versions],
                    queued : {<< >>}, fetched : {None}, cached : BOOLEAN,
                    results : Seq({"passed", "failed"}),
                    held : BOOLEAN, again : BOOLEAN]

\* The emulator has generation g: it has logged it last, or is about to.
EmulatorHas(c, g) == g \in {c.loaded["emulator"], c.fetched}

\* A move of the cluster.  held records that the consumer's newest line was of
\* the generation the alignment has read of and the emulator had it.
Becomes(c) ==
    /\ Running
    /\ cluster' = LET read == smoke.seen # None /\ c.loaded["consumer"] = smoke.seen
                  IN  [c EXCEPT !.held = @ \/ (read /\ EmulatorHas(c, smoke.seen))]
    /\ UNCHANGED smoke

\* A service starts or stops; the emulator loses a bootstrap it has fetched and
\* not taken over.
ServiceChanges ==
    \E s \in {"server", "emulator"} :
        /\ s \in cluster.up => ~cluster.flapped
        /\ Becomes([cluster EXCEPT
             !.up = IF s \in @ THEN @ \ {s} ELSE @ \cup {s}, !.flapped = TRUE,
             !.fetched = IF s = "emulator" THEN None ELSE @])

\* The generations the data plane still holds.
HeldVersions == {cluster.loaded[s] : s \in DOMAIN cluster.loaded}
                \cup {cluster.queued[i] : i \in DOMAIN cluster.queued}
                \cup {cluster.fetched}

\* Another operator activates a configuration in the same scope: a new one, or
\* one that was active before (an inactive version can be activated again; only
\* those a process still holds can be told apart from new ones).  again records
\* that it is the one the alignment has just read of.
OtherActivates ==
    /\ cluster.others < MaxOthers
    /\ \E v \in {cluster.others + 1} \cup HeldVersions :
         /\ v \notin {None, cluster.active}
         /\ Becomes([cluster EXCEPT !.active = v, !.others = @ + 1,
                        !.again = @ \/ v = smoke.seen])

\* The newest generation the consumer has fetched (lastSignature).
LastFetched == IF cluster.queued = << >> THEN cluster.loaded["consumer"]
                                         ELSE cluster.queued[Len(cluster.queued)]

\* refreshBootstrap of the consumer: what is active is not what it fetched last,
\* and goes to the supervisor's mailbox.
ConsumerFetches ==
    /\ Serving /\ "consumer" \in cluster.up
    /\ cluster.active \notin {None, LastFetched}
    /\ Becomes([cluster EXCEPT !.queued = Append(@, cluster.active)])

\* The supervisor logs that a runtime is ready, unless it has replaced it by
\* then: the bootstraps before the one whose runtime is ready are never logged.
ConsumerReports ==
    \E i \in DOMAIN cluster.queued :
        Becomes([cluster EXCEPT !.loaded["consumer"] = cluster.queued[i],
                                !.queued = SubSeq(@, i + 1, Len(@))])

\* refreshBootstrapState of the emulator: what is active is not what it runs.
EmulatorFetches ==
    /\ Serving /\ "emulator" \in cluster.up
    /\ cluster.fetched = None
    /\ cluster.active \notin {None, cluster.loaded["emulator"]}
    /\ Becomes([cluster EXCEPT !.fetched = cluster.active])

\* reconcileBootstrapState goes on: the emulator ensures the topics, which may
\* fail, takes what it has fetched over and logs it.
EmulatorReconciles ==
    /\ "emulator" \in cluster.up
    /\ cluster.fetched # None
    /\ \E ensured \in BOOLEAN :
         Becomes([cluster EXCEPT
             !.loaded["emulator"] = IF ensured THEN cluster.fetched ELSE @,
             !.fetched = None])

\* The validator learns of the activation.
ValidatorCaches ==
    /\ cluster.active # None
    /\ ~cluster.cached
    /\ Becomes([cluster EXCEPT !.cached = TRUE])

\* The validator records a result of a message that went through all of the data
\* plane; no stage looks at its version.
Records ==
    \E status \in {"passed", "failed"} :
        /\ AllServices \subseteq cluster.up
        /\ LastFetched # None /\ cluster.loaded["emulator"] # None /\ cluster.cached
        /\ Len(cluster.results) < MaxResults
        /\ Becomes([cluster EXCEPT !.results = <<status>> \o @])

ClusterMoves ==
    \/ ServiceChanges \/ OtherActivates
    \/ ConsumerFetches \/ ConsumerReports \/ EmulatorFetches \/ EmulatorReconciles
    \/ ValidatorCaches \/ Records

-----------------------------------------------------------------------------
(* The stages *)

SmokeInit ==
    /\ smoke = IdleSmoke
    /\ cluster \in Clusters

StartSmoke(test) ==
    /\ ~smoke.running
    /\ smoke' = [IdleSmoke EXCEPT !.running = TRUE, !.test = test, !.polls = PollLimit]
    /\ UNCHANGED cluster

\* bootstrap_required: the services docker compose reports as running, or no
\* answer of docker compose within its deadline.
Required == IF smoke.test = "config-lifecycle" THEN CoreServices ELSE AllServices

Bootstrap ==
    /\ At("bootstrap")
    /\ \/ Required \subseteq cluster.up /\ Pass(0)
       \/ ~(Required \subseteq cluster.up) /\ Fail(0)
       \/ Fail(0)
    /\ UNCHANGED cluster

\* newServerReadinessChecker: an active configuration must be in the validator.
Ready == Serving /\ "validator" \in cluster.up /\ (cluster.active # None => cluster.cached)

\* readiness: healthz must answer before readyz is asked.
Readiness ==
    /\ At("readiness")
    /\ \E healthy \in Answers, ready \in Answers :
         IF healthy /\ ready /\ Ready THEN Pass(0) ELSE Poll(0)
    /\ UNCHANGED cluster

\* The requests of inject, and of the stages of config-lifecycle, in order.
NextRequest == CASE smoke.draft = None       -> "create"
                 [] smoke.draft = "create"   -> "validate"
                 [] smoke.draft = "validate" -> "compile"
                 [] smoke.draft = "compile"  -> "activate"

RequestStages == {"inject", "create-draft", "validate-draft", "compile", "activate"}

\* The server answers.  inject looks at the answer's status only; the stages of
\* config-lifecycle fail on a draft that did not validate.
RequestAnswered ==
    /\ Running /\ Stage \in RequestStages
    /\ Applicable(NextRequest)
    /\ \E valid \in BOOLEAN :
         /\ NextRequest = "validate" \/ valid
         /\ cluster' = Applied(NextRequest, valid)
         /\ IF Stage = "validate-draft" /\ ~valid THEN Fail(0)
            ELSE IF Stage = "inject" /\ NextRequest # "activate"
            THEN smoke' = [smoke EXCEPT !.draft = NextRequest]
            ELSE EndStage(PassCheck(Stage, 0), NextRequest)

\* The server refuses, or answers too late: then the request may have been done.
RequestFailed ==
    /\ Running /\ Stage \in RequestStages
    /\ Fail(0)
    /\ \/ UNCHANGED cluster
       \/ Applicable(NextRequest) /\ cluster' = Applied(NextRequest, TRUE)

\* route: the binding of this run is projected; errors of the query are ignored.
Route ==
    /\ At("route")
    /\ \E ok \in Answers : IF ok /\ cluster.active = Own THEN Pass(0) ELSE Poll(0)
    /\ UNCHANGED cluster

\* diagnose_pipeline_gap: a warning for a binding or a runtime it cannot see.
GapWarnings(bindingsSeen, runtimeSeen) ==
    (IF bindingsSeen /\ cluster.active = Own THEN 0 ELSE 1) +
    (IF runtimeSeen /\ cluster.cached THEN 0 ELSE 1)

\* consume: the scope has a result, of whatever version.
Consume ==
    /\ At("consume")
    /\ \E ok, bindings, runtime \in Answers :
         IF ok /\ Page # << >> THEN Pass(0) ELSE Poll(GapWarnings(bindings, runtime))
    /\ UNCHANGED cluster

\* validate: one page must hold a passed result, and should hold a failed one.
Validate ==
    /\ At("validate")
    /\ \E ok \in Answers :
         LET warned == IF PageHas("failed") THEN 0 ELSE 1 IN
         IF ~ok THEN Fail(0)
         ELSE IF PageHas("passed") THEN Pass(warned) ELSE Fail(warned)
    /\ UNCHANGED cluster

\* bootstrap_alignment: the consumer's log is read first, the emulator's after
\* it; a log that cannot be read ends the stage without another poll.  A
\* generation that is active although the consumer has fetched another one
\* since was activated again.
AlignmentReads ==
    /\ At("bootstrap-alignment") /\ smoke.seen = None
    /\ LET log == cluster.loaded["consumer"] IN
         /\ log # None
         /\ smoke' = [smoke EXCEPT !.seen = log]
         /\ cluster' = [cluster EXCEPT
              !.again = cluster.active = log /\ cluster.queued # << >>,
              !.held  = EmulatorHas(cluster, log)]

\* Mutant: that both have loaded something is enough.
ComparesPresence ==
    /\ At("bootstrap-alignment")
    /\ \/ Fail(0)
       \/ /\ smoke.seen = None
          /\ cluster.loaded["consumer"] = None
          /\ Poll(0)
       \/ /\ smoke.seen # None
          /\ IF cluster.loaded["emulator"] # None THEN Pass(0) ELSE Poll(0)
    /\ UNCHANGED cluster

\* The generations are compared; the poll starts again when they differ.
AlignmentCompares ==
    /\ At("bootstrap-alignment")
    /\ \/ Fail(0)
       \/ /\ smoke.seen = None
          /\ cluster.loaded["consumer"] = None
          /\ Poll(0)
       \/ /\ smoke.seen # None
          /\ IF cluster.loaded["emulator"] = smoke.seen THEN Pass(0) ELSE Poll(0)
    /\ UNCHANGED cluster

\* wait-for-failures: the page holds a failed result.
WaitForFailures ==
    /\ At("wait-for-failures")
    /\ \E ok \in Answers : IF ok /\ PageHas("failed") THEN Pass(0) ELSE Poll(0)
    /\ UNCHANGED cluster

\* verify-violations fetches the page again: a failed result holds violations,
\* but newer results may have pushed it off the page.
VerifyViolations ==
    /\ At("verify-violations")
    /\ \E ok \in Answers : IF ok /\ PageHas("failed") THEN Pass(0) ELSE Fail(0)
    /\ UNCHANGED cluster

\* verify-active: another active version is a warning, a projection without
\* this run's version an error.
VerifyActive ==
    /\ At("verify-active")
    /\ \E active, projections \in Answers :
         LET errors == (IF active /\ cluster.active # None THEN 0 ELSE 1) +
                       (IF projections /\ cluster.active = Own THEN 0 ELSE 1)
             warned == IF active /\ cluster.active \notin {None, Own} THEN 1 ELSE 0
         IN  EndStage(FromFindings(Stage, errors, warned), smoke.draft)
    /\ UNCHANGED cluster

\* The queries of a scope nobody uses: something found there is a warning.
QueryMissing ==
    /\ Running /\ Stage \in {"query-missing-bindings", "query-missing-results"}
    /\ \E ok \in Answers, found \in BOOLEAN :
         EndStage(FromFindings(Stage, IF ok THEN 0 ELSE 1, IF ok /\ found THEN 1 ELSE 0),
                  smoke.draft)
    /\ UNCHANGED cluster

StageRuns ==
    \/ Bootstrap \/ Readiness \/ RequestAnswered \/ RequestFailed \/ Route
    \/ Consume \/ Validate \/ AlignmentReads \/ AlignmentCompares
    \/ WaitForFailures \/ VerifyViolations \/ VerifyActive \/ QueryMissing

-----------------------------------------------------------------------------
(* Properties *)

\* A report accounts for every stage of its test exactly once and in order,
\* nothing runs after a stage that failed, and it passes exactly when no stage
\* failed (run, run_stages_sequential, run_scenario and its hand-written skips).
SmokeReportComplete ==
    SmokeDone =>
        LET checks == smoke.checks
            failed == {i \in DOMAIN checks : checks[i].status = "fail"}
        IN  /\ [i \in DOMAIN checks |-> checks[i].name] = Stages(smoke.test)
            /\ SmokeReport.passed <=> failed = {}
            /\ smoke.test # "missing-binding" =>
                 \A i \in failed, j \in DOMAIN checks :
                     j > i <=> checks[j].status = "skip"

AlignmentPassed ==
    \E i \in DOMAIN smoke.checks :
        smoke.checks[i].name = "bootstrap-alignment" /\ smoke.checks[i].status = "pass"

\* The two logs of bootstrap-alignment are read one after the other while both
\* processes go on fetching, loading and logging: when the stage passes there
\* was a moment since the first read at which the consumer's newest line was of
\* the generation compared and the emulator had fetched it at least, unless
\* that very one was activated again (stages.rs bootstrap_alignment, run.go
\* reconcileBootstrapState).
HeldAtOneMoment == AlignmentPassed => cluster.held \/ cluster.again

=============================================================================
