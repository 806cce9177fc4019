# Verification of quality-cluster

quality-cluster checks the quality of streaming data. A control plane keeps
versioned rule sets ("configs") and activates them in scopes; a data plane reads
Kafka topics, forwards their records over NATS JetStream, and validates them
against the active rules. raccoon-cli, a Rust program, guards the repository and the
running cluster: structural checks, a quality gate, smoke tests, drift from a baseline,
advice on what to run after a change. This directory holds TLA+ models of both, the TLC
runs that check them on small instances, and TLAPS proofs.

## Inventory

| Part | State | Operations | Talks to |
|---|---|---|---|
| configctl domain (`internal/domain/configctl`) | a config set: versions with number, lifecycle, document, artifact | draft, validate, compile, activate, deactivate, archive, reject | called by the use cases |
| configctl use cases (`internal/application/configctl`) | none | one per command and query; save, publish, undo on failure | repository, event publisher |
| repository (`internal/adapters/repositories/memory/configctl`) | seven buckets of one memdb: sets, activations, ingestion runtimes, four indexes | save, delete, get, list | memdb |
| memdb (`internal/shared/memdb`) | a map of buckets under a lock | View, Update, with copy on write | |
| configctl actors (`internal/actors/scopes/configctl`) | control router (owns the repository), event router, responders | one message at a time; request with a timeout to the event router | NATS request/reply, JetStream |
| NATS adapters (`internal/adapters/nats`) | durable consumers, publishers, codecs | publish with message id, ack, nak, term | NATS |
| validator (`internal/actors/scopes/validator`, `internal/application/validatorresults`) | runtime cache by scope; pending validations; the last 200 results | apply, evict, bootstrap; route, evaluate, record | two event durables, the data durable, query responders |
| consumer (`internal/actors/scopes/consumer`) | bootstrap view, current generation, topic consumers | refresh, replace generation, route a record to its bindings | configctl gateway, Kafka, JetStream |
| Kafka adapter (`internal/adapters/kafka`) | reader position | fetch, handle, commit | Kafka |
| runtime bootstrap (`internal/application/runtimebootstrap`) | none | poll until configctl and validator agree | configctl, validator |
| emulator, server (`cmd/`) | none, HTTP handlers | produce records; readiness, HTTP to NATS | Kafka, NATS |
| raccoon-cli checks (`tools/raccoon-cli/src/analyzers`, `codeintel`) | none: functions of the working tree | doctor, topology-doctor, contract-audit, runtime-bindings, arch-guard, drift-detect | the file system |
| raccoon-cli memory and advice (`analyzers`) | snapshots on disk | snapshot, snapshot-diff, baseline-drift, impact-map, coverage-map, tdd, recommend, symbol-trace, rename-safety, contract-usage-map | the Go index, gopls |
| raccoon-cli gate (`gate`) | steps so far, verdict | six static steps, then the smoke test | the checks, the smoke test |
| raccoon-cli smoke tests (`smoke`) | stages so far, what they carry on | runtime-smoke, five scenarios | HTTP, docker compose |
| raccoon-cli bridge (`lsp`) | a child process, two pipes, request ids | start, handshake, query, shutdown | gopls |
| raccoon-cli trace-pack (`trace_pack`) | a directory or an archive | collect, write, summarise, compress | HTTP, docker compose, disk |

What makes the system hard: a use case saves to several buckets and then
publishes several events, any of which may fail with the earlier ones already on
the stream; an undo rebuilds what it did not keep; the control plane loses its
memory at a restart while the stream does not; the validator reads activations
and deactivations from two durables that are not ordered with each other; the
consumer polls and replaces generations while messages of an old one are still
in flight; deliveries are at least once everywhere. In raccoon-cli: verdicts are put
together from partial ones that may be skipped, failed or promoted; a smoke test reads a
cluster that moves between two of its reads; a child process answers late, in pieces or
never; and several analyzers keep tables or walks of their own of the same thing, which
drift apart unnoticed.

## Modules

`Configctl` models the control plane: domain, use cases and repository.
ControlRouterActor handles one message at a time and each use case runs to its
end inside the handler, so a use case is one action, and inside it the
repository's calls are composed in the order of the code, each an operator from
a database to a database. State:

* `db`, the repository, with one field per bucket. A config set is named by its
  key, so `config_sets_by_key` and `config_sets` are one field;
* `issued`, how many ids were issued (`newID`). An activation's id also stands for
  its `ActivatedAt`;
* `announced` and `stream`, the events stored on `CONFIGCTL_EVENTS`: lifecycle
  events as a set, runtime events (activated, deactivated, ingestion runtime
  changed) in order.

Each use case that mutates is an action: `CreateDraft`, `ValidateConfig`,
`CompileConfig`, `ActivateConfig`, `DeactivateConfig`, `ArchiveConfig`,
`RejectConfig`; `Restart` empties the repository, which lives in the actor's
memory. A request the code refuses without a write is no step. Publishing may
report a failure after any number of stored events: the request to the event
router can time out after the write (`PublishOutcomes`). Documents are reduced to
"is well formed", which is all the lifecycle asks of them. Storage calls never
fail: the context is `context.Background()` and the buckets are in memory.

A version carries one document for good; ids are issued in order, so an id is also
the time it was issued.

`RuntimeCache` models the validator's view of what is served: `Load`, `Start` and
`LoadFails` are the supervisor's bootstrap, `Deliver` and `Redeliver` the callbacks
of the two durables (`Forward`: send to the cache actor, then ack), `HandleMessage`
the cache actor with `ApplyProjection` and `EvictScope`, `Crash` the end of the
process. `cursor` and `unacked` are the durables' state on NATS, `mailbox` and
`cache` live in the process. `RuntimePropagation` composes it with `Configctl`: the
durables read its `stream`, and `LoadFromConfigctl` asks its
`ListActiveRuntimeProjections`. The answer is kept in `reply` until `Start` uses it,
so the control plane may move on in between.

`Validation` models one scope's messages in the validator: `Deliver`, `Answer` and
`CallbackTimeout` are the durable and its callback (one message at a time), `DeliverGarbled`
the delivery of a message that does not decode and is terminated at once,
`RouteRefused`, `Route` and `Complete` the router with its `pending` map, `Work` and
`StoreTimeout` a worker, `Record` the results store. An actor handles one message at
a time, but waits inside a handler only where another actor is asked: the worker's
wait for the store is the variable `waiting`; the router's wait for the cache is
part of `Route`, because the cache never waits for anybody. `history` is a history
variable that no action reads. A message prefetched twice is not modelled: a second
delivery comes after the first was answered or timed out.

`ConsumerRuntime` models how the consumer follows the active bindings: `Subscribe`,
`Notify`, `TakeSignal`, `Tick`, `Poll` and `Refresh` are the bootstrap actor and its
refresh loop, `HandleMessage` and `StopSupervisor` the supervisor, `RuntimeStarts`,
`RuntimeFails` and `RuntimeStops` the generations. A poisoned actor handles what is
ahead of the poison, may handle more (the engine finishes the batch), and stops.
A crash of the process is not an action: nothing of this state outlives it.

`Ingestion` extends it with the records: `Produce` and `Assign` are Kafka (a producer; the
group, which gives the partition to one generation's member from the committed offset on),
`Fetch`, the routing to the bindings one publication after the other, and `Commit` are the
reader loop of a topic consumer with the router it calls, with their failures, and a
restart of the process. A generation that lost the partition still ends what it has in
hand and may commit late.

`ControlPlane` is the abstract specification of configctl: every version has a lifecycle,
every scope serves at most one version, and a use case changes both at once or neither.
There are no records, indexes, copies or undo in it. `ConfigctlRefinement` maps the
repository to it through the two lookups a client's query makes (`GetConfig` by the version
index, `GetActiveConfig` by the scope index) and states `ImplementsControlPlane`. What the
code does differently from what one would wish is in the abstract specification where a
client sees it: `Withdraw` also stands for an activation refused after it displaced what
its scope served, and `Serve` may leave the displaced version active.

`Raccoon` models one run of raccoon-cli, from its command line to its exit code, and
composes:

| Module | Models | State or functions |
|---|---|---|
| `Report` | reports, checks, their status and verdict | functions |
| `Gate` | quality-gate: profiles, fail-fast, promoted warnings, runtime step, verdict | `tree`, `gate` |
| `Smoke` | the stages of runtime-smoke and of five scenarios, beside a cluster that moves | `smoke`, `cluster` |
| `Gopls` | the bridge: framing, requests and late answers, failures, both shutdowns | `bridge`, `gopls` |
| `TracePack` | collection, writing, compression, removal, with their failures | `pack`, `disk` |
| `GoSource`, `Topology`, `RuntimeBindings`, `Contracts`, `DriftDetect` | the line scanners of source, compose, configurations and fixtures, and the checks on what they find | functions |
| `CodeIntel` | the index of the Go code: what each line adds to it | functions |
| `ArchGuard` | the boundaries between layers, read from the index | functions |
| `Snapshot` | snapshots, their difference, the drift from a baseline | functions |
| `Impact` | the four tables of sensitive areas: impact-map, coverage-map, tdd, recommend | functions |
| `Navigation`, `RenameSafety`, `ContractUsage` | three walks over the index: symbol-trace, rename-safety, contract-usage-map | functions |

The checks are functions of a project, a record of what they look at: paths, parsed
configurations, compose lines with their indentation, Go lines with the words of their
names. Text is reduced to what the parsers tell apart (a line's form, quoted words by kind,
names as the words of their camel case, because the code looks for parts of names). What
the parsers do not see, they do not see in the model: there is no Go grammar, and function
bodies are not read. A command that only prints ends with its exit code; properties speak of
what it prints. The cluster of `Smoke` is as much of the deployed system as its stages
observe. What its processes do comes from their code, one step for each thing another process
or a stage can come between: the consumer's bootstrap actor fetches (`ConsumerFetches`), its
supervisor logs when a runtime is ready (`ConsumerReports`), and what was replaced before that
is never logged; the emulator fetches (`EmulatorFetches`), ensures the topics and only then
takes the bootstrap over and logs it (`EmulatorReconciles`); the server is ready when it can
ask configctl and the validator has a runtime for what is active (`Ready`). The stage
bootstrap-alignment reads the newest line of the consumer's log, then of the emulator's, and
passes when both are of one generation. As the emulator may have fetched that generation while
it was active and log it after the consumer has moved on, both need never have had it loaded at
one moment, whatever the stage's name suggests; what a passed alignment does show is
`HeldAtOneMoment`: at one moment between the two reads the consumer's newest line was of that
generation and the emulator had it, logged or fetched and about to be taken over (or it was
activated again meanwhile).

A project also says what in it cannot be read (`unreadable`). topology-doctor and drift-detect
give up when the directory of configurations cannot be listed, contract-audit when a Go file of
the contracts cannot be read (`GivingUp`): the command ends with exit code 2, a step of the gate
is broken. What else cannot be read is an error in a report (`compose-parse`, `source-scan`), a
skipped check or nothing at all, as in the code. The child of
`Gopls` is modelled from how the bridge uses it.

`MC...` modules give the constants of the runs. The `...Proofs` modules hold the theorems
and nothing that a run depends on: `ConfigctlProofs`, `ConfigctlEventProofs` and
`ConfigctlRefinementProofs` those of `Configctl`, `PropagationProofs` of
`RuntimePropagation`, `ValidationProofs` of `Validation`, `ConsumerProofs` of
`ConsumerRuntime` and `Ingestion`, `RaccoonProofs` of everything `Raccoon` composes.
`Recursion` states induction and recursion on the naturals in a form the provers can use.

## Runs

| Run | Question | Properties | Instance |
|---|---|---|---|
| `configctl` | Do indexes, served runtimes and events stay consistent when publications fail and the router restarts, for the routed use cases and those not routed yet (deactivate, archive, reject)? Is what clients see the abstract control plane? | `TypeOK`, `ServedIndexSound`, `VersionIndexExact`, `ActivationIndexExact`, `ServedViewsAgree`, `OneOpenCandidate`, `OneScopePerVersion`, `ServedWasAnnounced`, `LifecycleAnnounced`, `LifecycleSteps`, `ImplementsControlPlane` | 2 keys, 2 scopes, 2 versions, 3 activations, a new activation only after at most 3 runtime events; 442,631 states |
| `propagation` | Without failing publications, does the stream name what is served, does a validator that has caught up hold it, does nothing late evict it, does it arrive for good? | `StreamNamesServed`, `ServedIsCached`, `ServedStaysCached`, `ServedEventuallyCached` | 2 keys, 1 scope, 2 versions, 3 activations, a crash, a lost ack, 2 events in the mailbox |
| `validation` | Are acks and terminations right with timeouts and late completions, does `pending` not leak, does the store keep the newest results once each, does every request complete? | `ValidationTypeOK`, `AckedWasRecorded`, `TerminatedForCause`, `PendingInFlight`, `StoreKeepsNewest`, `RequestsComplete` | 2 messages of different versions, one of which may not decode, 2 workers, 2 deliveries each, capacity 1, one reload or crash; 275,877 states |
| `consumer` | Is what the consumer reports as ready so, does one generation live on, is there no reload without a change, is nothing committed that was not published to every binding, does it converge? | `ConsumerTypeOK`, `ReadyMeansConsuming`, `ReplacedIsPoisoned`, `ReloadMeansChange`, `CommittedWasPublished`, `ConsumerConverges` | 2 views (the second with two bindings) and one that cannot be built, 2 messages in the mailbox; 2 inputs, each a change, a record or a restart; 527,455 states |
| `raccoon` | What may a reader believe of a passed gate, smoke test, pack, drift report or recommendation, and does every command with a bridge end? | `GateMeansClean`, `CountsMatchVerdict`, `SmokeReportComplete`, `HeldAtOneMoment`, `NoAnswerMixup`, `NoOrphanGopls`, `EvidenceIsKept`, `GreenIsWired`, `LayersHold`, `DriftSeesLosses`, `GuidanceAgrees`, `NavigationAgrees`, `BridgeAnswers` | 1,286 command lines (2,572 initial states) on a small healthy tree and about 70 edits of it, alone or in pairs, and with something in it that cannot be read; two clusters, an idle one and one where everything runs what another operator activated, up to 2 activations of others, a version they activate again included, 2 polls to a deadline, 2 results; one notification of gopls; 390,630 states |

The bounds are enough for the interesting cases: two versions of one set and of two
sets, a replacement and its undo, a replacement of a replacement; a scope served
again after it was cleared; an event delivered again after two later ones; a message
delivered while its first attempt is still under way, and one bound to the version before
or after a reload; a record in the hands of a generation that is being replaced; a stage
that polls, meets a cluster that changed and goes on; an answer that arrives after the next
request. For raccoon-cli an edit is one thing a developer may get wrong (a broker that
differs, a durable bound elsewhere, an import across layers, a contract renamed, a use of a
type in each kind of declaration), and pairs of edits are there where one could hide the
other. Ids and inputs are bounded, so every model stops when they are used up, and
requests come from outside: deadlock is not checked. Symmetry (of keys and scopes, which are
only compared) is used in runs of configctl only, which state no liveness.

What the raccoon properties say, in short: a gate passes exactly when each static step, run
by itself, passes and the smoke test did, whatever fail-fast skipped; the ci gate passes
exactly the trees without errors and warnings, and such a tree is wired from emulator to
validator, which no single check says; a tree without an error of arch-guard lets no layer
reach one further out through any chain of imports; a baseline drift that is no failure has
lost no exported contract and no method; the tables of tdd and recommend ask for what
impact-map and coverage-map ask for; every package whose declarations change when a symbol
is renamed was announced by rename-safety.

Runs that end in a violation show where code and documents part:

* `configctl_events` (`TransitionsEmitEvents`): `ActivateConfig` saves the
  displacement of what a scope serves before it looks at the target. When the target
  is refused, the displacement stays, nothing is published, and the ingestion
  bindings still list a runtime that the projections do not.
* `configctl_orphan` (`NoOrphanActivation`): the undo of a failed replacement leaves
  the new activation behind as active.
* `configctl_lifecycle` (`ActiveMeansActivated`): replacing a version by one of the
  same set writes the displaced version back as active, from a copy read earlier.
* `propagation_failure` (`ReplacementNeverStale`): a replacement that fails between
  its two events evicts from the validator the runtime that goes on being served.
* `validation_result` (`SettledHasResult`): messages bound to another version than
  the loaded one are terminated without a result.
* `consumer_cleared` (`ClearedStopsConsuming`): when the last binding goes, the
  consumer waits for the next and goes on consuming the old ones.
* `raccoon_isolation` (`IsolationLossReported`): baseline-drift looks for isolation losses
  among the import paths nobody imported before; a second directory of the domain that
  starts to import an infrastructure package another one imports already is not reported.

Every property of a passing run has a mutant, an operator beside the real one (its
comment starts with "Mutant") that makes a plausible mistake; with it TLC finds the
property violated.

## Fairness

Requests to configctl, failures, timeouts, crashes and lost acks are never assumed.
NATS goes on delivering what is not acked (`Deliver`, `Redeliver`, `Notify`); the actor
engine runs every actor that has a message (`HandleMessage`, `Work`, `Record`,
`Complete`, `Route`, `Refresh`); Docker starts a container that ended again (`restart:
unless-stopped`, hence fairness of `LoadFromConfigctl` after `Crash`). It does not start
a process that is alive without its supervisor (`WaitTillShutdown` waits for a signal
only), so a validator that is halted or not subscribed is an outcome of its own in
`ServedEventuallyCached`, and so is a stopped supervisor in `ConsumerConverges`.
`FairIngestionSpec` assumes the events or the ticker, never both, that the group gives the
partition to a member that wants it, and that a reader goes on (Go schedules its goroutine).
`RaccoonSpec` assumes that the program takes its next step, and that gopls answers what it
is asked and exits when it is told to: the bridge waits for an answer without a deadline of
its own, so `BridgeAnswers` can only be had from a child that does not hang (`MayHang`).
The cluster of the smoke tests is not assumed to do anything.
`ServedIsCached`, `ServedStaysCached` and `ServedEventuallyCached` assume that no
publication fails; `propagation_failure` shows why they must.

## Proofs

The theorems hold for every value of the constants: sets of keys, scopes, versions,
messages, views and sources of any size, any pool of workers and any bounds. They use the
named assumptions of the modules and nothing else: `ConstantsAssumption` and
`CacheConstantsAssumption` (the bounds are numbers, `None` is none of the values it stands
beside), `ValidationConstantsAssumption` and `ConsumerConstantsAssumption`,
`IngestionConstantsAssumption` (a view's bindings for the topic are a sequence that is not
empty), `SourcesAssumption` (a pack has at least one source, each with a file and a kind),
`GoplsAssumption` and `CommandLinesAssumption` (the command lines are such as the argument
parser lets through). For the trees raccoon-cli looks at: `DeploymentsAreFinite` (a directory
holds finitely many files), `FindingsAreCounted` (what a check counts are numbers: a `usize`
in the code), `IndexesAreFinite` (the index of a project and of the baseline is a list of
files; a file has finitely many imports, and a path is a list of names), `NoneIsNoLayer` (a
file outside `internal/` is in no layer), `FilesAreNotSymbols` (what `recommend` is given are
files, as its option in `main.rs` says, or come from `git`; a symbol among them would make
impact-map take a path for a declaration), `SourcesAreGo` (a Go file is lines as the parser
takes them, and none that belongs to the body of a type opens a declaration, which Go does not
allow; the parser, which has no grammar, would take such a line for a member), `NoneIsNoRole`
(a function that does nothing with a contract has no role), and `ClustersAssumption` (a smoke test starts on a
cluster that has loaded nothing, or versions that somebody activated before). TLC evaluates
them on the instances of the runs. Where a theorem needs that no publication
fails, `~PublishMayFail` is its hypothesis, and `propagation_failure` shows that it is needed.

| Theorem | States | In |
|---|---|---|
| `TypeCorrect`, `ServedIndexCorrect`, `VersionIndexCorrect`, `ActivationIndexCorrect` | `TypeOK`, `ServedIndexSound`, `VersionIndexExact`, `ActivationIndexExact` | `ConfigctlProofs` |
| `ControlPlaneImplemented`, `OneScopeCorrect`, `LifecycleCorrect` | `ImplementsControlPlane`, `OneScopePerVersion`, `LifecycleSteps` | `ConfigctlRefinementProofs` |
| `OneCandidate`, `StoredIsAnnounced`, `ServedIsAnnounced`, `ViewsAreOne`, `StreamIsCurrent` | `OneOpenCandidate`, `LifecycleAnnounced`, `ServedWasAnnounced`, `ServedViewsAgree`, `StreamNamesServed` | `ConfigctlEventProofs` |
| `CaughtUpIsCurrent`, `NothingLateEvicts` | `ServedIsCached`, `ServedStaysCached` | `PropagationProofs` |
| `ValidationTypeCorrect`, `AckAfterRecord`, `PendingNeverLeaks`, `TerminationHasCause`, `NewestAreKept` | `ValidationTypeOK`, `AckedWasRecorded`, `PendingInFlight`, `TerminatedForCause`, `StoreKeepsNewest` | `ValidationProofs` |
| `ConsumerTypeCorrect`, `ReadyIsConsuming`, `OneGenerationLives`, `ReloadIsChange`, `AtLeastOnce` | `ConsumerTypeOK`, `ReadyMeansConsuming`, `ReplacedIsPoisoned`, `ReloadMeansChange`, `CommittedWasPublished` | `ConsumerProofs` |
| `AnswersAreOwn`, `NoChildIsLeft`, `EvidenceSurvives`, `GreenMeansClean` | `NoAnswerMixup`, `NoOrphanGopls`, `EvidenceIsKept`, `GateMeansClean` | `RaccoonProofs` |
| `CountsAgree`, `ReportsAreWhole`, `AlignmentIsHeld` | `CountsMatchVerdict`, `SmokeReportComplete`, `HeldAtOneMoment` | `RaccoonProofs` |
| `GreenTreesAreWired`, `LayersAreKept`, `GuidanceIsOne`, `LossesAreSeen` | `GreenIsWired`, `LayersHold`, `GuidanceAgrees`, `DriftSeesLosses` | `RaccoonProofs` |
| `RenamesAreAnnounced` | `NavigationAgrees` | `RaccoonProofs` |

**The repository.** The inductive invariant is `IInv`: `TypeOK /\ DatabaseSound(db) /\
Fresh`. `DatabaseSound` joins the exactness of the indexes with what is served (`ServedIn`)
and the fact that compiled and served versions have what a projection needs (`CompiledIn`);
the served index alone is not inductive, because an undo writes back snapshots and is only
right when they belong to what the indexes name. `Fresh` says ids not yet issued occur
nowhere, so that a new version or activation disturbs no entry. Each repository operation
has a lemma that it preserves `DatabaseSound` under a condition on what is saved; each use
case composes them, one lemma for each stage of `ActivateConfig` (displaced, activated,
rolled back).

**The refinement** follows the same stages. `LifecycleView` and `ServingView` of a database
are computed once for each save (`ChangedView`, `WithdrawnView`, `ActivatedLifecycles`,
`ActivatedServing`): a displaced database is a `Withdraw`, an activated one a `Serve`, and a
rolled-back one has the views of the database before the use case (`RestoredStep`), so that a
failed publication is a stuttering step. The version index tells where a version is looked
for, which is why the refinement rests on `VersionIndexExact`. `OneScopeCorrect` is inductive
on the abstract state once it is joined with "a served version is active"; `LifecycleCorrect`
is read off the abstract steps.

**Events.** `LifecycleInv` adds the version numbers (`NumbersIn`) to `IInv`: a number after
`currentVersion` is new in its set only because every number is at most `currentVersion`, and
an undone draft has to put both back. `ServingInv` adds that the ingestion runtime of a
served scope is of what it serves (`RuntimesIn`), which `RolledBack` needs because it
rebuilds it from the displaced activation. Every runtime use case is reduced to one
statement, `AboutScope(s)`: the other scopes are left alone, every event it stores is about
`s` and dated in the step, and `s` serves nothing, what it served, or an activation the
stream ends with. `NamingInv` (the stream's last word on a scope) is read off it.

**The validator's cache.** `PropagationInv` adds two parts to `NamingInv`. `HistoryInv` says
of every event ever stored that it is harmless (`Harmless`) to a cache that holds what the
event's scope serves now: an activation is older or the served one, a deactivation is of
another version or earlier. That is the reason why an event may come late, again or out of
order, and it holds because ids are dates. `CacheInv` says that cache, answer and mailbox
hold only what is on the stream (`Provenance`), that a validator which does not serve holds
nothing (`Quiet`), and that what a scope serves is in the cache, in the mailbox, or after the
cursor of `config.activated` (`Informed`), where configctl's answer stands for the cache
while the validator starts: this makes a stale answer right. `ServedIsCached` is `Informed`
with nothing left to deliver; `ServedStaysCached` is `Harmless`, applied to the event handled.

**Validation.** `AckedWasRecorded` is a fact about a completion that may arrive after its
callback gave up, so `ValidationInv` follows an attempt through every mailbox: attempts
are numbered (`Attempted`), an attempt is about one message (`OneMessage`), a request's name
says its message and is never given twice (`RequestsNamed`), a completion without a problem
is of a recorded message (`ReportedWasRecorded`), and a final problem has its cause
(`Explained`). For `StoreKeepsNewest`, `StoreInv` says where each message is: the log of all
recordings gives a message the rank of the messages recorded after it (`Rank`), and the store
holds at place i + 1 the message of rank i, if the capacity reaches that far (`Holds`). A
recording moves its message to rank 0 and those that were before it back by one, which is what
removing it and putting it in front does.

**The consumer.** `ReplacedIsPoisoned` holds by `Linked` (the generation is the number of
runtimes) and `NewestLives`. `ReadyMeansConsuming` needs `MessagesTrue` and `ReadyTrue`: a
ready in the mailbox, or taken from it, is of a runtime that goes on or is followed by its
failure. `ReloadMeansChange` needs the loads on their way to differ from one another and from
what runs (`LoadsChained`), and `Counted`, that each costs a change of the bindings, gives the
type of the generation its bound. For `CommittedWasPublished`, `ReaderInv` says what a reader
has in hand (`InHand`): the bindings it has not published a record to are the last ones of
its view, and everything before its position is done.

**raccoon-cli.** `BridgeInv`: everything on its way answers a request sent before, and only
while an answer is read does its id decide the method (`AnswersMatch`); a child lives only
while its bridge runs (`ChildIsHeld`). `PackInv`: how far the pack has come (`PackProgress`),
and that it is whole in the directory until it is whole in the archive (`PackWhole`).
`GateInv`: each static step says what it would say by itself or is skipped behind a failure
(`StepsInPlace`, `BlockedByFailure`). `CountsInv`: every step's errors are a number, and a
failed step has some.

`SmokeInv` says how far a test has come (`SmokeProgress`): the stages before the position have
their checks in order, none of them failed while the test goes on, and once it ended
everything after the failure is a skip, so that the counts of the report add up.

`AlignInv` follows the generation the alignment reads of, first from the consumer, then from
the emulator (`ReadHolds`). As long as it is active and was not activated again, it is what the
consumer has logged and fetched last, because a process only fetches what is active. So if the
emulator comes to fetch it after the first read, the consumer's newest line is of it at that
moment, and if the emulator had it before, the read itself is the moment; when the emulator's
newest line is of it at the second read, it has it. The move that makes it so records it
(`BecomesHolds`, `MovesHold`).

`GreenIsWired`, `LayersHold` and `GuidanceAgrees` depend on the command line alone, which no
step changes; what is proved is that the checks, as functions of any tree, add up. For
`GreenIsWired` each report is a list of checks, a passed gate has no error and, under `ci`, no
warning in any of them (`Clean`), so that everything was there and could be read (`AllIsThere`,
`AllIsRead`), and what the checks compare two by two is put end to end. For `LayersHold` an import between layers goes to a lower depth (`Depth`), so
a chain does, whatever its length; a file's layer is where it is in the tree. For
`GuidanceAgrees` the four tables are compared area by area. `DriftSeesLosses` follows the exit
code back to the drift (`DriftExits`) and this to the differences of the snapshots: a map built
from a list of entries keeps the last of each key (`MapOf`), so a lost method is seen when its
interface shares package and name with no other type (`Alone`).

`NavigationAgrees` compares the index of a tree with that of the tree in which a symbol was
renamed. A file whose package rename-safety does not report neither declares nor names the
symbol (`QuietFile`), and the parser goes over its lines and over the renamed ones in step: at
every line it is at the same depth of the same block or body, and the types it has are not told
apart by a snapshot (`Same`, `Alike`; that a later state names nothing means that no earlier
one does, `CleanBefore`). So the entries of such a package are the same before and after
(`EntriesKept`), and no difference of a section is about it (`SectionKept`). An orphan has no
site, so every reference to it is of a kind the usage map does not look at
(`OrphanReferences`).

The reports' counters, the directories an import chain reaches, the store without one of
its results, the parser of types and the walk over the files are recursive functions over a
prefix of the data. `RecursionExists` of
`Recursion` gives their equations and `SetInduction` the inductions over them, from the
well-foundedness of the naturals in the library.

Only model-checked: liveness (`ServedEventuallyCached`, `RequestsComplete`,
`ConsumerConverges`, `BridgeAnswers`), which the proof system does not decide under fairness.
Every safety invariant and every action property of a passing run has a theorem.

## Not modelled

* The content of documents, rules and incidents: parsing, the rules' operators and the
  grouping are pure functions of data the other parts only carry. A message is reduced to
  whether it decodes and its evaluation yields a result.
* A rule's operator the compiled artifact does not support (`evaluate.go:36`): configctl compiles
  an artifact with the operators of its own rules. A record some bindings of a topic can be mapped
  for and others not (`topic_router.go:76`): the mapping looks at the record, at what all bindings
  of a topic share and at fields configctl fills in every binding, so `Ingestion` maps it for all
  or rejects it.
* Requests gopls might send to the bridge under an id the bridge waits for (`client.rs:324`): the
  bridge announces no capability for such requests.
* memdb's transactions of two callers: one actor owns the repository. NATS request and reply,
  and a caller's timeout while its request goes on.
* The emulator's records, which `Ingestion` takes as its environment (its bootstrap is in
  `Smoke`); the HTTP server but for its readiness, which `Smoke` has; the shared libraries.
* Time: an activation's id orders it, as an increasing clock does.
* raccoon-cli: rendering and wording; results-inspect and briefing, which print what others
  found; the process runner, whose outcomes `Smoke` and `TracePack` take as given; the
  detection of changed files from git; the loop in which contract-usage-map asks gopls; YAML
  bindings, which no fixture uses; the diagnosis of the durables in a pack's summary.

## Plan

1. `MemDB`: transactions of several callers, with the abstract specification of one
   map that changes at once, and a refinement mapping.
2. `RuleEvaluation` and `Incidents`: the operators and the grouping as functions
   against reference definitions, over bounded inputs.
3. `Readiness`: the four reads of the server, one step in `Smoke`, composed with `RuntimePropagation`; a
   caller's timeout in front of the control router; a clock that is set back.
4. The process runner of raccoon-cli, below `Smoke` and `TracePack`.

Theorems: type invariants of the bridge, the pack and the cache as theorems of their own once
runs state them; of the planned modules, the refinement of `MemDB` and the readers of
`Readiness`.
