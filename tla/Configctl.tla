------------------------------ MODULE Configctl ------------------------------
(***************************************************************************)
(* The config control plane: the aggregate of config versions with its     *)
(* lifecycle, the in-memory repository with its index buckets, the use     *)
(* cases that run over it, and the runtime events they put on the          *)
(* CONFIGCTL_EVENTS stream.                                                *)
(*                                                                         *)
(* ControlRouterActor handles one message at a time and runs each use case *)
(* to its end before the next, so a use case is one atomic action.  Inside *)
(* the action the repository calls are composed in the order of the code:  *)
(* a call is an operator from a database to a database.  Storage never     *)
(* fails (the context is context.Background()); publishing an event may.   *)
(***************************************************************************)
EXTENDS Naturals, Sequences

CONSTANTS
  Keys,            \* config keys; a key names one config set
  Scopes,          \* normalised activation scopes (kind:key)
  MaxVersions,     \* bound: version ids ever issued
  MaxActivations,  \* bound: activation ids ever issued
  MaxEvents,       \* bound: runtime events on the stream before a new activation
  Operations,      \* the use cases that are routed, and "restart"
  PublishMayFail,  \* can the publisher report a failure?
  None             \* absence of a value

VersionIDs    == 1 .. MaxVersions
ActivationIDs == 1 .. MaxActivations

AllOperations ==
  {"create_draft", "validate", "compile", "activate", "deactivate",
   "archive", "reject", "restart"}

ASSUME ConstantsAssumption ==
  /\ MaxVersions \in Nat
  /\ MaxActivations \in Nat
  /\ MaxEvents \in Nat
  /\ Operations \subseteq AllOperations
  /\ PublishMayFail \in BOOLEAN
  /\ None \notin Keys \cup Scopes \cup VersionIDs \cup ActivationIDs

VARIABLES
  db,        \* the repository, one field per bucket
  issued,    \* how many version and activation ids nextID() has issued
  announced, \* the lifecycle events <<kind, version>> stored on the stream
  stream     \* the runtime events stored on the stream, in order

vars == <<db, issued, announced, stream>>

-----------------------------------------------------------------------------
(* Domain: config versions, config sets, activations.                      *)

Lifecycles ==
  {"draft", "validated", "compiled", "active", "inactive", "archived", "rejected"}

\* wellFormed: InspectDocument finds no diagnostics in the source.  A version
\* that is not in a set has the lifecycle "absent".
Version ==
  [number : Nat, lifecycle : Lifecycles \cup {"absent"},
   wellFormed : BOOLEAN, document : BOOLEAN, artifact : BOOLEAN]

NoVersion ==
  [number |-> 0, lifecycle |-> "absent",
   wellFormed |-> FALSE, document |-> FALSE, artifact |-> FALSE]

\* A set is named by its key.  The set of a key that was never drafted, or whose
\* only draft was rolled back, has no version and current version 0.
ConfigSet == [currentVersion : Nat, versions : [VersionIDs -> Version]]

NoConfigSet ==
  [currentVersion |-> 0, versions |-> [v \in VersionIDs |-> NoVersion]]

\* An activation's id stands for its ActivatedAt too.
Activation ==
  [version : VersionIDs \cup {None}, scope : Scopes \cup {None},
   status : {"absent", "active", "deactivated"}]

NoActivation == [version |-> None, scope |-> None, status |-> "absent"]

IngestionRuntime ==
  [version : VersionIDs \cup {None}, activation : ActivationIDs \cup {None}]

NoRuntime == [version |-> None, activation |-> None]

InSet(set, v) == set.versions[v].lifecycle # "absent"

\* Mutant: a validated version does not count as an open candidate.
HasOpenCandidateDraftOnly(set) ==
  \E v \in VersionIDs : set.versions[v].lifecycle = "draft"

HasOpenCandidate(set) ==
  \E v \in VersionIDs : set.versions[v].lifecycle \in {"draft", "validated"}

\* NewConfigSet and CreateDraftVersion: the next number, as a draft.
DraftVersion(set, v, wellFormed) ==
  [currentVersion |-> set.currentVersion + 1,
   versions |->
     [set.versions EXCEPT ![v] =
        [number |-> set.currentVersion + 1, lifecycle |-> "draft",
         wellFormed |-> wellFormed, document |-> FALSE, artifact |-> FALSE]]]

WithLifecycle(set, v, lifecycle) ==
  [set EXCEPT !.versions[v].lifecycle = lifecycle]

ValidateVersion(set, v) ==
  [set EXCEPT !.versions[v] =
     [set.versions[v] EXCEPT !.lifecycle = "validated", !.document = TRUE]]

CompileVersion(set, v) ==
  [set EXCEPT !.versions[v] =
     [set.versions[v] EXCEPT !.lifecycle = "compiled", !.artifact = TRUE]]

ActivateVersion(set, v) == WithLifecycle(set, v, "active")

\* Mutant: the activation's status is written into the version's lifecycle.
DeactivateVersionStatus(set, v, stillActive) ==
  WithLifecycle(set, v, IF stillActive THEN "active" ELSE "deactivated")

DeactivateVersion(set, v, stillActive) ==
  WithLifecycle(set, v, IF stillActive THEN "active" ELSE "inactive")

ArchiveVersion(set, v) == WithLifecycle(set, v, "archived")

RejectVersion(set, v) == WithLifecycle(set, v, "rejected")

\* BuildRuntimeProjection and BuildIngestionRuntimeProjection succeed.
Projectable(version) == version.document /\ version.artifact

\* Mutant: a version that is active may be activated again.
ActivatableTwice(version) ==
  /\ Projectable(version)
  /\ version.lifecycle \in {"compiled", "inactive", "active"}

\* NewActivation, the two projections and ActivateVersion all succeed.
Activatable(version) ==
  /\ Projectable(version)
  /\ version.lifecycle \in {"compiled", "inactive"}

NewActivation(v, s) == [version |-> v, scope |-> s, status |-> "active"]

Deactivated(activation) == [activation EXCEPT !.status = "deactivated"]

-----------------------------------------------------------------------------
(* Repository: every write keeps the index buckets in step.                *)

VersionIndexes == SUBSET (VersionIDs \X ActivationIDs)

Database ==
  [configSets        : [Keys -> ConfigSet],
   byVersionID       : [VersionIDs -> Keys \cup {None}],
   activations       : [ActivationIDs -> Activation],
   byScope           : [Scopes -> ActivationIDs \cup {None}],
   byVersion         : VersionIndexes,
   ingestionRuntimes : [Scopes -> IngestionRuntime]]

EmptyDatabase ==
  [configSets        |-> [k \in Keys |-> NoConfigSet],
   byVersionID       |-> [v \in VersionIDs |-> None],
   activations       |-> [a \in ActivationIDs |-> NoActivation],
   byScope           |-> [s \in Scopes |-> None],
   byVersion         |-> {},
   ingestionRuntimes |-> [s \in Scopes |-> NoRuntime]]

\* Mutant: removeStaleConfigSetIndexes is not called.
SaveConfigSetKeepsStale(d, k, set) ==
  [d EXCEPT
     !.byVersionID = [v \in VersionIDs |-> IF InSet(set, v) THEN k ELSE d.byVersionID[v]],
     !.configSets[k] = set]

\* The version index after a save: entries of the new record are put, entries
\* only the old record had are removed, other sets' entries stay.
SaveConfigSet(d, k, set) ==
  [d EXCEPT
     !.byVersionID =
        [v \in VersionIDs |->
           IF InSet(set, v) THEN k
           ELSE IF InSet(d.configSets[k], v) THEN None ELSE d.byVersionID[v]],
     !.configSets[k] = set]

DeleteConfigSet(d, k) ==
  [d EXCEPT
     !.byVersionID =
        [v \in VersionIDs |->
           IF InSet(d.configSets[k], v) THEN None ELSE d.byVersionID[v]],
     !.configSets[k] = NoConfigSet]

\* deleteScopeIndexIfMatches
WithoutScopeEntry(byScope, s, a) ==
  [x \in Scopes |-> IF x = s /\ byScope[x] = a THEN None ELSE byScope[x]]

\* removeStaleActivationIndexes, then the puts of SaveActivation.
SaveActivation(d, a, activation) ==
  LET existing == d.activations[a]
      stale    == /\ existing.status = "active"
                  /\ \/ activation.status # "active"
                     \/ existing.scope # activation.scope
      kept     == IF stale THEN WithoutScopeEntry(d.byScope, existing.scope, a)
                           ELSE d.byScope
  IN  [d EXCEPT
         !.activations[a] = activation,
         !.byVersion = (@ \ {<<existing.version, a>>}) \cup {<<activation.version, a>>},
         !.byScope = IF activation.status = "active"
                       THEN [kept EXCEPT ![activation.scope] = a]
                       ELSE WithoutScopeEntry(kept, activation.scope, a)]

\* Mutant: the entry of activations_by_version is left behind.
DeleteActivationKeepsEntry(d, a) ==
  LET existing == d.activations[a]
  IN  [d EXCEPT
         !.activations[a] = NoActivation,
         !.byScope = WithoutScopeEntry(d.byScope, existing.scope, a)]

DeleteActivation(d, a) ==
  LET existing == d.activations[a]
  IN  [d EXCEPT
         !.activations[a] = NoActivation,
         !.byVersion = @ \ {<<existing.version, a>>},
         !.byScope = IF existing.status = "active"
                       THEN WithoutScopeEntry(d.byScope, existing.scope, a)
                       ELSE d.byScope]

SaveIngestionRuntime(d, s, runtime) ==
  [d EXCEPT !.ingestionRuntimes[s] = runtime]

DeleteIngestionRuntime(d, s) == SaveIngestionRuntime(d, s, NoRuntime)

ListActivationsByVersionID(d, v) == {a \in ActivationIDs : <<v, a>> \in d.byVersion}

HasOtherActiveActivation(d, v, a) ==
  \E b \in ListActivationsByVersionID(d, v) \ {a} : d.activations[b].status = "active"

-----------------------------------------------------------------------------
(* Publishing.  publishEvents stops at the first event whose publication    *)
(* reports an error.  A reported error does not say whether that event was  *)
(* stored: the request to the event router may time out after the write.    *)

PublishOutcomes(n) ==
  {[ok |-> TRUE, stored |-> n]} \cup
  {[ok |-> FALSE, stored |-> m] : m \in IF PublishMayFail THEN 0 .. n ELSE {}}

\* A deactivation's DeactivatedAt is written as the last activation issued before
\* it: a later activation has a later ActivatedAt.  The other kinds have no such time.
ActivatedEvent(v, a, s) ==
  [kind |-> "activated", version |-> v, activation |-> a, scope |-> s, deactivatedAt |-> 0]

DeactivatedEvent(v, a, s, at) ==
  [kind |-> "deactivated", version |-> v, activation |-> a, scope |-> s, deactivatedAt |-> at]

ChangedEvent(v, a, s) ==
  [kind |-> "ingestion_runtime_changed", version |-> v, activation |-> a, scope |-> s,
   deactivatedAt |-> 0]

ClearedEvent(s) == ChangedEvent(None, None, s)

Event ==
  [kind : {"activated", "deactivated", "ingestion_runtime_changed"},
   version : VersionIDs \cup {None}, activation : ActivationIDs \cup {None},
   scope : Scopes, deactivatedAt : Nat]

\* Mutant: the roll back is forgotten.
PublishLifecycleNoUndo(kind, v, saved, undone) ==
  \E outcome \in PublishOutcomes(1) :
    /\ db' = saved
    /\ announced' = announced \cup (IF outcome.stored = 1 THEN {<<kind, v>>} ELSE {})
    /\ UNCHANGED stream

\* The end of a use case with one lifecycle event: keep what was saved, or undo it.
PublishLifecycle(kind, v, saved, undone) ==
  \E outcome \in PublishOutcomes(1) :
    /\ db' = IF outcome.ok THEN saved ELSE undone
    /\ announced' = announced \cup (IF outcome.stored = 1 THEN {<<kind, v>>} ELSE {})
    /\ UNCHANGED stream

\* Mutant: the roll back is forgotten.
PublishRuntimeNoUndo(events, saved, undone) ==
  \E outcome \in PublishOutcomes(Len(events)) :
    /\ db' = saved
    /\ stream' = stream \o SubSeq(events, 1, outcome.stored)
    /\ UNCHANGED announced

\* The end of a use case with runtime events.
PublishRuntime(events, saved, undone) ==
  \E outcome \in PublishOutcomes(Len(events)) :
    /\ db' = IF outcome.ok THEN saved ELSE undone
    /\ stream' = stream \o SubSeq(events, 1, outcome.stored)
    /\ UNCHANGED announced

-----------------------------------------------------------------------------
(* Use cases.  A request the code refuses without touching anything is not  *)
(* a step: its guard is false.                                             *)

CreateDraft(k, wellFormed) ==
  LET set   == db.configSets[k]
      v     == issued.versions + 1
      saved == SaveConfigSet(db, k, DraftVersion(set, v, wellFormed))
  IN  /\ "create_draft" \in Operations
      /\ issued.versions < MaxVersions
      /\ ~HasOpenCandidate(set)
      /\ issued' = [issued EXCEPT !.versions = v]
      /\ PublishLifecycle("draft", v, saved,
                          IF set = NoConfigSet THEN DeleteConfigSet(saved, k)
                                               ELSE SaveConfigSet(saved, k, set))

\* validate, compile, archive and reject: load the set that holds v, change v,
\* save, publish; when publishing fails save the set as it was loaded.
ChangeVersion(kind, v, changed) ==
  LET k     == db.byVersionID[v]
      saved == SaveConfigSet(db, k, changed)
  IN  /\ PublishLifecycle(kind, v, saved, SaveConfigSet(saved, k, db.configSets[k]))
      /\ UNCHANGED issued

\* Mutant: any version whose source is well formed may be validated again.
ValidateConfigAgain(v) ==
  LET set == db.configSets[db.byVersionID[v]]
  IN  /\ "validate" \in Operations
      /\ db.byVersionID[v] # None
      /\ set.versions[v].wellFormed
      /\ ChangeVersion("validated", v, ValidateVersion(set, v))

ValidateConfig(v) ==
  LET set == db.configSets[db.byVersionID[v]]
  IN  /\ "validate" \in Operations
      /\ db.byVersionID[v] # None
      /\ set.versions[v].lifecycle = "draft"
      /\ set.versions[v].wellFormed
      /\ ChangeVersion("validated", v, ValidateVersion(set, v))

CompileConfig(v) ==
  LET set == db.configSets[db.byVersionID[v]]
  IN  /\ "compile" \in Operations
      /\ db.byVersionID[v] # None
      /\ set.versions[v].lifecycle = "validated"
      /\ set.versions[v].document
      /\ ChangeVersion("compiled", v, CompileVersion(set, v))

ArchiveConfig(v) ==
  LET set == db.configSets[db.byVersionID[v]]
  IN  /\ "archive" \in Operations
      /\ db.byVersionID[v] # None
      /\ set.versions[v].lifecycle \in
           {"draft", "validated", "compiled", "inactive", "rejected"}
      /\ ChangeVersion("archived", v, ArchiveVersion(set, v))

RejectConfig(v) ==
  LET set == db.configSets[db.byVersionID[v]]
  IN  /\ "reject" \in Operations
      /\ db.byVersionID[v] # None
      /\ set.versions[v].lifecycle \in {"draft", "validated"}
      /\ ChangeVersion("rejected", v, RejectVersion(set, v))

\* The activation that serves s can be loaded and deactivated.
CanDeactivate(d, s) ==
  LET activation == d.activations[d.byScope[s]]
      k          == d.byVersionID[activation.version]
      version    == d.configSets[k].versions[activation.version]
  IN  /\ d.byScope[s] # None
      /\ activation.status = "active"
      /\ k # None
      /\ version.lifecycle = "active"
      /\ Projectable(version)

\* Deactivate the activation that serves s: DeactivateVersion, SaveConfigSet,
\* SaveActivation.
DeactivateServing(d, s) ==
  LET a          == d.byScope[s]
      activation == d.activations[a]
      v          == activation.version
      k          == d.byVersionID[v]
      set        == DeactivateVersion(d.configSets[k], v, HasOtherActiveActivation(d, v, a))
  IN  SaveActivation(SaveConfigSet(d, k, set), a, Deactivated(activation))

\* The first half of ActivateConfig: what s serves is deactivated and saved
\* before the target is looked at.
Displaced(d, s) == IF d.byScope[s] = None THEN d ELSE DeactivateServing(d, s)

\* The second half: `set` is the copy loaded before the displacement was saved.
Activated(d, k, set, v, a, s) ==
  SaveIngestionRuntime(
    SaveActivation(SaveConfigSet(d, k, ActivateVersion(set, v)), a, NewActivation(v, s)),
    s, [version |-> v, activation |-> a])

\* Mutant: only the target's set is put back, the displaced version's is not.
RolledBackTargetOnly(before, d, k, a, s) ==
  LET prev       == before.byScope[s]
      activation == before.activations[prev]
      restored   == SaveConfigSet(d, k, before.configSets[k])
  IN  IF prev = None
        THEN DeleteIngestionRuntime(DeleteActivation(restored, a), s)
        ELSE SaveIngestionRuntime(
               SaveActivation(restored, prev, activation),
               s, [version |-> activation.version, activation |-> prev])

\* Mutant: the ingestion runtime of the displaced activation is not rebuilt.
RolledBackKeepsRuntime(before, d, k, a, s) ==
  LET prev       == before.byScope[s]
      activation == before.activations[prev]
      kp         == before.byVersionID[activation.version]
      restored   == SaveConfigSet(d, k, before.configSets[k])
  IN  IF prev = None
        THEN DeleteIngestionRuntime(DeleteActivation(restored, a), s)
        ELSE SaveActivation(SaveConfigSet(restored, kp, before.configSets[kp]), prev, activation)

\* Mutant: the displaced version's set is put back, the target's is not.
RolledBackKeepsTarget(before, d, k, a, s) ==
  LET prev       == before.byScope[s]
      activation == before.activations[prev]
      kp         == before.byVersionID[activation.version]
  IN  IF prev = None
        THEN DeleteIngestionRuntime(
               DeleteActivation(SaveConfigSet(d, k, before.configSets[k]), a), s)
        ELSE SaveIngestionRuntime(
               SaveActivation(SaveConfigSet(d, kp, before.configSets[kp]), prev, activation),
               s, [version |-> activation.version, activation |-> prev])

\* The undo of a failed publication, from the state `d` it left; `before` is the
\* database the use case started from.
RolledBack(before, d, k, a, s) ==
  LET prev       == before.byScope[s]
      activation == before.activations[prev]
      kp         == before.byVersionID[activation.version]
      restored   == SaveConfigSet(d, k, before.configSets[k])
  IN  IF prev = None
        THEN DeleteIngestionRuntime(DeleteActivation(restored, a), s)
        ELSE SaveIngestionRuntime(
               SaveActivation(SaveConfigSet(restored, kp, before.configSets[kp]),
                              prev, activation),
               s, [version |-> activation.version, activation |-> prev])

\* Mutant: the displacement is announced after the activation.
ActivationEventsSwapped(d, v, a, s) ==
  LET prev == d.byScope[s]
  IN  <<ActivatedEvent(v, a, s), ChangedEvent(v, a, s)>>
      \o (IF prev = None THEN <<>>
          ELSE <<DeactivatedEvent(d.activations[prev].version, prev, s, a - 1)>>)

\* The events of an activation, in the order they are published.
ActivationEvents(d, v, a, s) ==
  LET prev == d.byScope[s]
  IN  (IF prev = None THEN <<>>
       ELSE <<DeactivatedEvent(d.activations[prev].version, prev, s, a - 1)>>)
      \o <<ActivatedEvent(v, a, s), ChangedEvent(v, a, s)>>

ActivateConfig(v, s) ==
  LET k         == db.byVersionID[v]
      set       == db.configSets[k]
      a         == issued.activations + 1
      prev      == db.byScope[s]
      displaced == Displaced(db, s)
      activated == Activated(displaced, k, set, v, a, s)
  IN  /\ "activate" \in Operations
      /\ k # None
      /\ InSet(set, v)
      /\ prev # None => CanDeactivate(db, s)
      /\ \/ \* Conflict: returned with the displacement already saved
            /\ ~Activatable(set.versions[v])
            /\ db' = displaced
            /\ UNCHANGED <<issued, announced, stream>>
         \/ /\ Activatable(set.versions[v])
            /\ issued.activations < MaxActivations
            /\ Len(stream) <= MaxEvents
            /\ issued' = [issued EXCEPT !.activations = a]
            /\ PublishRuntime(ActivationEvents(db, v, a, s), activated,
                              RolledBack(db, activated, k, a, s))

DeactivateConfig(s) ==
  LET a          == db.byScope[s]
      activation == db.activations[a]
      v          == activation.version
      k          == db.byVersionID[v]
      saved      == DeleteIngestionRuntime(DeactivateServing(db, s), s)
      undone     == SaveIngestionRuntime(
                      SaveActivation(SaveConfigSet(saved, k, db.configSets[k]), a, activation),
                      s, [version |-> v, activation |-> a])
  IN  /\ "deactivate" \in Operations
      /\ a # None
      /\ CanDeactivate(db, s)
      /\ Len(stream) <= MaxEvents
      /\ PublishRuntime(<<DeactivatedEvent(v, a, s, issued.activations), ClearedEvent(s)>>, saved, undone)
      /\ UNCHANGED issued

\* The process stops or the actor is restarted: the repository lives in the
\* actor's memory, the stream on NATS's disk.
Restart ==
  /\ "restart" \in Operations
  /\ db # EmptyDatabase
  /\ db' = EmptyDatabase
  /\ UNCHANGED <<issued, announced, stream>>

-----------------------------------------------------------------------------
Init ==
  /\ db = EmptyDatabase
  /\ issued = [versions |-> 0, activations |-> 0]
  /\ announced = {}
  /\ stream = <<>>

Next ==
  \/ \E k \in Keys, wellFormed \in BOOLEAN : CreateDraft(k, wellFormed)
  \/ \E v \in VersionIDs : ValidateConfig(v)
  \/ \E v \in VersionIDs : CompileConfig(v)
  \/ \E v \in VersionIDs : ArchiveConfig(v)
  \/ \E v \in VersionIDs : RejectConfig(v)
  \/ \E v \in VersionIDs, s \in Scopes : ActivateConfig(v, s)
  \/ \E s \in Scopes : DeactivateConfig(s)
  \/ Restart

Spec == Init /\ [][Next]_vars

-----------------------------------------------------------------------------
(* What the queries answer.                                                *)

\* GetConfig: the scopes of the version's active activation records.
ActiveScopes(d, v) ==
  {d.activations[a].scope :
     a \in {b \in ListActivationsByVersionID(d, v) : d.activations[b].status = "active"}}

\* ListActiveRuntimeProjections without a filter: for every active activation of
\* every stored version, the runtime its scope serves.
ListActiveRuntimeProjections(d) ==
  {[scope |-> s, version |-> d.activations[d.byScope[s]].version, activation |-> d.byScope[s]] :
     s \in {x \in UNION {ActiveScopes(d, v) : v \in {w \in VersionIDs : d.byVersionID[w] # None}} :
             d.byScope[x] # None}}

\* ListActiveIngestionBindings without a filter: its compact runtimes.
ListActiveIngestionBindings(d) ==
  {[scope |-> s, version |-> d.ingestionRuntimes[s].version,
    activation |-> d.ingestionRuntimes[s].activation] :
     s \in {x \in Scopes : d.ingestionRuntimes[x] # NoRuntime}}

\* The runtime s serves, as both queries show it.
ServedRuntime(d, s) ==
  [scope |-> s, version |-> d.activations[d.byScope[s]].version, activation |-> d.byScope[s]]

-----------------------------------------------------------------------------
(* Properties.                                                             *)

\* Every variable has its type; the bounds on issued ids are kept.
TypeOK ==
  /\ db \in Database
  /\ issued \in [versions : 0 .. MaxVersions, activations : 0 .. MaxActivations]
  /\ announced \subseteq (Lifecycles \X VersionIDs)
  /\ stream \in Seq(Event)

\* The scope index never dangles: the activation it names exists, is active and
\* is of that scope, and its version is stored, is in lifecycle "active" and can
\* be projected.  So GetActivationByScope never reports a corrupted index, every
\* displacement of a served version succeeds, and no stale save, roll back or
\* archive takes a version from under the scope that serves it.
ServedIndexSound ==
  \A s \in Scopes : db.byScope[s] # None =>
    /\ CanDeactivate(db, s)
    /\ db.activations[db.byScope[s]].scope = s

\* by_version_id names exactly the set that holds the version, whichever drafts
\* were rolled back: getConfigSetByIndex never reports a corrupted index and a
\* rolled-back draft cannot be reached.
VersionIndexExact ==
  \A v \in VersionIDs, k \in Keys :
    db.byVersionID[v] = k <=> InSet(db.configSets[k], v)

\* activations_by_version lists exactly the stored activations of a version, and
\* a stored activation's version is stored: ListActivationsByVersionID is
\* complete and never reports a corrupted index.
ActivationIndexExact ==
  \A a \in ActivationIDs :
    LET activation == db.activations[a]
    IN  /\ \A v \in VersionIDs :
              <<v, a>> \in db.byVersion <=>
                activation.status # "absent" /\ activation.version = v
        /\ activation.status # "absent" =>
              /\ activation.version \in VersionIDs
              /\ activation.scope \in Scopes
              /\ db.byVersionID[activation.version] # None

\* What a scope serves is what both queries list for it: the projection derived
\* from the indexes, and the ingestion runtime stored beside them, which the
\* roll back of a failed activation rebuilds rather than restores.
ServedViewsAgree ==
  \A s \in Scopes : db.byScope[s] # None =>
    ServedRuntime(db, s) \in
      ListActiveRuntimeProjections(db) \cap ListActiveIngestionBindings(db)

\* A set never holds two open candidates (draft or validated), and its version
\* numbers are distinct and at most its current version, roll backs included.
OneOpenCandidate ==
  \A k \in Keys : \A v, w \in VersionIDs :
    LET set == db.configSets[k]
    IN  /\ v # w /\ InSet(set, v) /\ InSet(set, w) =>
             set.versions[v].number # set.versions[w].number
        /\ InSet(set, v) => set.versions[v].number \in 1 .. set.currentVersion
        /\ /\ set.versions[v].lifecycle \in {"draft", "validated"}
           /\ set.versions[w].lifecycle \in {"draft", "validated"}
           => v = w

\* No version serves two scopes: ActivateVersion refuses a version that is
\* already active, in whichever scope.
OneScopePerVersion ==
  \A s, t \in Scopes :
    /\ db.byScope[s] # None
    /\ db.byScope[t] # None
    /\ db.activations[db.byScope[s]].version = db.activations[db.byScope[t]].version
    => s = t

\* Whatever a scope serves was announced: its config.activated event is on the
\* stream, however many later activations failed half-way and were undone.
ServedWasAnnounced ==
  \A s \in Scopes : db.byScope[s] # None =>
    \E i \in 1 .. Len(stream) :
      stream[i] = ActivatedEvent(db.activations[db.byScope[s]].version, db.byScope[s], s)

\* A stored version's lifecycle was announced by its event: a use case whose
\* publication failed leaves no unannounced state behind.
LifecycleAnnounced ==
  \A k \in Keys, v \in VersionIDs :
    LET lifecycle == db.configSets[k].versions[v].lifecycle
    IN  lifecycle \in {"draft", "validated", "compiled", "archived", "rejected"}
          => <<lifecycle, v>> \in announced

LegalTransitions ==
  {<<"draft", "validated">>, <<"validated", "compiled">>,
   <<"compiled", "active">>, <<"inactive", "active">>, <<"active", "inactive">>,
   <<"draft", "rejected">>, <<"validated", "rejected">>}
  \cup {<<from, "archived">> :
          from \in {"draft", "validated", "compiled", "inactive", "rejected"}}

\* A stored version only takes the transitions of the domain's lifecycle: no save
\* of an older copy of a set moves a version back.
LifecycleSteps ==
  [][\A k \in Keys, v \in VersionIDs :
       LET from == db.configSets[k].versions[v].lifecycle
           to   == db'.configSets[k].versions[v].lifecycle
       IN  from # to /\ from # "absent" /\ to # "absent" => <<from, to>> \in LegalTransitions]_vars

\* While no publication fails, the last activation event of a served scope on the
\* stream is the one of the activation it serves, so a reader of the stream that
\* has caught up knows it.
StreamNamesServed ==
  \A s \in Scopes : db.byScope[s] # None =>
    \E i \in 1 .. Len(stream) :
      /\ stream[i] = ActivatedEvent(db.activations[db.byScope[s]].version, db.byScope[s], s)
      /\ \A j \in i + 1 .. Len(stream) :
           stream[j].scope = s => stream[j].kind = "ingestion_runtime_changed"

-----------------------------------------------------------------------------
(* Statements of the repository's docs and tests that the code does not    *)
(* meet.                                                                   *)

\* "Lifecycle transitions emit domain events": a step that moves a stored version
\* to another lifecycle puts an event on the stream.
TransitionsEmitEvents ==
  [][(\E k \in Keys, v \in VersionIDs :
        /\ InSet(db.configSets[k], v)
        /\ InSet(db'.configSets[k], v)
        /\ db'.configSets[k].versions[v].lifecycle # db.configSets[k].versions[v].lifecycle)
     => announced' # announced \/ stream' # stream]_vars

\* A failed activation is rolled back "to remove active scope": no activation
\* record stays active unless its scope serves it.
NoOrphanActivation ==
  \A a \in ActivationIDs :
    db.activations[a].status = "active" => db.byScope[db.activations[a].scope] = a

\* A deactivated version has the "inactive" lifecycle: a version is in lifecycle
\* "active" only while some activation record of it is active.
ActiveMeansActivated ==
  \A k \in Keys, v \in VersionIDs :
    db.configSets[k].versions[v].lifecycle = "active" => ActiveScopes(db, v) # {}
==============================================================================
