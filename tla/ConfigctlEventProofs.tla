------------------------ MODULE ConfigctlEventProofs ------------------------
(***************************************************************************)
(* Proofs about what Configctl announces: the lifecycle events, the version *)
(* numbers they carry and the runtime events a reader of the stream sees,   *)
(* against what the repository holds and what the queries answer.           *)
(***************************************************************************)
EXTENDS ConfigctlProofs

-----------------------------------------------------------------------------
(* Lifecycle events.                                                       *)

\* The lifecycles a lifecycle event announces.
Announceable == {"draft", "validated", "compiled", "archived", "rejected"}

\* An event that was stored stays stored.
LEMMA AnnouncedGrows ==
  ASSUME Next
  PROVE  announced \subseteq announced'
<1>1. ASSUME NEW kind, NEW v, NEW saved, NEW undone, PublishLifecycle(kind, v, saved, undone)
      PROVE  announced \subseteq announced'
  BY <1>1 DEF PublishLifecycle
<1>2. ASSUME NEW events, NEW saved, NEW undone, PublishRuntime(events, saved, undone)
      PROVE  announced' = announced
  BY <1>2 DEF PublishRuntime
<1>3. ASSUME NEW k \in Keys, NEW wellFormed \in BOOLEAN, CreateDraft(k, wellFormed)
      PROVE  announced \subseteq announced'
  BY <1>1, <1>3 DEF CreateDraft
<1>4. ASSUME NEW v \in VersionIDs,
             ValidateConfig(v) \/ CompileConfig(v) \/ ArchiveConfig(v) \/ RejectConfig(v)
      PROVE  announced \subseteq announced'
  BY <1>1, <1>4 DEF ValidateConfig, CompileConfig, ArchiveConfig, RejectConfig, ChangeVersion
<1>5. ASSUME NEW v \in VersionIDs, NEW s \in Scopes, ActivateConfig(v, s)
      PROVE  announced' = announced
  BY <1>2, <1>5 DEF ActivateConfig
<1>6. ASSUME NEW s \in Scopes, DeactivateConfig(s)
      PROVE  announced' = announced
  BY <1>2, <1>6 DEF DeactivateConfig
<1>7. ASSUME Restart PROVE announced' = announced
  BY <1>7 DEF Restart
<1>8. QED
  BY <1>3, <1>4, <1>5, <1>6, <1>7 DEF Next

-----------------------------------------------------------------------------
(* Version numbers.                                                        *)

\* What OneOpenCandidate says of one set.
WellNumbered(set) ==
  /\ \A v, w \in VersionIDs : v # w /\ InSet(set, v) /\ InSet(set, w) =>
       set.versions[v].number # set.versions[w].number
  /\ \A v \in VersionIDs : InSet(set, v) => set.versions[v].number \in 1 .. set.currentVersion
  /\ \A v, w \in VersionIDs :
       /\ set.versions[v].lifecycle \in {"draft", "validated"}
       /\ set.versions[w].lifecycle \in {"draft", "validated"}
       => v = w

NumbersIn(d) == \A k \in Keys : WellNumbered(d.configSets[k])

\* `new` has the versions of `old` with their numbers, and no candidate more.
Narrowed(new, old) ==
  /\ new.currentVersion = old.currentVersion
  /\ \A v \in VersionIDs :
       /\ InSet(new, v) <=> InSet(old, v)
       /\ new.versions[v].number = old.versions[v].number
       /\ new.versions[v].lifecycle \in {"draft", "validated"}
            => old.versions[v].lifecycle \in {"draft", "validated"}

LEMMA NarrowedKeeps ==
  ASSUME NEW old, WellNumbered(old), NEW new, Narrowed(new, old)
  PROVE  WellNumbered(new)
  BY DEF WellNumbered, Narrowed

\* A set gets a draft only while it has no open candidate: the number after its
\* current version is new in it.
LEMMA DraftKeepsNumbers ==
  ASSUME NEW set \in ConfigSet, WellNumbered(set), ~HasOpenCandidate(set),
         NEW v \in VersionIDs, ~InSet(set, v), NEW wellFormed \in BOOLEAN
  PROVE  WellNumbered(DraftVersion(set, v, wellFormed))
<1> DEFINE new == DraftVersion(set, v, wellFormed)
           n == set.currentVersion
<1>1. n \in Nat /\ set.versions \in [VersionIDs -> Version]
  BY DEF ConfigSet
<1>2. /\ new.currentVersion = n + 1
      /\ new.versions[v].number = n + 1
      /\ new.versions[v].lifecycle = "draft"
      /\ \A w \in VersionIDs \ {v} : new.versions[w] = set.versions[w]
  BY <1>1 DEF DraftVersion
<1> HIDE DEF new
<1>3. \A w \in VersionIDs : InSet(set, w) => set.versions[w].number \in 1 .. n
  BY DEF WellNumbered
<1>4. \A w \in VersionIDs \ {v} :
        InSet(new, w) => InSet(set, w) /\ new.versions[w].number = set.versions[w].number
  BY <1>2 DEF InSet
<1>5. \A w \in VersionIDs \ {v} : InSet(new, w) => new.versions[w].number \in 1 .. n
  BY <1>3, <1>4
<1>6. \A w \in VersionIDs : InSet(new, w) => new.versions[w].number \in 1 .. n + 1
  BY <1>1, <1>2, <1>5
<1>7. ASSUME NEW u \in VersionIDs, NEW w \in VersionIDs, u # w, InSet(new, u), InSet(new, w)
      PROVE  new.versions[u].number # new.versions[w].number
  <2>1. CASE u = v
    BY <1>1, <1>2, <1>5, <1>7, <2>1
  <2>2. CASE w = v
    BY <1>1, <1>2, <1>5, <1>7, <2>2
  <2>3. CASE u # v /\ w # v
    BY <1>4, <1>7, <2>3 DEF WellNumbered
  <2>4. QED
    BY <2>1, <2>2, <2>3
<1>8. \A w \in VersionIDs \ {v} : new.versions[w].lifecycle \notin {"draft", "validated"}
  BY <1>2 DEF HasOpenCandidate
<1>9. new.currentVersion = n + 1
  BY <1>2
<1>10. WellNumbered(new)
  BY <1>6, <1>7, <1>8, <1>9 DEF WellNumbered
<1>11. QED
  BY <1>10 DEF new

-----------------------------------------------------------------------------
(* What the runtime use cases do to a set.                                 *)

\* `new` has the versions of `old` with their numbers; versions of it were activated
\* or deactivated.
ServedChange(new, old) ==
  /\ new.currentVersion = old.currentVersion
  /\ \A v \in VersionIDs :
       /\ InSet(new, v) <=> InSet(old, v)
       /\ new.versions[v].number = old.versions[v].number
       /\ \/ new.versions[v].lifecycle = old.versions[v].lifecycle
          \/ new.versions[v].lifecycle \in {"active", "inactive"}

\* Where the sets of e come from those of d.
ServedChanges(e, d) == \A k \in Keys : ServedChange(e.configSets[k], d.configSets[k])

LEMMA ServedChangeNarrows ==
  ASSUME NEW old, NEW new, ServedChange(new, old)
  PROVE  Narrowed(new, old)
  BY DEF ServedChange, Narrowed

LEMMA WithLifecycleServed ==
  ASSUME NEW set \in ConfigSet, NEW v \in VersionIDs, InSet(set, v), NEW l \in {"active", "inactive"}
  PROVE  ServedChange(WithLifecycle(set, v, l), set)
<1>1. set.versions \in [VersionIDs -> Version]
  BY DEF ConfigSet
<1>2. WithLifecycle(set, v, l) =
        [currentVersion |-> set.currentVersion,
         versions |-> [set.versions EXCEPT ![v] = [set.versions[v] EXCEPT !.lifecycle = l]]]
  BY DEF WithLifecycle, ConfigSet
<1>3. set.versions[v] \in Version
  BY <1>1
<1>4. /\ [set.versions[v] EXCEPT !.lifecycle = l].lifecycle = l
      /\ [set.versions[v] EXCEPT !.lifecycle = l].number = set.versions[v].number
  BY <1>3 DEF Version
<1>5. QED
  BY <1>1, <1>2, <1>4 DEF ServedChange, InSet

\* Deactivating what a scope serves: the sets, and the runtimes stored beside them.
LEMMA DeactivateServingSets ==
  ASSUME NEW d, DatabaseSound(d), NEW s \in Scopes, d.byScope[s] # None
  PROVE  /\ ServedChanges(DeactivateServing(d, s), d)
         /\ DeactivateServing(d, s).ingestionRuntimes = d.ingestionRuntimes
<1> DEFINE a == d.byScope[s]
           activation == d.activations[a]
           v == activation.version
           k == d.byVersionID[v]
           old == d.configSets[k]
           l == IF HasOtherActiveActivation(d, v, a) THEN "active" ELSE "inactive"
           set == WithLifecycle(old, v, l)
           f == SaveConfigSet(d, k, set)
           after == Deactivated(activation)
           e == SaveActivation(f, a, after)
<1>1. /\ a \in ActivationIDs
      /\ activation \in Activation
      /\ activation.scope = s
      /\ v \in VersionIDs
      /\ k \in Keys
      /\ old \in ConfigSet
      /\ InSet(old, v)
  BY ServedFacts
<1>2. d \in Database /\ d.configSets \in [Keys -> ConfigSet] /\ v = activation.version
      /\ old = d.configSets[k]
  BY DEF DatabaseSound, IndexSound, Database
<1>3. DeactivateServing(d, s) = e
  BY DEF DeactivateServing, DeactivateVersion
<1>4. l \in {"active", "inactive"}
  OBVIOUS
<1> HIDE DEF l, a, activation, v, k, old
<1>5. set \in ConfigSet /\ ServedChange(set, old)
  BY <1>1, <1>4, WithLifecycleFacts, WithLifecycleServed DEF Lifecycles
<1> HIDE DEF set
<1>6. /\ f \in Database
      /\ f.configSets = [d.configSets EXCEPT ![k] = set]
      /\ f.ingestionRuntimes = d.ingestionRuntimes
  <2>1. k \in Keys /\ set \in ConfigSet /\ d \in Database
    BY <1>1, <1>2, <1>5
  <2>2. QED
    BY <2>1, SaveConfigSetFields
<1> HIDE DEF f
<1>7. /\ after \in Activation
      /\ after.version \in VersionIDs
      /\ after.scope \in Scopes
  BY <1>1, <1>2 DEF Activation, Deactivated
<1> HIDE DEF after
<1>8. /\ e.configSets = f.configSets
      /\ e.ingestionRuntimes = f.ingestionRuntimes
  BY <1>1, <1>6, <1>7, SaveActivationFields
<1> HIDE DEF e
<1>9. ServedChanges(e, d)
  <2>1. \A j \in Keys : e.configSets[j] = IF j = k THEN set ELSE d.configSets[j]
    BY <1>1, <1>2, <1>6, <1>8
  <2>2. \A j \in Keys : ServedChange(d.configSets[j], d.configSets[j])
    BY DEF ServedChange
  <2>3. QED
    BY <1>2, <1>5, <2>1, <2>2 DEF ServedChanges
<1>10. QED
  BY <1>3, <1>6, <1>8, <1>9

\* Displacing what a scope serves, if it serves anything.
LEMMA DisplacedSets ==
  ASSUME NEW d, DatabaseSound(d), NEW s \in Scopes
  PROVE  /\ ServedChanges(Displaced(d, s), d)
         /\ Displaced(d, s).ingestionRuntimes = d.ingestionRuntimes
<1>1. CASE d.byScope[s] = None
  BY <1>1 DEF Displaced, ServedChanges, ServedChange
<1>2. CASE d.byScope[s] # None
  BY <1>2, DeactivateServingSets DEF Displaced
<1>3. QED
  BY <1>1, <1>2

\* An activation, refused, undone or done.
LEMMA ActivateConfigSets ==
  ASSUME IInv, NEW v \in VersionIDs, NEW s \in Scopes, ActivateConfig(v, s)
  PROVE  ServedChanges(db', db)
<1>1. DatabaseSound(db) /\ db.configSets \in [Keys -> ConfigSet] /\ VersionIndexIn(db)
  BY DEF IInv, DatabaseSound, IndexSound, Database
<1>2. ServedChanges(Displaced(db, s), db)
  BY <1>1, DisplacedSets
<1>3. ActivatesOrUndoes(v, s)
  BY ActivateConfigStep
<1>4. CASE db' = Displaced(db, s)
  BY <1>2, <1>4
<1>5. CASE RestoredFrom(db', db)
  BY <1>5 DEF RestoredFrom, ServedChanges, ServedChange
<1>6. ASSUME NEW k \in Keys, NEW a \in ActivationIDs, db.byVersionID[v] = k,
             ActivatedFrom(db', Displaced(db, s), db, k, v, a, s)
      PROVE  ServedChanges(db', db)
  <2>1. /\ \A j \in Keys \ {k} : db'.configSets[j] = Displaced(db, s).configSets[j]
        /\ db'.configSets[k] = ActivateVersion(db.configSets[k], v)
    BY <1>6 DEF ActivatedFrom
  <2>2. db.configSets[k] \in ConfigSet /\ InSet(db.configSets[k], v)
    BY <1>1, <1>6 DEF VersionIndexIn
  <2>3. ServedChange(db'.configSets[k], db.configSets[k])
    BY <2>1, <2>2, WithLifecycleServed DEF ActivateVersion
  <2>4. ASSUME NEW j \in Keys \ {k} PROVE ServedChange(db'.configSets[j], db.configSets[j])
    BY <1>2, <2>1 DEF ServedChanges
  <2>5. QED
    BY <2>3, <2>4 DEF ServedChanges
<1>7. QED
  BY <1>3, <1>4, <1>5, <1>6 DEF ActivatesOrUndoes

\* A deactivation, undone or done.
LEMMA DeactivateConfigSets ==
  ASSUME IInv, NEW s \in Scopes, DeactivateConfig(s)
  PROVE  ServedChanges(db', db)
<1>1. RestoredFrom(db', db) \/ WithdrawnFrom(db', db, s)
  BY DeactivateConfigStep
<1>2. CASE RestoredFrom(db', db)
  BY <1>2 DEF RestoredFrom, ServedChanges, ServedChange
<1>3. CASE WithdrawnFrom(db', db, s)
  <2>1. DatabaseSound(db) /\ db.byScope[s] # None
    BY DEF IInv, DeactivateConfig
  <2>2. ServedChanges(DeactivateServing(db, s), db)
    BY <2>1, DeactivateServingSets
  <2>3. QED
    BY <1>3, <2>2 DEF WithdrawnFrom, ServedChanges
<1>4. QED
  BY <1>1, <1>2, <1>3

-----------------------------------------------------------------------------
(* Every step keeps the numbers and announces what it stores.              *)

\* A version validated, compiled, archived or rejected.
LEMMA MovedNarrows ==
  ASSUME NEW d, VersionIndexIn(d), NEW e, NEW k \in Keys, NEW v \in VersionIDs,
         NEW l \in {"validated", "compiled", "archived", "rejected"},
         l = "validated" => d.configSets[k].versions[v].lifecycle = "draft",
         MovedFrom(e, d, k, v, l)
  PROVE  Narrowed(e.configSets[k], d.configSets[k])
<1>1. InSet(d.configSets[k], v)
  BY DEF MovedFrom, VersionIndexIn
<1>2. QED
  BY <1>1 DEF MovedFrom, Narrowed, InSet

LEMMA MoveKeeps ==
  ASSUME IInv, NumbersIn(db), LifecycleAnnounced, announced \subseteq announced',
         NEW v \in VersionIDs, NEW l \in {"validated", "compiled", "archived", "rejected"},
         l = "validated" => db.configSets[db.byVersionID[v]].versions[v].lifecycle = "draft",
         MovesOrUndoes(v, l)
  PROVE  NumbersIn(db') /\ LifecycleAnnounced'
<1>1. CASE db' = db
  BY <1>1 DEF LifecycleAnnounced
<1>2. ASSUME NEW k \in Keys, MovedFrom(db', db, k, v, l), <<l, v>> \in announced'
      PROVE  NumbersIn(db') /\ LifecycleAnnounced'
  <2>1. /\ db.byVersionID[v] = k
        /\ \A j \in Keys \ {k} : db'.configSets[j] = db.configSets[j]
        /\ \A w \in VersionIDs \ {v} : db'.configSets[k].versions[w] = db.configSets[k].versions[w]
        /\ db'.configSets[k].versions[v].lifecycle = l
    BY <1>2 DEF MovedFrom
  <2>2. VersionIndexIn(db)
    BY DEF IInv, DatabaseSound, IndexSound
  <2>3. Narrowed(db'.configSets[k], db.configSets[k])
    BY <1>2, <2>1, <2>2, MovedNarrows
  <2>4. WellNumbered(db'.configSets[k])
    BY <2>3, NarrowedKeeps DEF NumbersIn
  <2>5. NumbersIn(db')
    BY <2>1, <2>4 DEF NumbersIn
  <2>6. ASSUME NEW j \in Keys, NEW w \in VersionIDs,
               db'.configSets[j].versions[w].lifecycle \in Announceable
        PROVE  <<db'.configSets[j].versions[w].lifecycle, w>> \in announced'
    <3>1. CASE j = k /\ w = v
      BY <1>2, <2>1, <3>1
    <3>2. CASE j # k \/ w # v
      BY <2>1, <2>6, <3>2 DEF LifecycleAnnounced, Announceable
    <3>3. QED
      BY <3>1, <3>2
  <2>7. QED
    BY <2>5, <2>6 DEF LifecycleAnnounced, Announceable
<1>3. QED
  BY <1>1, <1>2 DEF MovesOrUndoes

LEMMA ServedChangesKeep ==
  ASSUME NumbersIn(db), LifecycleAnnounced, announced \subseteq announced', ServedChanges(db', db)
  PROVE  NumbersIn(db') /\ LifecycleAnnounced'
<1>1. NumbersIn(db')
  BY ServedChangeNarrows, NarrowedKeeps DEF NumbersIn, ServedChanges
<1>2. ASSUME NEW k \in Keys, NEW v \in VersionIDs,
             db'.configSets[k].versions[v].lifecycle \in Announceable
      PROVE  <<db'.configSets[k].versions[v].lifecycle, v>> \in announced'
  <2>1. db'.configSets[k].versions[v].lifecycle = db.configSets[k].versions[v].lifecycle
    BY <1>2 DEF ServedChanges, ServedChange, Announceable
  <2>2. QED
    BY <1>2, <2>1 DEF LifecycleAnnounced, Announceable
<1>3. QED
  BY <1>1, <1>2 DEF LifecycleAnnounced, Announceable

LEMMA DraftKeeps ==
  ASSUME IInv, NumbersIn(db), LifecycleAnnounced, announced \subseteq announced',
         NEW k \in Keys, NEW wellFormed \in BOOLEAN, CreateDraft(k, wellFormed)
  PROVE  NumbersIn(db') /\ LifecycleAnnounced'
<1> DEFINE u == issued.versions + 1
<1>1. \/ db' = db
      \/ DraftedFrom(db', db, k, u, wellFormed) /\ <<"draft", u>> \in announced'
  BY CreateDraftStep
<1>2. ~HasOpenCandidate(db.configSets[k])
  BY DEF CreateDraft
<1> HIDE DEF u
<1>3. CASE db' = db
  BY <1>3 DEF LifecycleAnnounced
<1>4. CASE DraftedFrom(db', db, k, u, wellFormed) /\ <<"draft", u>> \in announced'
  <2> DEFINE set == db.configSets[k]
             new == DraftVersion(set, u, wellFormed)
  <2>1. /\ u \in VersionIDs
        /\ db.byVersionID[u] = None
        /\ db'.configSets = [db.configSets EXCEPT ![k] = new]
    BY <1>4 DEF DraftedFrom
  <2>2. db.configSets \in [Keys -> ConfigSet] /\ VersionIndexIn(db)
    BY DEF IInv, DatabaseSound, IndexSound, Database
  <2>3. set \in ConfigSet /\ ~InSet(set, u) /\ WellNumbered(set)
    BY <2>1, <2>2, ConstantsAssumption DEF VersionIndexIn, NumbersIn
  <2>4. WellNumbered(new)
    BY <1>2, <2>1, <2>3, DraftKeepsNumbers
  <2>5. db'.configSets[k] = new /\ \A j \in Keys \ {k} : db'.configSets[j] = db.configSets[j]
    BY <2>1, <2>2
  <2>6. NumbersIn(db')
    BY <2>4, <2>5 DEF NumbersIn
  <2>7. new.versions[u].lifecycle = "draft" /\ \A w \in VersionIDs \ {u} : new.versions[w] = set.versions[w]
    BY <2>1, <2>3 DEF DraftVersion, ConfigSet
  <2> HIDE DEF new
  <2>8. ASSUME NEW j \in Keys, NEW w \in VersionIDs,
               db'.configSets[j].versions[w].lifecycle \in Announceable
        PROVE  <<db'.configSets[j].versions[w].lifecycle, w>> \in announced'
    <3>1. CASE j = k /\ w = u
      BY <1>4, <2>5, <2>7, <3>1
    <3>2. CASE j # k \/ w # u
      BY <2>5, <2>7, <2>8, <3>2 DEF LifecycleAnnounced, Announceable
    <3>3. QED
      BY <3>1, <3>2
  <2>9. QED
    BY <2>6, <2>8 DEF LifecycleAnnounced, Announceable
<1>5. QED
  BY <1>1, <1>3, <1>4

LEMMA EmptyNumbers ==
  /\ NumbersIn(EmptyDatabase)
  /\ \A k \in Keys, v \in VersionIDs : EmptyDatabase.configSets[k].versions[v].lifecycle = "absent"
<1>1. \A k \in Keys, v \in VersionIDs : EmptyDatabase.configSets[k].versions[v].lifecycle = "absent"
  BY DEF EmptyDatabase, NoConfigSet, NoVersion
<1>2. QED
  BY <1>1 DEF NumbersIn, WellNumbered, InSet

\* The invariant of the stored lifecycles.
LifecycleInv == IInv /\ NumbersIn(db) /\ LifecycleAnnounced

LEMMA LifecycleInvInit == Init => LifecycleInv
<1> SUFFICES ASSUME Init PROVE LifecycleInv
  OBVIOUS
<1>1. QED
  BY InitIInv, EmptyNumbers DEF Init, LifecycleInv, LifecycleAnnounced

LEMMA LifecycleInvNext == LifecycleInv /\ [Next]_vars => LifecycleInv'
<1> SUFFICES ASSUME LifecycleInv, [Next]_vars PROVE NumbersIn(db') /\ LifecycleAnnounced'
  BY NextIInv DEF LifecycleInv
<1>1. IInv /\ NumbersIn(db) /\ LifecycleAnnounced
  BY DEF LifecycleInv
<1>2. CASE UNCHANGED vars
  BY <1>1, <1>2 DEF vars, LifecycleAnnounced
<1>3. CASE Next
  <2>1. announced \subseteq announced'
    BY <1>3, AnnouncedGrows
  <2>2. ASSUME NEW k \in Keys, NEW wellFormed \in BOOLEAN, CreateDraft(k, wellFormed)
        PROVE  NumbersIn(db') /\ LifecycleAnnounced'
    BY <1>1, <2>1, <2>2, DraftKeeps
  <2>3. ASSUME NEW v \in VersionIDs, ValidateConfig(v)
        PROVE  NumbersIn(db') /\ LifecycleAnnounced'
    <3>1. db.configSets[db.byVersionID[v]].versions[v].lifecycle = "draft"
      BY <2>3 DEF ValidateConfig
    <3>2. MovesOrUndoes(v, "validated")
      BY <1>1, <2>3, ValidateConfigStep
    <3>3. QED
      BY <1>1, <2>1, <3>1, <3>2, MoveKeeps
  <2>4. ASSUME NEW v \in VersionIDs, CompileConfig(v)
        PROVE  NumbersIn(db') /\ LifecycleAnnounced'
    <3>1. MovesOrUndoes(v, "compiled")
      BY <1>1, <2>4, CompileConfigStep
    <3>2. QED
      BY <1>1, <2>1, <3>1, MoveKeeps
  <2>5. ASSUME NEW v \in VersionIDs, ArchiveConfig(v)
        PROVE  NumbersIn(db') /\ LifecycleAnnounced'
    <3>1. MovesOrUndoes(v, "archived")
      BY <1>1, <2>5, ArchiveConfigStep
    <3>2. QED
      BY <1>1, <2>1, <3>1, MoveKeeps
  <2>6. ASSUME NEW v \in VersionIDs, RejectConfig(v)
        PROVE  NumbersIn(db') /\ LifecycleAnnounced'
    <3>1. MovesOrUndoes(v, "rejected")
      BY <1>1, <2>6, RejectConfigStep
    <3>2. QED
      BY <1>1, <2>1, <3>1, MoveKeeps
  <2>7. ASSUME NEW v \in VersionIDs, NEW s \in Scopes, ActivateConfig(v, s)
        PROVE  NumbersIn(db') /\ LifecycleAnnounced'
    BY <1>1, <2>1, <2>7, ActivateConfigSets, ServedChangesKeep
  <2>8. ASSUME NEW s \in Scopes, DeactivateConfig(s)
        PROVE  NumbersIn(db') /\ LifecycleAnnounced'
    BY <1>1, <2>1, <2>8, DeactivateConfigSets, ServedChangesKeep
  <2>9. CASE Restart
    BY <2>9, EmptyNumbers DEF Restart, LifecycleAnnounced
  <2>10. QED
    BY <1>3, <2>2, <2>3, <2>4, <2>5, <2>6, <2>7, <2>8, <2>9 DEF Next
<1>4. QED
  BY <1>2, <1>3

\* A set never holds two open candidates and never reuses a number, roll backs of
\* failed publications included.
THEOREM OneCandidate == Spec => []OneOpenCandidate
<1>1. LifecycleInv => OneOpenCandidate
  BY DEF LifecycleInv, NumbersIn, WellNumbered, OneOpenCandidate
<1>2. QED
  BY <1>1, LifecycleInvInit, LifecycleInvNext, PTL DEF Spec

\* A stored version is in no lifecycle that its event has not announced.
THEOREM StoredIsAnnounced == Spec => []LifecycleAnnounced
<1>1. LifecycleInv => LifecycleAnnounced
  BY DEF LifecycleInv
<1>2. QED
  BY <1>1, LifecycleInvInit, LifecycleInvNext, PTL DEF Spec

-----------------------------------------------------------------------------
(* Runtime events: what a use case about one scope does to the stream, to the *)
(* scopes and to the runtimes stored beside them.                             *)

\* The stream got events, the first events of `events`.
Appends(events) ==
  /\ stream' \in Seq(Event)
  /\ Len(stream) <= Len(stream')
  /\ \A i \in 1 .. Len(stream) : stream'[i] = stream[i]
  /\ \A i \in Len(stream) + 1 .. Len(stream') :
       /\ i - Len(stream) \in 1 .. Len(events)
       /\ stream'[i] = events[i - Len(stream)]

\* A use case with runtime events publishes them all, or undoes what it saved.
LEMMA PublishRuntimeEnds ==
  ASSUME stream \in Seq(Event), NEW events \in Seq(Event), NEW saved, NEW undone,
         PublishRuntime(events, saved, undone)
  PROVE  /\ Appends(events)
         /\ \/ db' = saved /\ Len(stream') = Len(stream) + Len(events)
            \/ db' = undone /\ PublishMayFail
<1>1. PICK outcome \in PublishOutcomes(Len(events)) :
        /\ db' = IF outcome.ok THEN saved ELSE undone
        /\ stream' = stream \o SubSeq(events, 1, outcome.stored)
  BY DEF PublishRuntime
<1> DEFINE m == outcome.stored
           stored == SubSeq(events, 1, m)
<1>2. Len(events) \in Nat /\ Len(stream) \in Nat
  OBVIOUS
<1>3. /\ m \in 0 .. Len(events)
      /\ outcome.ok => m = Len(events)
      /\ ~outcome.ok => PublishMayFail
  BY <1>2, ConstantsAssumption DEF PublishOutcomes
<1> HIDE DEF m
<1>4. /\ stored \in Seq(Event)
      /\ Len(stored) = m
      /\ \A i \in 1 .. m : stored[i] = events[i]
  <2>1. m \in Int /\ 1 \in Int /\ \A i \in 1 .. m : events[i] \in Event
    BY <1>2, <1>3
  <2>2. /\ stored \in Seq(Event)
        /\ Len(stored) = IF 1 <= m THEN m - 1 + 1 ELSE 0
        /\ \A i \in 1 .. m - 1 + 1 : stored[i] = events[1 + i - 1]
    BY <2>1, SubSeqProperties
  <2>3. QED
    BY <1>2, <1>3, <2>2
<1>5. stream' = stream \o stored
  BY <1>1 DEF m
<1> HIDE DEF stored
<1>6. /\ stream' \in Seq(Event)
      /\ Len(stream') = Len(stream) + m
      /\ \A i \in 1 .. Len(stream) + m :
           stream'[i] = IF i <= Len(stream) THEN stream[i] ELSE stored[i - Len(stream)]
  <2> DEFINE longer == stream \o stored
  <2>1. /\ longer \in Seq(Event)
        /\ Len(longer) = Len(stream) + Len(stored)
        /\ \A i \in 1 .. Len(stream) + Len(stored) :
             longer[i] = IF i <= Len(stream) THEN stream[i] ELSE stored[i - Len(stream)]
    BY <1>4, ConcatProperties
  <2>2. stream' = longer
    BY <1>5
  <2> HIDE DEF longer
  <2>3. QED
    BY <1>4, <2>1, <2>2
<1>7. Appends(events)
  <2>1. ASSUME NEW i \in Len(stream) + 1 .. Len(stream')
        PROVE  /\ i - Len(stream) \in 1 .. Len(events)
               /\ stream'[i] = events[i - Len(stream)]
    <3>1. i - Len(stream) \in 1 .. m /\ i \in 1 .. Len(stream) + m /\ ~(i <= Len(stream))
      BY <1>2, <1>3, <1>6
    <3>2. QED
      BY <1>2, <1>3, <1>4, <1>6, <3>1
  <2>2. QED
    BY <1>2, <1>3, <1>6, <2>1 DEF Appends
<1>8. QED
  BY <1>1, <1>3, <1>6, <1>7

\* Scope t serves in e what it serves in d, with the same runtime.
ScopeKept(e, d, t) ==
  /\ e.byScope[t] = d.byScope[t]
  /\ d.byScope[t] # None =>
       /\ e.activations[d.byScope[t]] = d.activations[d.byScope[t]]
       /\ e.ingestionRuntimes[t] = d.ingestionRuntimes[t]

\* What a scope serves is also the ingestion runtime stored for it.
RuntimeOf(d, s) ==
  [version |-> d.activations[d.byScope[s]].version, activation |-> d.byScope[s]]

RuntimesIn(d) ==
  \A s \in Scopes : d.byScope[s] # None => d.ingestionRuntimes[s] = RuntimeOf(d, s)

\* In e, activation a of v serves s.
ServesNow(e, v, a, s) ==
  /\ e.byScope[s] = a
  /\ e.activations[a] = NewActivation(v, s)
  /\ e.ingestionRuntimes[s] = [version |-> v, activation |-> a]

\* The stream ends with the two events of an activation.
EndsWithActivation(log, v, a, s) ==
  \E i \in 1 .. Len(log) :
    /\ log[i] = ActivatedEvent(v, a, s)
    /\ \A j \in i + 1 .. Len(log) : log[j] = ChangedEvent(v, a, s)

\* The dates of an event of a step before which n activations had been issued, and
\* after which m: it activates what the step issued, and deactivates as of before it.
DatedIn(event, n, m) ==
  /\ event.kind = "activated" =>
       event.version \in VersionIDs /\ event.activation \in n + 1 .. m
  /\ event.kind = "deactivated" => event.deactivatedAt <= n

\* In the step, activation a of v is issued and begins to serve s, the stream ends
\* with its events, and no other activation is announced.
BeginsToServe(v, a, s) ==
  /\ a > issued.activations
  /\ ServesNow(db', v, a, s)
  /\ EndsWithActivation(stream', v, a, s)
  /\ \A i \in Len(stream) + 1 .. Len(stream') :
       stream'[i].kind = "activated" => stream'[i] = ActivatedEvent(v, a, s)

\* A step of a use case about scope s: the other scopes are left alone, every event
\* it appends is about s and dated in the step, and s serves nothing, what it served
\* (if publishing may fail), or an activation that begins to serve it.
AboutScope(s) ==
  /\ issued'.activations \in issued.activations .. MaxActivations
  /\ \A t \in Scopes \ {s} : ScopeKept(db', db, t)
  /\ stream' \in Seq(Event)
  /\ Len(stream) <= Len(stream')
  /\ \A i \in 1 .. Len(stream) : stream'[i] = stream[i]
  /\ \A i \in Len(stream) + 1 .. Len(stream') :
       stream'[i].scope = s /\ DatedIn(stream'[i], issued.activations, issued'.activations)
  /\ \/ db'.byScope[s] = None
     \/ ScopeKept(db', db, s) /\ PublishMayFail
     \/ \E v \in VersionIDs, a \in ActivationIDs : BeginsToServe(v, a, s)

LEMMA ServedRecords ==
  ASSUME NEW d, DatabaseSound(d)
  PROVE  \A s \in Scopes : d.byScope[s] # None =>
           /\ d.byScope[s] \in ActivationIDs
           /\ d.activations[d.byScope[s]].status = "active"
           /\ d.activations[d.byScope[s]].scope = s
  BY ServedFacts

\* The scopes other than s are kept when the scope index changes at s only and the
\* runtimes and the activations of the others stay.
LEMMA OthersKept ==
  ASSUME NEW d, DatabaseSound(d), NEW s \in Scopes, NEW e,
         \A t \in Scopes \ {s} : e.byScope[t] = d.byScope[t],
         NEW A \in SUBSET ActivationIDs,
         \A b \in A : d.activations[b].status = "absent" \/ b = d.byScope[s],
         \A b \in ActivationIDs \ A : e.activations[b] = d.activations[b],
         \A t \in Scopes \ {s} : e.ingestionRuntimes[t] = d.ingestionRuntimes[t]
  PROVE  \A t \in Scopes \ {s} : ScopeKept(e, d, t)
<1>0. \A x \in Scopes : d.byScope[x] # None =>
        /\ d.byScope[x] \in ActivationIDs
        /\ d.activations[d.byScope[x]].status = "active"
        /\ d.activations[d.byScope[x]].scope = x
  BY ServedRecords
<1> SUFFICES ASSUME NEW t \in Scopes \ {s}, d.byScope[t] # None
             PROVE  e.activations[d.byScope[t]] = d.activations[d.byScope[t]]
  BY DEF ScopeKept
<1>1. /\ d.byScope[t] \in ActivationIDs
      /\ d.activations[d.byScope[t]].status = "active"
      /\ d.activations[d.byScope[t]].scope = t
  BY <1>0
<1>2. d.byScope[s] # None => d.activations[d.byScope[s]].scope = s
  BY <1>0
<1>3. d.byScope[t] # d.byScope[s]
  BY <1>1, <1>2
<1>4. d.byScope[t] \notin A
  BY <1>1, <1>3
<1>5. QED
  BY <1>1, <1>4

-----------------------------------------------------------------------------
(* The runtimes stored beside the scopes.                                  *)

\* An activation stores its runtime.
LEMMA ActivatedRuntimes ==
  ASSUME NEW d \in Database, NEW k \in Keys, NEW set \in ConfigSet, NEW v \in VersionIDs,
         InSet(set, v), NEW a \in ActivationIDs, NEW s \in Scopes
  PROVE  Activated(d, k, set, v, a, s).ingestionRuntimes =
           [d.ingestionRuntimes EXCEPT ![s] = [version |-> v, activation |-> a]]
<1> DEFINE new == ActivateVersion(set, v)
           record == NewActivation(v, s)
           runtime == [version |-> v, activation |-> a]
           g == SaveConfigSet(d, k, new)
           h == SaveActivation(g, a, record)
<1>1. new \in ConfigSet
  BY WithLifecycleFacts DEF ActivateVersion, Lifecycles
<1> HIDE DEF new
<1>2. g \in Database /\ g.ingestionRuntimes = d.ingestionRuntimes
  BY <1>1, SaveConfigSetFields
<1>3. record \in Activation /\ record.version = v /\ record.scope = s
  BY DEF NewActivation, Activation
<1>4. runtime \in IngestionRuntime
  BY DEF IngestionRuntime
<1> HIDE DEF g, record, runtime
<1>5. h \in Database /\ h.ingestionRuntimes = g.ingestionRuntimes
  BY <1>2, <1>3, SaveActivationFields
<1> HIDE DEF h
<1>6. SaveIngestionRuntime(h, s, runtime).ingestionRuntimes = [h.ingestionRuntimes EXCEPT ![s] = runtime]
  BY <1>4, <1>5, SaveIngestionRuntimeFields
<1>7. QED
  BY <1>2, <1>5, <1>6 DEF Activated, new, record, runtime, g, h

\* The roll back of an activation rebuilds the runtime of what the scope served.
LEMMA RolledBackRuntimes ==
  ASSUME NEW d, DatabaseSound(d), NEW s \in Scopes, NEW f \in Database, NEW k \in Keys,
         NEW a \in ActivationIDs, NEW v \in VersionIDs,
         f.activations[a] = NewActivation(v, s), f.byScope[s] = a
  PROVE  RolledBack(d, f, k, a, s).ingestionRuntimes =
           [f.ingestionRuntimes EXCEPT
              ![s] = IF d.byScope[s] = None THEN NoRuntime ELSE RuntimeOf(d, s)]
<1> DEFINE prev == d.byScope[s]
           activation == d.activations[prev]
           kp == d.byVersionID[activation.version]
           restored == SaveConfigSet(f, k, d.configSets[k])
           r == RolledBack(d, f, k, a, s)
<1>1. \A j \in Keys : d.configSets[j] \in ConfigSet
  BY DEF DatabaseSound, IndexSound, Database
<1>2. /\ restored \in Database
      /\ restored.ingestionRuntimes = f.ingestionRuntimes
      /\ restored.activations = f.activations
      /\ restored.byScope = f.byScope
  <2>1. d.configSets[k] \in ConfigSet
    BY <1>1
  <2>2. QED
    BY <2>1, SaveConfigSetFields
<1>3. CASE prev = None
  <2> DEFINE g == DeleteActivation(restored, a)
  <2>1. r = SaveIngestionRuntime(g, s, NoRuntime)
    BY <1>3 DEF RolledBack, DeleteIngestionRuntime
  <2> HIDE DEF restored, r
  <2>2. /\ restored.activations[a].status = "active"
        /\ restored.activations[a].scope = s
        /\ restored.byScope[restored.activations[a].scope] = a
    BY <1>2 DEF NewActivation
  <2>3. g \in Database /\ g.ingestionRuntimes = restored.ingestionRuntimes
    BY <1>2, <2>2, DeleteActivationFields
  <2> HIDE DEF g
  <2>4. NoRuntime \in IngestionRuntime
    BY DEF NoRuntime, IngestionRuntime
  <2>5. r.ingestionRuntimes = [g.ingestionRuntimes EXCEPT ![s] = NoRuntime]
    BY <2>1, <2>3, <2>4, SaveIngestionRuntimeFields
  <2>6. QED
    BY <1>2, <1>3, <2>3, <2>5 DEF r
<1>4. CASE prev # None
  <2> DEFINE g == SaveConfigSet(restored, kp, d.configSets[kp])
             h == SaveActivation(g, prev, activation)
             runtime == [version |-> activation.version, activation |-> prev]
  <2>1. r = SaveIngestionRuntime(h, s, runtime)
    BY <1>4 DEF RolledBack
  <2>2. /\ prev \in ActivationIDs
        /\ activation \in Activation
        /\ activation.scope = s
        /\ activation.version \in VersionIDs
        /\ kp \in Keys
    BY <1>4, ServedFacts
  <2>3. runtime = RuntimeOf(d, s)
    BY DEF RuntimeOf
  <2>4. runtime \in IngestionRuntime
    BY <2>2 DEF IngestionRuntime
  <2> HIDE DEF restored, r, kp, activation, runtime, prev
  <2>5. g \in Database /\ g.ingestionRuntimes = restored.ingestionRuntimes
    <3>1. d.configSets[kp] \in ConfigSet
      BY <1>1, <2>2
    <3>2. restored \in Database /\ kp \in Keys
      BY <1>2, <2>2
    <3>3. QED
      BY <3>1, <3>2, SaveConfigSetFields
  <2> HIDE DEF g
  <2>6. h \in Database /\ h.ingestionRuntimes = g.ingestionRuntimes
    <3>1. /\ g \in Database
          /\ prev \in ActivationIDs
          /\ activation \in Activation
          /\ activation.version \in VersionIDs
          /\ activation.scope \in Scopes
      BY <2>2, <2>5
    <3>2. QED
      BY <3>1, SaveActivationFields, ZenonT(30)
  <2> HIDE DEF h
  <2>7. r.ingestionRuntimes = [h.ingestionRuntimes EXCEPT ![s] = runtime]
    BY <2>1, <2>4, <2>6, SaveIngestionRuntimeFields
  <2>8. QED
    BY <1>2, <1>4, <2>3, <2>5, <2>6, <2>7 DEF r, prev
<1>5. QED
  BY <1>3, <1>4

\* `saved` is without the runtime of s, `undone` has the one of what s serves in d.
RuntimeTakenAndPut(d, s, saved, undone) ==
  /\ saved.ingestionRuntimes = [d.ingestionRuntimes EXCEPT ![s] = NoRuntime]
  /\ undone.ingestionRuntimes = [saved.ingestionRuntimes EXCEPT ![s] = RuntimeOf(d, s)]

\* A deactivation deletes the runtime; its undo puts the same one back.
LEMMA DeactivationRuntimes ==
  ASSUME NEW d, DatabaseSound(d), NEW s \in Scopes, NEW a, NEW record, NEW v, NEW k, NEW set,
         ServedBy(d, s, a, record, v, k, set)
  PROVE  LET saved == DeleteIngestionRuntime(DeactivateServing(d, s), s)
             undone == SaveIngestionRuntime(
                         SaveActivation(SaveConfigSet(saved, k, set), a, record),
                         s, [version |-> v, activation |-> a])
         IN  RuntimeTakenAndPut(d, s, saved, undone)
<1> DEFINE e == DeactivateServing(d, s)
           saved == SaveIngestionRuntime(e, s, NoRuntime)
           g == SaveConfigSet(saved, k, set)
           h == SaveActivation(g, a, record)
           runtime == [version |-> v, activation |-> a]
           undone == SaveIngestionRuntime(h, s, runtime)
<1>1. /\ d.byScope[s] # None
      /\ a \in ActivationIDs
      /\ record \in Activation
      /\ record.scope = s
      /\ record.version \in VersionIDs
      /\ v \in VersionIDs
      /\ k \in Keys
      /\ set \in ConfigSet
  BY ServedFacts DEF ServedBy
<1>2. DatabaseSound(e) /\ e.ingestionRuntimes = d.ingestionRuntimes
  BY <1>1, DeactivateServingSound, DeactivateServingSets
<1> HIDE DEF e
<1>3. e \in Database
  BY <1>2 DEF DatabaseSound, IndexSound
<1>4. NoRuntime \in IngestionRuntime /\ runtime \in IngestionRuntime
  BY <1>1 DEF NoRuntime, IngestionRuntime
<1>5. runtime = RuntimeOf(d, s)
  BY DEF RuntimeOf, ServedBy
<1> HIDE DEF runtime
<1>6. saved \in Database /\ saved.ingestionRuntimes = [e.ingestionRuntimes EXCEPT ![s] = NoRuntime]
  BY <1>3, <1>4, SaveIngestionRuntimeFields
<1> HIDE DEF saved
<1>7. g \in Database /\ g.ingestionRuntimes = saved.ingestionRuntimes
  BY <1>1, <1>6, SaveConfigSetFields
<1> HIDE DEF g
<1>8. h \in Database /\ h.ingestionRuntimes = g.ingestionRuntimes
  BY <1>1, <1>7, SaveActivationFields
<1> HIDE DEF h
<1>9. undone.ingestionRuntimes = [h.ingestionRuntimes EXCEPT ![s] = runtime]
  BY <1>4, <1>8, SaveIngestionRuntimeFields
<1> HIDE DEF undone
<1>10. RuntimeTakenAndPut(d, s, saved, undone)
  BY <1>2, <1>5, <1>6, <1>7, <1>8, <1>9 DEF RuntimeTakenAndPut
<1>11. QED
  BY <1>10 DEF undone, h, g, saved, e, runtime, DeleteIngestionRuntime

-----------------------------------------------------------------------------
(* The two runtime use cases are about one scope.                          *)

\* An event of the activation a of v for s.
OfActivation(event, v, a, s) ==
  /\ event.scope = s
  /\ event.kind = "activated" => event = ActivatedEvent(v, a, s)
  /\ event.kind = "deactivated" => event.deactivatedAt = a - 1

\* The events of an activation are about it, and end with its own two.
LEMMA ActivationEventsFacts ==
  ASSUME NEW d, DatabaseSound(d), NEW s \in Scopes, NEW v \in VersionIDs,
         NEW a \in ActivationIDs
  PROVE  LET events == ActivationEvents(d, v, a, s)
         IN  /\ events \in Seq(Event)
             /\ Len(events) >= 2
             /\ \A i \in 1 .. Len(events) : OfActivation(events[i], v, a, s)
             /\ events[Len(events) - 1] = ActivatedEvent(v, a, s)
             /\ events[Len(events)] = ChangedEvent(v, a, s)
<1> DEFINE prev == d.byScope[s]
           left == DeactivatedEvent(d.activations[prev].version, prev, s, a - 1)
           first == IF prev = None THEN <<>> ELSE <<left>>
           last == <<ActivatedEvent(v, a, s), ChangedEvent(v, a, s)>>
           events == first \o last
<1>1. ActivationEvents(d, v, a, s) = events
  BY DEF ActivationEvents
<1>2. /\ ActivatedEvent(v, a, s) \in Event
      /\ ChangedEvent(v, a, s) \in Event
      /\ OfActivation(ActivatedEvent(v, a, s), v, a, s)
      /\ OfActivation(ChangedEvent(v, a, s), v, a, s)
  BY DEF ActivatedEvent, ChangedEvent, Event, OfActivation
<1>3. OfActivation(left, v, a, s)
  BY DEF DeactivatedEvent, OfActivation
<1>4. prev # None => left \in Event
  <2>1. prev # None => prev \in ActivationIDs /\ d.activations[prev].version \in VersionIDs
    BY ServedFacts
  <2>2. a - 1 \in Nat
    BY DEF ActivationIDs
  <2>3. QED
    BY <2>1, <2>2 DEF DeactivatedEvent, Event
<1> HIDE DEF left
<1>5. CASE prev = None
  <2>1. events = last
    BY <1>5
  <2>2. /\ last \in Seq(Event) /\ Len(last) = 2
        /\ last[1] = ActivatedEvent(v, a, s) /\ last[2] = ChangedEvent(v, a, s)
    BY <1>2
  <2> HIDE DEF events, last
  <2>3. /\ events \in Seq(Event)
        /\ Len(events) >= 2
        /\ events[Len(events) - 1] = ActivatedEvent(v, a, s)
        /\ events[Len(events)] = ChangedEvent(v, a, s)
    BY <2>1, <2>2
  <2>4. \A i \in 1 .. Len(events) : OfActivation(events[i], v, a, s)
    <3>1. SUFFICES ASSUME NEW i \in 1 .. 2 PROVE OfActivation(last[i], v, a, s)
      BY <2>1, <2>2
    <3>2. i = 1 \/ i = 2
      BY <3>1
    <3>3. QED
      BY <1>2, <2>2, <3>2
  <2>5. QED
    BY <1>1, <2>3, <2>4
<1>6. CASE prev # None
  <2>1. /\ first \in Seq(Event) /\ Len(first) = 1 /\ first[1] = left
        /\ last \in Seq(Event) /\ Len(last) = 2
        /\ last[1] = ActivatedEvent(v, a, s) /\ last[2] = ChangedEvent(v, a, s)
    BY <1>2, <1>4, <1>6
  <2> HIDE DEF first, last
  <2>2. /\ events \in Seq(Event)
        /\ Len(events) = 3
        /\ \A i \in 1 .. 3 : events[i] = IF i <= 1 THEN first[i] ELSE last[i - 1]
    <3>1. first \in Seq(Event) /\ last \in Seq(Event) /\ Len(first) = 1 /\ Len(last) = 2
      BY <2>1
    <3>2. /\ first \o last \in Seq(Event)
          /\ Len(first \o last) = Len(first) + Len(last)
          /\ \A i \in 1 .. Len(first) + Len(last) :
               (first \o last)[i] = IF i <= Len(first) THEN first[i] ELSE last[i - Len(first)]
      BY <3>1, ConcatProperties
    <3>3. QED
      BY <3>1, <3>2
  <2> HIDE DEF events
  <2>3. /\ events[1] = left
        /\ events[2] = ActivatedEvent(v, a, s)
        /\ events[3] = ChangedEvent(v, a, s)
    BY <2>1, <2>2
  <2>4. \A i \in 1 .. Len(events) : OfActivation(events[i], v, a, s)
    <3>1. \A i \in 1 .. Len(events) : i = 1 \/ i = 2 \/ i = 3
      BY <2>2
    <3>2. QED
      BY <1>2, <1>3, <2>3, <3>1
  <2>5. QED
    BY <1>1, <2>2, <2>3, <2>4
<1>7. QED
  BY <1>5, <1>6

LEMMA ActivateConfigAbout ==
  ASSUME IInv, RuntimesIn(db), NEW v \in VersionIDs, NEW s \in Scopes, ActivateConfig(v, s)
  PROVE  AboutScope(s)
<1> DEFINE k == db.byVersionID[v]
           set == db.configSets[k]
           a == issued.activations + 1
           prev == db.byScope[s]
           displaced == Displaced(db, s)
           activated == Activated(displaced, k, set, v, a, s)
           undone == RolledBack(db, activated, k, a, s)
           events == ActivationEvents(db, v, a, s)
<1>1. /\ TypeOK /\ DatabaseSound(db) /\ Fresh
      /\ stream \in Seq(Event) /\ Len(stream) \in Nat
      /\ issued.activations \in Nat
      /\ db.byVersionID \in [VersionIDs -> Keys \cup {None}]
      /\ db.configSets \in [Keys -> ConfigSet]
      /\ db.activations \in [ActivationIDs -> Activation]
      /\ db.byScope \in [Scopes -> ActivationIDs \cup {None}]
      /\ db.ingestionRuntimes \in [Scopes -> IngestionRuntime]
      /\ VersionIndexIn(db)
  BY ConstantsAssumption DEF IInv, DatabaseSound, IndexSound, TypeOK, Database
<1>2. /\ k \in Keys /\ k = db.byVersionID[v]
      /\ set = db.configSets[k] /\ set \in ConfigSet /\ InSet(set, v)
  BY <1>1 DEF ActivateConfig
<1>3. /\ DisplacedFrom(displaced, db, s)
      /\ displaced.ingestionRuntimes = db.ingestionRuntimes
  BY <1>1, DisplacedSound, DisplacedSets
<1>4. /\ displaced \in Database
      /\ displaced.byScope = [db.byScope EXCEPT ![s] = None]
      /\ \A b \in ActivationIDs : b # prev => displaced.activations[b] = db.activations[b]
      /\ displaced.activations \in [ActivationIDs -> Activation]
  BY <1>3 DEF DisplacedFrom, DatabaseSound, IndexSound, Database
<1>5. \/ /\ db' = displaced
         /\ UNCHANGED <<stream, issued>>
      \/ /\ Activatable(set.versions[v])
         /\ issued.activations < MaxActivations
         /\ issued' = [issued EXCEPT !.activations = a]
         /\ PublishRuntime(events, activated, undone)
  BY DEF ActivateConfig
<1> HIDE DEF k, set, displaced
<1>6. CASE db' = displaced /\ UNCHANGED <<stream, issued>>
  <2>1. db'.byScope[s] = None /\ \A t \in Scopes \ {s} : db'.byScope[t] = db.byScope[t]
    BY <1>1, <1>4, <1>6
  <2> DEFINE A == {b \in ActivationIDs : b = prev}
  <2>2. /\ \A b \in A : b = prev
        /\ \A b \in ActivationIDs \ A : db'.activations[b] = db.activations[b]
        /\ db'.ingestionRuntimes = db.ingestionRuntimes
        /\ A \in SUBSET ActivationIDs
    BY <1>3, <1>4, <1>6
  <2> HIDE DEF A
  <2>3. \A t \in Scopes \ {s} : ScopeKept(db', db, t)
    BY <1>1, <2>1, <2>2, OthersKept
  <2>4. issued'.activations \in issued.activations .. MaxActivations
    BY <1>1, <1>6, ConstantsAssumption DEF TypeOK
  <2>5. QED
    BY <1>1, <1>6, <2>1, <2>3, <2>4 DEF AboutScope
<1>7. CASE /\ Activatable(set.versions[v])
           /\ issued.activations < MaxActivations
           /\ issued' = [issued EXCEPT !.activations = a]
           /\ PublishRuntime(events, activated, undone)
  <2>1. /\ a \in ActivationIDs
        /\ a > issued.activations
        /\ a - 1 = issued.activations
        /\ issued'.activations = a
        /\ a \in issued.activations .. MaxActivations
        /\ a \in issued.activations + 1 .. a
    <3>1. issued'.activations = a
      BY <1>1, <1>7
    <3>2. issued.activations \in 0 .. MaxActivations /\ issued.activations < MaxActivations
      BY <1>1, <1>7 DEF TypeOK
    <3>3. QED
      BY <1>1, <3>1, <3>2, ConstantsAssumption DEF ActivationIDs
  <2>2. db.activations[a].status = "absent"
    BY <1>1, <2>1 DEF Fresh
  <2> HIDE DEF a
  <2>3. ActivatedFrom(activated, displaced, db, k, v, a, s)
    BY <1>1, <1>2, <1>3, <1>7, <2>1, <2>2, ActivatedSound
  <2>4. activated.ingestionRuntimes =
          [db.ingestionRuntimes EXCEPT ![s] = [version |-> v, activation |-> a]]
    <3>1. displaced \in Database /\ k \in Keys /\ set \in ConfigSet /\ InSet(set, v) /\ a \in ActivationIDs
      BY <1>2, <1>4, <2>1
    <3>2. activated.ingestionRuntimes =
            [displaced.ingestionRuntimes EXCEPT ![s] = [version |-> v, activation |-> a]]
      BY <3>1, ActivatedRuntimes
    <3> HIDE DEF activated
    <3>3. QED
      BY <1>3, <3>2
  <2> HIDE DEF activated
  <2>5. /\ activated \in Database
        /\ activated.byScope = [db.byScope EXCEPT ![s] = a]
        /\ activated.activations = [displaced.activations EXCEPT ![a] = NewActivation(v, s)]
    BY <2>3 DEF ActivatedFrom, DatabaseSound, IndexSound
  <2>6. activated.byScope[s] = a /\ activated.activations[a] = NewActivation(v, s)
    BY <1>1, <1>4, <2>1, <2>5
  <2>7. /\ undone.byScope = db.byScope
        /\ \A b \in ActivationIDs \ {a} : undone.activations[b] = db.activations[b]
    <3>1. DatabaseSound(db) /\ k \in Keys /\ db.byVersionID[v] = k /\ a \in ActivationIDs
      BY <1>1, <1>2, <2>1
    <3>2. QED
      BY <3>1, <1>3, <2>2, <2>3, RolledBackSound
  <2>8. undone.ingestionRuntimes =
          [activated.ingestionRuntimes EXCEPT
             ![s] = IF db.byScope[s] = None THEN NoRuntime ELSE RuntimeOf(db, s)]
    <3>1. /\ DatabaseSound(db) /\ activated \in Database /\ k \in Keys /\ a \in ActivationIDs
          /\ activated.activations[a] = NewActivation(v, s) /\ activated.byScope[s] = a
      BY <1>1, <1>2, <2>1, <2>5, <2>6
    <3>2. QED
      BY <3>1, RolledBackRuntimes
  <2> HIDE DEF undone
  <2>9. /\ events \in Seq(Event)
        /\ Len(events) >= 2
        /\ \A i \in 1 .. Len(events) : OfActivation(events[i], v, a, s)
        /\ events[Len(events) - 1] = ActivatedEvent(v, a, s)
        /\ events[Len(events)] = ChangedEvent(v, a, s)
    BY <1>1, <2>1, ActivationEventsFacts
  <2> HIDE DEF events
  <2>10. /\ Appends(events)
         /\ \/ db' = activated /\ Len(stream') = Len(stream) + Len(events)
            \/ db' = undone /\ PublishMayFail
    BY <1>1, <1>7, <2>9, PublishRuntimeEnds
  <2>11. /\ stream' \in Seq(Event)
         /\ Len(stream) <= Len(stream')
         /\ \A i \in 1 .. Len(stream) : stream'[i] = stream[i]
         /\ \A i \in Len(stream) + 1 .. Len(stream') : OfActivation(stream'[i], v, a, s)
    BY <2>9, <2>10 DEF Appends
  <2>14. ASSUME NEW event, OfActivation(event, v, a, s)
         PROVE  /\ event.scope = s
                /\ DatedIn(event, issued.activations, issued'.activations)
    <3>1. event.kind = "activated" =>
            event.version \in VersionIDs /\ event.activation \in issued.activations + 1 .. a
      BY <2>1, <2>14 DEF OfActivation, ActivatedEvent
    <3>2. event.kind = "deactivated" => event.deactivatedAt <= issued.activations
      BY <1>1, <2>1, <2>14 DEF OfActivation
    <3>3. QED
      BY <2>1, <2>14, <3>1, <3>2 DEF OfActivation, DatedIn
  <2>15. \A i \in Len(stream) + 1 .. Len(stream') :
           /\ stream'[i].scope = s
           /\ DatedIn(stream'[i], issued.activations, issued'.activations)
    BY <2>11, <2>14
  <2>16. issued'.activations \in issued.activations .. MaxActivations
    BY <2>1
  <2>12. CASE db' = activated /\ Len(stream') = Len(stream) + Len(events)
    <3> DEFINE A == {b \in ActivationIDs : b = a \/ b = prev}
    <3>1. /\ \A b \in A : db.activations[b].status = "absent" \/ b = db.byScope[s]
          /\ \A b \in ActivationIDs \ A : db'.activations[b] = db.activations[b]
          /\ A \in SUBSET ActivationIDs
      BY <1>4, <2>2, <2>5, <2>12
    <3>2. \A t \in Scopes \ {s} : db'.byScope[t] = db.byScope[t]
      BY <1>1, <2>5, <2>12
    <3>3. \A t \in Scopes \ {s} : db'.ingestionRuntimes[t] = db.ingestionRuntimes[t]
      BY <1>1, <2>4, <2>12
    <3> HIDE DEF A
    <3>4. \A t \in Scopes \ {s} : ScopeKept(db', db, t)
      BY <1>1, <3>1, <3>2, <3>3, OthersKept
    <3>5. ServesNow(db', v, a, s)
      BY <1>1, <2>4, <2>6, <2>12 DEF ServesNow
    <3>6. EndsWithActivation(stream', v, a, s)
      <4> DEFINE n == Len(stream)
                 m == Len(events)
      <4>1. n \in Nat /\ m \in Nat /\ m >= 2 /\ Len(stream') = n + m
        BY <1>1, <2>9, <2>12
      <4>2. \A i \in n + 1 .. n + m : stream'[i] = events[i - n]
        BY <2>10, <4>1 DEF Appends
      <4>3. events[m - 1] = ActivatedEvent(v, a, s) /\ events[m] = ChangedEvent(v, a, s)
        BY <2>9
      <4> HIDE DEF n, m
      <4>4. stream'[n + m - 1] = ActivatedEvent(v, a, s) /\ stream'[n + m] = ChangedEvent(v, a, s)
        <5>1. n + m - 1 \in n + 1 .. n + m /\ (n + m - 1) - n = m - 1
              /\ n + m \in n + 1 .. n + m /\ (n + m) - n = m
          BY <4>1
        <5>2. QED
          BY <4>2, <4>3, <5>1
      <4>5. \A j \in (n + m - 1) + 1 .. Len(stream') : j = n + m
        BY <4>1
      <4>6. n + m - 1 \in 1 .. Len(stream')
        BY <4>1
      <4>7. QED
        BY <4>4, <4>5, <4>6 DEF EndsWithActivation
    <3>7. BeginsToServe(v, a, s)
      BY <2>1, <2>11, <3>5, <3>6 DEF BeginsToServe, OfActivation
    <3>8. QED
      BY <2>1, <2>11, <2>15, <2>16, <3>4, <3>7 DEF AboutScope
  <2>13. CASE db' = undone /\ PublishMayFail
    <3> DEFINE A == {a}
    <3>1. /\ \A b \in A : db.activations[b].status = "absent"
          /\ \A b \in ActivationIDs \ A : db'.activations[b] = db.activations[b]
          /\ A \in SUBSET ActivationIDs
      BY <2>1, <2>2, <2>7, <2>13
    <3>2. \A t \in Scopes : db'.byScope[t] = db.byScope[t]
      BY <2>7, <2>13
    <3>3. \A t \in Scopes \ {s} : db'.ingestionRuntimes[t] = db.ingestionRuntimes[t]
      BY <1>1, <2>4, <2>8, <2>13
    <3> HIDE DEF A
    <3>4. \A t \in Scopes \ {s} : ScopeKept(db', db, t)
      BY <1>1, <3>1, <3>2, <3>3, OthersKept
    <3>5. db.byScope[s] # None => ScopeKept(db', db, s)
      <4> SUFFICES ASSUME db.byScope[s] # None PROVE ScopeKept(db', db, s)
        OBVIOUS
      <4>1. db'.ingestionRuntimes[s] = RuntimeOf(db, s)
        BY <1>1, <2>4, <2>8, <2>13
      <4>2. db.ingestionRuntimes[s] = RuntimeOf(db, s)
        BY DEF RuntimesIn
      <4>3. db.byScope[s] \in ActivationIDs /\ db.activations[db.byScope[s]].status = "active"
        BY <1>1, ServedRecords
      <4>4. db.byScope[s] # a
        BY <2>2, <4>3
      <4>5. QED
        BY <2>7, <2>13, <3>2, <4>1, <4>2, <4>3, <4>4 DEF ScopeKept
    <3>6. db'.byScope[s] = None \/ ScopeKept(db', db, s)
      BY <3>2, <3>5
    <3>7. QED
      BY <2>11, <2>13, <2>15, <2>16, <3>4, <3>6 DEF AboutScope
  <2>17. QED
    BY <2>10, <2>12, <2>13
<1>8. QED
  BY <1>5, <1>6, <1>7

LEMMA DeactivateConfigAbout ==
  ASSUME IInv, RuntimesIn(db), NEW s \in Scopes, DeactivateConfig(s)
  PROVE  AboutScope(s)
<1> DEFINE a == db.byScope[s]
           record == db.activations[a]
           v == record.version
           k == db.byVersionID[v]
           set == db.configSets[k]
           saved == DeleteIngestionRuntime(DeactivateServing(db, s), s)
           undone == SaveIngestionRuntime(
                       SaveActivation(SaveConfigSet(saved, k, set), a, record),
                       s, [version |-> v, activation |-> a])
           events == <<DeactivatedEvent(v, a, s, issued.activations), ClearedEvent(s)>>
<1>1. /\ TypeOK /\ DatabaseSound(db)
      /\ stream \in Seq(Event)
      /\ issued.activations \in Nat
      /\ db.byScope \in [Scopes -> ActivationIDs \cup {None}]
      /\ db.ingestionRuntimes \in [Scopes -> IngestionRuntime]
  BY ConstantsAssumption DEF IInv, DatabaseSound, IndexSound, TypeOK, Database
<1>2. a # None /\ PublishRuntime(events, saved, undone) /\ issued' = issued
  BY DEF DeactivateConfig
<1>3. ServedBy(db, s, a, record, v, k, set)
  BY <1>2 DEF ServedBy
<1>4. a \in ActivationIDs /\ v \in VersionIDs
  BY <1>1, <1>2, ServedFacts
<1>5. /\ events \in Seq(Event)
      /\ Len(events) = 2
      /\ \A i \in 1 .. Len(events) :
           events[i].scope = s /\ DatedIn(events[i], issued.activations, issued.activations)
  <2>1. DeactivatedEvent(v, a, s, issued.activations) \in Event /\ ClearedEvent(s) \in Event
    BY <1>1, <1>4 DEF DeactivatedEvent, ClearedEvent, ChangedEvent, Event
  <2>2. /\ DeactivatedEvent(v, a, s, issued.activations).scope = s
        /\ ClearedEvent(s).scope = s
        /\ DatedIn(DeactivatedEvent(v, a, s, issued.activations), issued.activations, issued.activations)
        /\ DatedIn(ClearedEvent(s), issued.activations, issued.activations)
    BY <1>1 DEF DeactivatedEvent, ClearedEvent, ChangedEvent, DatedIn
  <2>3. QED
    BY <2>1, <2>2
<1> HIDE DEF record, v, k, set, events
<1>6. DeactivationEnds(db, s, a, saved, undone)
  <2> HIDE DEF a
  <2>1. QED
    BY <1>1, <1>3, DeactivationUndone
<1>7. RuntimeTakenAndPut(db, s, saved, undone)
  <2> HIDE DEF a
  <2>1. QED
    BY <1>1, <1>3, DeactivationRuntimes
<1> HIDE DEF saved, undone
<1>8. /\ saved.byScope = [db.byScope EXCEPT ![s] = None]
      /\ \A b \in ActivationIDs \ {a} : saved.activations[b] = db.activations[b]
      /\ undone.byScope = db.byScope
      /\ undone.activations = db.activations
  BY <1>6 DEF DeactivationEnds
<1>9. /\ Appends(events)
      /\ db' = saved \/ (db' = undone /\ PublishMayFail)
  BY <1>1, <1>2, <1>5, PublishRuntimeEnds
<1>10. /\ stream' \in Seq(Event)
       /\ Len(stream) <= Len(stream')
       /\ \A i \in 1 .. Len(stream) : stream'[i] = stream[i]
       /\ \A i \in Len(stream) + 1 .. Len(stream') :
            stream'[i].scope = s /\ DatedIn(stream'[i], issued.activations, issued'.activations)
       /\ issued'.activations \in issued.activations .. MaxActivations
  <2>1. issued'.activations \in issued.activations .. MaxActivations
    BY <1>1, <1>2, ConstantsAssumption DEF IInv, TypeOK
  <2>2. QED
    BY <1>2, <1>5, <1>9, <2>1 DEF Appends
<1>11. CASE db' = saved
  <2>1. db'.byScope[s] = None /\ \A t \in Scopes \ {s} : db'.byScope[t] = db.byScope[t]
    BY <1>1, <1>8, <1>11
  <2>2. \A t \in Scopes \ {s} : db'.ingestionRuntimes[t] = db.ingestionRuntimes[t]
    BY <1>1, <1>7, <1>11 DEF RuntimeTakenAndPut
  <2> DEFINE A == {a}
  <2>3. /\ \A b \in A : b = db.byScope[s]
        /\ \A b \in ActivationIDs \ A : db'.activations[b] = db.activations[b]
        /\ A \in SUBSET ActivationIDs
    BY <1>4, <1>8, <1>11
  <2> HIDE DEF A
  <2>4. \A t \in Scopes \ {s} : ScopeKept(db', db, t)
    BY <1>1, <2>1, <2>2, <2>3, OthersKept
  <2>5. QED
    BY <1>10, <2>1, <2>4 DEF AboutScope
<1>12. CASE db' = undone /\ PublishMayFail
  <2>1. \A t \in Scopes \ {s} : db'.ingestionRuntimes[t] = db.ingestionRuntimes[t]
    BY <1>1, <1>7, <1>12 DEF RuntimeTakenAndPut
  <2>2. db'.ingestionRuntimes[s] = RuntimeOf(db, s) /\ db.ingestionRuntimes[s] = RuntimeOf(db, s)
    BY <1>1, <1>2, <1>7, <1>12 DEF RuntimesIn, RuntimeTakenAndPut
  <2>3. \A t \in Scopes : ScopeKept(db', db, t)
    BY <1>8, <1>12, <2>1, <2>2 DEF ScopeKept
  <2>4. QED
    BY <1>10, <1>12, <2>3 DEF AboutScope
<1>13. QED
  BY <1>9, <1>11, <1>12

-----------------------------------------------------------------------------
(* What is served was announced, and is what the queries answer.           *)

\* While it serves nothing or what it served with the same runtime, a scope keeps
\* its runtime.
LEMMA RuntimesKept ==
  ASSUME NEW d, NEW e, RuntimesIn(d),
         \A t \in Scopes : e.byScope[t] = None \/ ScopeKept(e, d, t) \/
           (\E v \in VersionIDs, a \in ActivationIDs : ServesNow(e, v, a, t))
  PROVE  RuntimesIn(e)
<1> SUFFICES ASSUME NEW t \in Scopes, e.byScope[t] # None
             PROVE  e.ingestionRuntimes[t] = RuntimeOf(e, t)
  BY DEF RuntimesIn
<1>1. CASE ScopeKept(e, d, t)
  BY <1>1 DEF ScopeKept, RuntimesIn, RuntimeOf
<1>2. ASSUME NEW v \in VersionIDs, NEW a \in ActivationIDs, ServesNow(e, v, a, t)
      PROVE  e.ingestionRuntimes[t] = RuntimeOf(e, t)
  BY <1>2 DEF ServesNow, RuntimeOf, NewActivation
<1>3. QED
  BY <1>1, <1>2

\* The event that announced what s serves is on the stream.
AnnouncedIn(d, log, s) ==
  d.byScope[s] # None =>
    \E i \in 1 .. Len(log) :
      log[i] = ActivatedEvent(d.activations[d.byScope[s]].version, d.byScope[s], s)

\* It is the last word of the stream on s.
NamedIn(d, log, s) ==
  d.byScope[s] # None =>
    \E i \in 1 .. Len(log) :
      /\ log[i] = ActivatedEvent(d.activations[d.byScope[s]].version, d.byScope[s], s)
      /\ \A j \in i + 1 .. Len(log) : log[j].scope = s => log[j].kind = "ingestion_runtime_changed"

\* A scope that serves what it served is announced by what announced it.
LEMMA AnnouncedKept ==
  ASSUME NEW t \in Scopes, ScopeKept(db', db, t), AnnouncedIn(db, stream, t),
         stream \in Seq(Event), stream' \in Seq(Event), Len(stream) <= Len(stream'),
         \A i \in 1 .. Len(stream) : stream'[i] = stream[i]
  PROVE  AnnouncedIn(db', stream', t)
<1> SUFFICES ASSUME db.byScope[t] # None
             PROVE  AnnouncedIn(db', stream', t)
  BY DEF AnnouncedIn, ScopeKept
<1> DEFINE event == ActivatedEvent(db.activations[db.byScope[t]].version, db.byScope[t], t)
<1>1. PICK i \in 1 .. Len(stream) : stream[i] = event
  BY DEF AnnouncedIn
<1>2. i \in 1 .. Len(stream') /\ stream'[i] = event
  BY <1>1
<1>3. /\ db'.byScope[t] = db.byScope[t]
      /\ db'.activations[db.byScope[t]] = db.activations[db.byScope[t]]
  BY DEF ScopeKept
<1>4. QED
  BY <1>2, <1>3 DEF AnnouncedIn

\* It is the last word as long as the events that follow are about other scopes.
LEMMA NamedKept ==
  ASSUME NEW t \in Scopes, ScopeKept(db', db, t), NamedIn(db, stream, t),
         stream \in Seq(Event), stream' \in Seq(Event), Len(stream) <= Len(stream'),
         \A i \in 1 .. Len(stream) : stream'[i] = stream[i],
         \A i \in Len(stream) + 1 .. Len(stream') : stream'[i].scope # t
  PROVE  NamedIn(db', stream', t)
<1> SUFFICES ASSUME db.byScope[t] # None
             PROVE  NamedIn(db', stream', t)
  BY DEF NamedIn, ScopeKept
<1> DEFINE event == ActivatedEvent(db.activations[db.byScope[t]].version, db.byScope[t], t)
<1>1. PICK i \in 1 .. Len(stream) :
        /\ stream[i] = event
        /\ \A j \in i + 1 .. Len(stream) :
             stream[j].scope = t => stream[j].kind = "ingestion_runtime_changed"
  BY DEF NamedIn
<1>2. i \in 1 .. Len(stream') /\ stream'[i] = event
  BY <1>1
<1> HIDE DEF event
<1>3. ASSUME NEW j \in i + 1 .. Len(stream'), stream'[j].scope = t
      PROVE  stream'[j].kind = "ingestion_runtime_changed"
  <2>1. j \in i + 1 .. Len(stream)
    BY <1>1, <1>3
  <2>2. stream'[j] = stream[j]
    BY <1>1, <2>1
  <2>3. QED
    BY <1>1, <1>3, <2>1, <2>2
<1>4. /\ db'.byScope[t] = db.byScope[t]
      /\ db'.activations[db.byScope[t]] = db.activations[db.byScope[t]]
  BY DEF ScopeKept
<1>5. QED
  BY <1>2, <1>3, <1>4 DEF NamedIn, event

\* A scope whose activation the stream ends with.
LEMMA NamedNow ==
  ASSUME NEW d, NEW log, NEW s \in Scopes, NEW v \in VersionIDs, NEW a \in ActivationIDs,
         ServesNow(d, v, a, s), EndsWithActivation(log, v, a, s)
  PROVE  AnnouncedIn(d, log, s) /\ NamedIn(d, log, s)
<1>1. d.byScope[s] = a /\ d.activations[a].version = v
  BY DEF ServesNow, NewActivation
<1>2. PICK i \in 1 .. Len(log) :
        /\ log[i] = ActivatedEvent(v, a, s)
        /\ \A j \in i + 1 .. Len(log) : log[j] = ChangedEvent(v, a, s)
  BY DEF EndsWithActivation
<1>3. ChangedEvent(v, a, s).kind = "ingestion_runtime_changed"
  BY DEF ChangedEvent
<1>4. QED
  BY <1>1, <1>2, <1>3 DEF AnnouncedIn, NamedIn

\* A lifecycle use case leaves what every scope serves and the stream alone, and
\* issues no activation.
ScopesUntouched ==
  /\ stream' = stream
  /\ issued'.activations = issued.activations
  /\ \A t \in Scopes : ScopeKept(db', db, t)

LEMMA LifecycleUntouched ==
  ASSUME IInv,
         \/ \E k \in Keys, wellFormed \in BOOLEAN : CreateDraft(k, wellFormed)
         \/ \E v \in VersionIDs :
              ValidateConfig(v) \/ CompileConfig(v) \/ ArchiveConfig(v) \/ RejectConfig(v)
  PROVE  ScopesUntouched
<1>1. ASSUME NEW kind, NEW v, NEW saved, NEW undone, PublishLifecycle(kind, v, saved, undone)
      PROVE  stream' = stream
  BY <1>1 DEF PublishLifecycle
<1>2. ASSUME NEW k \in Keys, NEW wellFormed \in BOOLEAN, CreateDraft(k, wellFormed)
      PROVE  ScopesUntouched
  <2>1. stream' = stream
    BY <1>1, <1>2 DEF CreateDraft
  <2>2. db' = db \/ DraftedFrom(db', db, k, issued.versions + 1, wellFormed)
    BY <1>2, CreateDraftStep
  <2>3. issued'.activations = issued.activations
    BY <1>2 DEF CreateDraft, IInv, TypeOK
  <2>4. QED
    BY <2>1, <2>2, <2>3 DEF DraftedFrom, ScopesUntouched, ScopeKept
<1>3. ASSUME NEW v \in VersionIDs,
             ValidateConfig(v) \/ CompileConfig(v) \/ ArchiveConfig(v) \/ RejectConfig(v)
      PROVE  ScopesUntouched
  <2>1. stream' = stream
    BY <1>1, <1>3 DEF ValidateConfig, CompileConfig, ArchiveConfig, RejectConfig, ChangeVersion
  <2>2. PICK l : MovesOrUndoes(v, l)
    BY <1>3, ValidateConfigStep, CompileConfigStep, ArchiveConfigStep, RejectConfigStep
  <2>3. issued' = issued
    BY <1>3 DEF ValidateConfig, CompileConfig, ArchiveConfig, RejectConfig, ChangeVersion
  <2>4. QED
    BY <2>1, <2>2, <2>3 DEF MovesOrUndoes, MovedFrom, ScopesUntouched, ScopeKept
<1>4. QED
  BY <1>2, <1>3

\* Every step is about one scope, leaves the scopes alone, or loses the repository.
LEMMA StepsAboutScopes ==
  ASSUME IInv, RuntimesIn(db), [Next]_vars
  PROVE  \/ \E s \in Scopes : AboutScope(s)
         \/ ScopesUntouched
         \/ /\ UNCHANGED <<stream, issued>>
            /\ \A t \in Scopes : db'.byScope[t] = None
<1>1. CASE UNCHANGED vars
  BY <1>1 DEF vars, ScopesUntouched, ScopeKept
<1>2. ASSUME NEW v \in VersionIDs, NEW s \in Scopes, ActivateConfig(v, s) PROVE AboutScope(s)
  BY <1>2, ActivateConfigAbout
<1>3. ASSUME NEW s \in Scopes, DeactivateConfig(s) PROVE AboutScope(s)
  BY <1>3, DeactivateConfigAbout
<1>4. CASE Restart
  BY <1>4 DEF Restart, EmptyDatabase
<1>5. CASE \/ \E k \in Keys, wellFormed \in BOOLEAN : CreateDraft(k, wellFormed)
           \/ \E v \in VersionIDs :
                ValidateConfig(v) \/ CompileConfig(v) \/ ArchiveConfig(v) \/ RejectConfig(v)
  BY <1>5, LifecycleUntouched
<1>6. QED
  BY <1>1, <1>2, <1>3, <1>4, <1>5 DEF Next

\* The invariant of what is served.
ServingInv ==
  IInv /\ RuntimesIn(db) /\ \A t \in Scopes : AnnouncedIn(db, stream, t)

\* Without failed publications the stream also names what is served.
NamingInv == ServingInv /\ \A t \in Scopes : NamedIn(db, stream, t)

LEMMA ServingInit == Init => NamingInv
<1> SUFFICES ASSUME Init PROVE NamingInv
  OBVIOUS
<1>1. \A t \in Scopes : db.byScope[t] = None
  BY DEF Init, EmptyDatabase
<1>2. QED
  BY <1>1, InitIInv DEF NamingInv, ServingInv, RuntimesIn, AnnouncedIn, NamedIn

LEMMA ServingNext == ServingInv /\ [Next]_vars => ServingInv'
<1> SUFFICES ASSUME ServingInv, [Next]_vars
             PROVE  RuntimesIn(db') /\ \A t \in Scopes : AnnouncedIn(db', stream', t)
  BY NextIInv DEF ServingInv
<1>1. /\ IInv /\ RuntimesIn(db)
      /\ \A t \in Scopes : AnnouncedIn(db, stream, t)
      /\ stream \in Seq(Event)
  BY DEF ServingInv, IInv, TypeOK
<1>2. ASSUME NEW s \in Scopes, AboutScope(s)
      PROVE  RuntimesIn(db') /\ \A t \in Scopes : AnnouncedIn(db', stream', t)
  <2>1. /\ \A t \in Scopes \ {s} : ScopeKept(db', db, t)
        /\ stream' \in Seq(Event)
        /\ Len(stream) <= Len(stream')
        /\ \A i \in 1 .. Len(stream) : stream'[i] = stream[i]
        /\ \/ db'.byScope[s] = None
           \/ ScopeKept(db', db, s)
           \/ \E v \in VersionIDs, a \in ActivationIDs :
                ServesNow(db', v, a, s) /\ EndsWithActivation(stream', v, a, s)
    BY <1>2 DEF AboutScope, BeginsToServe
  <2>2. RuntimesIn(db')
    <3>1. \A t \in Scopes : db'.byScope[t] = None \/ ScopeKept(db', db, t) \/
            (\E v \in VersionIDs, a \in ActivationIDs : ServesNow(db', v, a, t))
      BY <2>1
    <3>2. QED
      BY <1>1, <3>1, RuntimesKept
  <2>3. ASSUME NEW t \in Scopes, ScopeKept(db', db, t)
        PROVE  AnnouncedIn(db', stream', t)
    BY <1>1, <2>1, <2>3, AnnouncedKept
  <2>4. AnnouncedIn(db', stream', s)
    <3>1. CASE db'.byScope[s] = None
      BY <3>1 DEF AnnouncedIn
    <3>2. ASSUME NEW v \in VersionIDs, NEW a \in ActivationIDs,
                 ServesNow(db', v, a, s), EndsWithActivation(stream', v, a, s)
          PROVE  AnnouncedIn(db', stream', s)
      BY <3>2, NamedNow
    <3>3. QED
      BY <2>1, <2>3, <3>1, <3>2
  <2>5. QED
    BY <2>1, <2>2, <2>3, <2>4
<1>3. CASE ScopesUntouched
  <2>1. stream' = stream /\ \A t \in Scopes : ScopeKept(db', db, t)
    BY <1>3 DEF ScopesUntouched
  <2>2. RuntimesIn(db')
    BY <1>1, <2>1, RuntimesKept
  <2>3. ASSUME NEW t \in Scopes PROVE AnnouncedIn(db', stream', t)
    <3>1. /\ stream' \in Seq(Event) /\ Len(stream) <= Len(stream')
          /\ \A i \in 1 .. Len(stream) : stream'[i] = stream[i]
      BY <1>1, <2>1
    <3>2. ScopeKept(db', db, t) /\ AnnouncedIn(db, stream, t)
      BY <1>1, <2>1
    <3>3. QED
      BY <1>1, <3>1, <3>2, AnnouncedKept
  <2>4. QED
    BY <2>2, <2>3
<1>4. CASE stream' = stream /\ \A t \in Scopes : db'.byScope[t] = None
  BY <1>4 DEF RuntimesIn, AnnouncedIn
<1>5. QED
  BY <1>1, <1>2, <1>3, <1>4, StepsAboutScopes

LEMMA NamingNext ==
  ASSUME ~PublishMayFail
  PROVE  NamingInv /\ [Next]_vars => NamingInv'
<1> SUFFICES ASSUME NamingInv, [Next]_vars
             PROVE  \A t \in Scopes : NamedIn(db', stream', t)
  BY ServingNext DEF NamingInv
<1>1. /\ IInv /\ RuntimesIn(db)
      /\ \A t \in Scopes : NamedIn(db, stream, t)
      /\ stream \in Seq(Event)
  BY DEF NamingInv, ServingInv, IInv, TypeOK
<1>2. ASSUME NEW s \in Scopes, AboutScope(s)
      PROVE  \A t \in Scopes : NamedIn(db', stream', t)
  <2>1. /\ \A t \in Scopes \ {s} : ScopeKept(db', db, t)
        /\ stream' \in Seq(Event)
        /\ Len(stream) <= Len(stream')
        /\ \A i \in 1 .. Len(stream) : stream'[i] = stream[i]
        /\ \A i \in Len(stream) + 1 .. Len(stream') : stream'[i].scope = s
        /\ \/ db'.byScope[s] = None
           \/ \E v \in VersionIDs, a \in ActivationIDs :
                ServesNow(db', v, a, s) /\ EndsWithActivation(stream', v, a, s)
    BY <1>2 DEF AboutScope, BeginsToServe
  <2>2. ASSUME NEW t \in Scopes \ {s} PROVE NamedIn(db', stream', t)
    <3>1. \A i \in Len(stream) + 1 .. Len(stream') : stream'[i].scope # t
      BY <2>1, <2>2
    <3>2. t \in Scopes /\ ScopeKept(db', db, t) /\ NamedIn(db, stream, t)
      BY <1>1, <2>1, <2>2
    <3>3. QED
      BY <1>1, <2>1, <3>1, <3>2, NamedKept
  <2>3. NamedIn(db', stream', s)
    <3>1. CASE db'.byScope[s] = None
      BY <3>1 DEF NamedIn
    <3>2. ASSUME NEW v \in VersionIDs, NEW a \in ActivationIDs,
                 ServesNow(db', v, a, s), EndsWithActivation(stream', v, a, s)
          PROVE  NamedIn(db', stream', s)
      BY <3>2, NamedNow
    <3>3. QED
      BY <2>1, <3>1, <3>2
  <2>4. QED
    BY <2>2, <2>3
<1>3. CASE ScopesUntouched
  <2>1. stream' = stream /\ \A t \in Scopes : ScopeKept(db', db, t)
    BY <1>3 DEF ScopesUntouched
  <2>2. ASSUME NEW t \in Scopes PROVE NamedIn(db', stream', t)
    <3>1. /\ stream' \in Seq(Event) /\ Len(stream) <= Len(stream')
          /\ \A i \in 1 .. Len(stream) : stream'[i] = stream[i]
          /\ \A i \in Len(stream) + 1 .. Len(stream') : stream'[i].scope # t
      BY <1>1, <2>1
    <3>2. ScopeKept(db', db, t) /\ NamedIn(db, stream, t)
      BY <1>1, <2>1
    <3>3. QED
      BY <1>1, <3>1, <3>2, NamedKept
  <2>3. QED
    BY <2>2
<1>4. CASE stream' = stream /\ \A t \in Scopes : db'.byScope[t] = None
  BY <1>4 DEF NamedIn
<1>5. QED
  BY <1>1, <1>2, <1>3, <1>4, StepsAboutScopes

\* What a sound database with the right runtimes serves is what both queries list.
LEMMA ViewsAgree ==
  ASSUME DatabaseSound(db), RuntimesIn(db)
  PROVE  ServedViewsAgree
<1> SUFFICES ASSUME NEW s \in Scopes, db.byScope[s] # None
             PROVE  /\ ServedRuntime(db, s) \in ListActiveRuntimeProjections(db)
                    /\ ServedRuntime(db, s) \in ListActiveIngestionBindings(db)
  BY DEF ServedViewsAgree
<1> DEFINE a == db.byScope[s]
           v == db.activations[a].version
<1>1. /\ a \in ActivationIDs
      /\ db.activations[a].status = "active"
      /\ db.activations[a].scope = s
      /\ v \in VersionIDs
      /\ db.byVersionID[v] \in Keys
      /\ <<v, a>> \in db.byVersion
  BY ServedFacts
<1>2. s \in ActiveScopes(db, v)
  BY <1>1 DEF ActiveScopes, ListActivationsByVersionID
<1>3. v \in {w \in VersionIDs : db.byVersionID[w] # None}
  BY <1>1, ConstantsAssumption
<1>4. ServedRuntime(db, s) \in ListActiveRuntimeProjections(db)
  BY <1>2, <1>3 DEF ListActiveRuntimeProjections, ServedRuntime
<1>5. db.ingestionRuntimes[s] = [version |-> v, activation |-> a]
  BY DEF RuntimesIn, RuntimeOf
<1>6. db.ingestionRuntimes[s] # NoRuntime
  BY <1>1, <1>5, ConstantsAssumption DEF NoRuntime
<1>7. ServedRuntime(db, s) \in ListActiveIngestionBindings(db)
  BY <1>5, <1>6 DEF ListActiveIngestionBindings, ServedRuntime
<1>8. QED
  BY <1>4, <1>7

\* Whatever a scope serves, its config.activated event is on the stream.
THEOREM ServedIsAnnounced == Spec => []ServedWasAnnounced
<1>1. ServingInv => ServedWasAnnounced
  BY DEF ServingInv, AnnouncedIn, ServedWasAnnounced
<1>2. Init => ServingInv
  BY ServingInit DEF NamingInv
<1>3. QED
  BY <1>1, <1>2, ServingNext, PTL DEF Spec

\* The projection and the ingestion runtime of a scope are of the activation it
\* serves, whichever activations were undone.
THEOREM ViewsAreOne == Spec => []ServedViewsAgree
<1>1. ServingInv => ServedViewsAgree
  BY ViewsAgree DEF ServingInv, IInv
<1>2. Init => ServingInv
  BY ServingInit DEF NamingInv
<1>3. QED
  BY <1>1, <1>2, ServingNext, PTL DEF Spec

\* As long as every publication succeeds, the stream's last activation event of a
\* served scope is that of what it serves.
THEOREM StreamIsCurrent ==
  ASSUME ~PublishMayFail
  PROVE  Spec => []StreamNamesServed
<1>1. NamingInv => StreamNamesServed
  BY DEF NamingInv, NamedIn, StreamNamesServed
<1>2. Init => NamingInv
  BY ServingInit
<1>3. NamingInv /\ [Next]_vars => NamingInv'
  BY NamingNext
<1>4. QED
  BY <1>1, <1>2, <1>3, PTL DEF Spec
===============================================================================
