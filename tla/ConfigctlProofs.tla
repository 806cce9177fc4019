--------------------------- MODULE ConfigctlProofs ---------------------------
(***************************************************************************)
(* Proofs about Configctl, for every set of keys and scopes and every      *)
(* bound.                                                                  *)
(***************************************************************************)
EXTENDS Configctl, SequenceTheorems, TLAPS

-----------------------------------------------------------------------------
(* The invariants as predicates of a database.                             *)

VersionIndexIn(d) ==
  \A v \in VersionIDs, k \in Keys :
    d.byVersionID[v] = k <=> InSet(d.configSets[k], v)

ActivationIndexIn(d) ==
  \A a \in ActivationIDs :
    /\ \A v \in VersionIDs :
         <<v, a>> \in d.byVersion <=>
           d.activations[a].status # "absent" /\ d.activations[a].version = v
    /\ d.activations[a].status # "absent" =>
         /\ d.activations[a].version \in VersionIDs
         /\ d.activations[a].scope \in Scopes
         /\ d.byVersionID[d.activations[a].version] # None

ServedIn(d) ==
  \A s \in Scopes : d.byScope[s] # None =>
    /\ CanDeactivate(d, s)
    /\ d.activations[d.byScope[s]].scope = s

\* A version that was compiled keeps its document and artifact.
CompiledIn(d) ==
  \A k \in Keys, v \in VersionIDs :
    d.configSets[k].versions[v].lifecycle \in {"compiled", "active", "inactive"}
      => Projectable(d.configSets[k].versions[v])

-----------------------------------------------------------------------------
(* What the operators of the model return.                                 *)

\* A change of one lifecycle keeps the set's type, its members and every other version.
LEMMA WithLifecycleFacts ==
  ASSUME NEW set \in ConfigSet, NEW v \in VersionIDs, NEW l \in Lifecycles, InSet(set, v)
  PROVE  /\ WithLifecycle(set, v, l) \in ConfigSet
         /\ \A w \in VersionIDs : InSet(WithLifecycle(set, v, l), w) <=> InSet(set, w)
         /\ \A w \in VersionIDs \ {v} : WithLifecycle(set, v, l).versions[w] = set.versions[w]
         /\ WithLifecycle(set, v, l).versions[v].lifecycle = l
         /\ Projectable(WithLifecycle(set, v, l).versions[v]) <=> Projectable(set.versions[v])
  BY DEF WithLifecycle, ConfigSet, Version, InSet, Lifecycles, Projectable

\* Two databases with the same buckets are equal.
LEMMA DatabaseExtensional ==
  ASSUME NEW d \in Database, NEW e \in Database,
         d.configSets = e.configSets, d.byVersionID = e.byVersionID,
         d.activations = e.activations, d.byScope = e.byScope,
         d.byVersion = e.byVersion, d.ingestionRuntimes = e.ingestionRuntimes
  PROVE  d = e
  BY DEF Database

\* SaveConfigSet changes one set and its version index, nothing else.
LEMMA SaveConfigSetFields ==
  ASSUME NEW d \in Database, NEW k \in Keys, NEW set \in ConfigSet
  PROVE  /\ SaveConfigSet(d, k, set) \in Database
         /\ SaveConfigSet(d, k, set).configSets = [d.configSets EXCEPT ![k] = set]
         /\ SaveConfigSet(d, k, set).byVersionID =
              [v \in VersionIDs |->
                 IF InSet(set, v) THEN k
                 ELSE IF InSet(d.configSets[k], v) THEN None ELSE d.byVersionID[v]]
         /\ SaveConfigSet(d, k, set).activations = d.activations
         /\ SaveConfigSet(d, k, set).byScope = d.byScope
         /\ SaveConfigSet(d, k, set).byVersion = d.byVersion
         /\ SaveConfigSet(d, k, set).ingestionRuntimes = d.ingestionRuntimes
  BY DEF SaveConfigSet, Database

\* Saving a set with the same members leaves the version index as it is.
LEMMA SaveKeepsIndex ==
  ASSUME NEW d \in Database, NEW k \in Keys, NEW set \in ConfigSet,
         VersionIndexIn(d),
         \A v \in VersionIDs : InSet(set, v) <=> InSet(d.configSets[k], v)
  PROVE  SaveConfigSet(d, k, set).byVersionID = d.byVersionID
<1>1. d.byVersionID \in [VersionIDs -> Keys \cup {None}]
  BY DEF Database
<1>2. \A v \in VersionIDs : InSet(set, v) => d.byVersionID[v] = k
  BY DEF VersionIndexIn
<1>3. SaveConfigSet(d, k, set).byVersionID =
        [v \in VersionIDs |->
           IF InSet(set, v) THEN k
           ELSE IF InSet(d.configSets[k], v) THEN None ELSE d.byVersionID[v]]
  BY SaveConfigSetFields
<1>4. @ = [v \in VersionIDs |-> d.byVersionID[v]]
  BY <1>2
<1>5. QED
  BY <1>1, <1>3, <1>4

\* Removing a scope entry keeps the index's type.
LEMMA WithoutScopeEntryFacts ==
  ASSUME NEW f \in [Scopes -> ActivationIDs \cup {None}], NEW s, NEW a
  PROVE  /\ WithoutScopeEntry(f, s, a) \in [Scopes -> ActivationIDs \cup {None}]
         /\ \A x \in Scopes : x # s => WithoutScopeEntry(f, s, a)[x] = f[x]
         /\ s \in Scopes /\ f[s] = a => WithoutScopeEntry(f, s, a)[s] = None
         /\ \A x \in Scopes : f[x] # a => WithoutScopeEntry(f, s, a)[x] = f[x]
  BY DEF WithoutScopeEntry

\* SaveActivation touches the activation's record and its two indexes only.
LEMMA SaveActivationFields ==
  ASSUME NEW d \in Database, NEW a \in ActivationIDs, NEW activation \in Activation,
         activation.version \in VersionIDs, activation.scope \in Scopes
  PROVE  /\ SaveActivation(d, a, activation) \in Database
         /\ SaveActivation(d, a, activation).configSets = d.configSets
         /\ SaveActivation(d, a, activation).byVersionID = d.byVersionID
         /\ SaveActivation(d, a, activation).activations = [d.activations EXCEPT ![a] = activation]
         /\ SaveActivation(d, a, activation).byVersion =
              (d.byVersion \ {<<d.activations[a].version, a>>}) \cup {<<activation.version, a>>}
         /\ SaveActivation(d, a, activation).ingestionRuntimes = d.ingestionRuntimes
<1> DEFINE existing == d.activations[a]
           stale == /\ existing.status = "active"
                    /\ \/ activation.status # "active"
                       \/ existing.scope # activation.scope
           kept == IF stale THEN WithoutScopeEntry(d.byScope, existing.scope, a) ELSE d.byScope
           index == IF activation.status = "active"
                      THEN [kept EXCEPT ![activation.scope] = a]
                      ELSE WithoutScopeEntry(kept, activation.scope, a)
<1>1. kept \in [Scopes -> ActivationIDs \cup {None}]
  BY WithoutScopeEntryFacts DEF Database
<1>2. index \in [Scopes -> ActivationIDs \cup {None}]
  <2> HIDE DEF kept
  <2> QED BY <1>1, WithoutScopeEntryFacts
<1>3. SaveActivation(d, a, activation) =
        [d EXCEPT
           !.activations[a] = activation,
           !.byVersion = (d.byVersion \ {<<existing.version, a>>}) \cup {<<activation.version, a>>},
           !.byScope = index]
  BY DEF SaveActivation
<1> DEFINE pairs == (d.byVersion \ {<<existing.version, a>>}) \cup {<<activation.version, a>>}
<1>4. pairs \in VersionIndexes
  BY DEF Database, VersionIndexes
<1> DEFINE records == [d.activations EXCEPT ![a] = activation]
<1>5. records \in [ActivationIDs -> Activation]
  BY DEF Database
<1>6. SaveActivation(d, a, activation) =
        [configSets |-> d.configSets, byVersionID |-> d.byVersionID,
         activations |-> records, byScope |-> index, byVersion |-> pairs,
         ingestionRuntimes |-> d.ingestionRuntimes]
  BY <1>3 DEF Database
<1> HIDE DEF index, pairs, records
<1>7. SaveActivation(d, a, activation) \in Database
  BY <1>2, <1>4, <1>5, <1>6 DEF Database
<1>8. QED
  BY <1>6, <1>7 DEF pairs, records

\* Saving an active activation makes its scope serve it, as long as no other scope did.
LEMMA SaveActiveScope ==
  ASSUME NEW d \in Database, NEW a \in ActivationIDs, NEW activation \in Activation,
         activation.version \in VersionIDs, activation.scope \in Scopes,
         activation.status = "active",
         \A x \in Scopes : d.byScope[x] = a => x = activation.scope
  PROVE  SaveActivation(d, a, activation).byScope = [d.byScope EXCEPT ![activation.scope] = a]
<1>1. d.byScope \in [Scopes -> ActivationIDs \cup {None}]
  BY DEF Database
<1>2. [WithoutScopeEntry(d.byScope, d.activations[a].scope, a) EXCEPT ![activation.scope] = a]
        = [d.byScope EXCEPT ![activation.scope] = a]
  BY <1>1 DEF WithoutScopeEntry
<1>3. QED
  BY <1>2 DEF SaveActivation, Database

\* Saving a deactivated activation takes it out of its scope, and of no other.
LEMMA SaveDeactivatedScope ==
  ASSUME NEW d \in Database, NEW a \in ActivationIDs, NEW activation \in Activation,
         activation.version \in VersionIDs, activation.scope \in Scopes,
         activation.status # "active", d.byScope[activation.scope] = a,
         d.activations[a].scope = activation.scope
  PROVE  SaveActivation(d, a, activation).byScope = [d.byScope EXCEPT ![activation.scope] = None]
<1>1. d.byScope \in [Scopes -> ActivationIDs \cup {None}]
  BY DEF Database
<1>2. WithoutScopeEntry(d.byScope, activation.scope, a) = [d.byScope EXCEPT ![activation.scope] = None]
  BY <1>1 DEF WithoutScopeEntry
<1>3. WithoutScopeEntry([d.byScope EXCEPT ![activation.scope] = None], activation.scope, a)
        = [d.byScope EXCEPT ![activation.scope] = None]
  BY <1>1 DEF WithoutScopeEntry
<1>4. QED
  BY <1>2, <1>3 DEF SaveActivation, Database

\* DeleteActivation of an activation that serves its scope.
LEMMA DeleteActivationFields ==
  ASSUME NEW d \in Database, NEW a \in ActivationIDs,
         d.activations[a].status = "active", d.activations[a].scope \in Scopes,
         d.byScope[d.activations[a].scope] = a
  PROVE  /\ DeleteActivation(d, a) \in Database
         /\ DeleteActivation(d, a).configSets = d.configSets
         /\ DeleteActivation(d, a).byVersionID = d.byVersionID
         /\ DeleteActivation(d, a).activations = [d.activations EXCEPT ![a] = NoActivation]
         /\ DeleteActivation(d, a).byVersion = d.byVersion \ {<<d.activations[a].version, a>>}
         /\ DeleteActivation(d, a).ingestionRuntimes = d.ingestionRuntimes
         /\ DeleteActivation(d, a).byScope = [d.byScope EXCEPT ![d.activations[a].scope] = None]
<1>1. d.byScope \in [Scopes -> ActivationIDs \cup {None}]
  BY DEF Database
<1>2. WithoutScopeEntry(d.byScope, d.activations[a].scope, a)
        = [d.byScope EXCEPT ![d.activations[a].scope] = None]
  BY <1>1 DEF WithoutScopeEntry
<1>3. NoActivation \in Activation
  BY DEF NoActivation, Activation
<1>4. DeleteActivation(d, a) =
        [d EXCEPT !.activations[a] = NoActivation,
                  !.byVersion = d.byVersion \ {<<d.activations[a].version, a>>},
                  !.byScope = [d.byScope EXCEPT ![d.activations[a].scope] = None]]
  BY <1>2 DEF DeleteActivation
<1> DEFINE pairs == d.byVersion \ {<<d.activations[a].version, a>>}
<1>5. pairs \in VersionIndexes
  BY DEF Database, VersionIndexes
<1> DEFINE records == [d.activations EXCEPT ![a] = NoActivation]
           index == [d.byScope EXCEPT ![d.activations[a].scope] = None]
<1>6. /\ records \in [ActivationIDs -> Activation]
      /\ index \in [Scopes -> ActivationIDs \cup {None}]
  BY <1>1, <1>3 DEF Database
<1>7. DeleteActivation(d, a) =
        [configSets |-> d.configSets, byVersionID |-> d.byVersionID,
         activations |-> records, byScope |-> index, byVersion |-> pairs,
         ingestionRuntimes |-> d.ingestionRuntimes]
  BY <1>4 DEF Database
<1> HIDE DEF pairs, records, index
<1>8. DeleteActivation(d, a) \in Database
  BY <1>5, <1>6, <1>7 DEF Database
<1>9. QED
  BY <1>7, <1>8 DEF pairs, records, index

\* SaveIngestionRuntime touches the runtime of its scope only.
LEMMA SaveIngestionRuntimeFields ==
  ASSUME NEW d \in Database, NEW s \in Scopes, NEW runtime \in IngestionRuntime
  PROVE  /\ SaveIngestionRuntime(d, s, runtime) \in Database
         /\ SaveIngestionRuntime(d, s, runtime).configSets = d.configSets
         /\ SaveIngestionRuntime(d, s, runtime).byVersionID = d.byVersionID
         /\ SaveIngestionRuntime(d, s, runtime).activations = d.activations
         /\ SaveIngestionRuntime(d, s, runtime).byScope = d.byScope
         /\ SaveIngestionRuntime(d, s, runtime).byVersion = d.byVersion
         /\ SaveIngestionRuntime(d, s, runtime).ingestionRuntimes =
              [d.ingestionRuntimes EXCEPT ![s] = runtime]
  BY DEF SaveIngestionRuntime, Database

-----------------------------------------------------------------------------
(* The inductive invariant.  DatabaseSound is what every use case relies    *)
(* on when it starts; Fresh says that an id nextID() has not issued yet is  *)
(* not in the repository.                                                  *)

IndexSound(d) ==
  /\ d \in Database
  /\ VersionIndexIn(d)
  /\ ActivationIndexIn(d)
  /\ CompiledIn(d)

DatabaseSound(d) == IndexSound(d) /\ ServedIn(d)

Fresh ==
  /\ \A v \in VersionIDs : v > issued.versions => db.byVersionID[v] = None
  /\ \A a \in ActivationIDs : a > issued.activations => db.activations[a].status = "absent"

IInv == TypeOK /\ DatabaseSound(db) /\ Fresh

\* Facts a sound database gives about the activation a scope serves.
LEMMA ServedFacts ==
  ASSUME NEW d, DatabaseSound(d), NEW s \in Scopes, d.byScope[s] # None
  PROVE  LET a == d.byScope[s]
             v == d.activations[a].version
             k == d.byVersionID[v]
         IN  /\ a \in ActivationIDs
             /\ d.activations[a] \in Activation
             /\ d.activations[a].status = "active"
             /\ d.activations[a].scope = s
             /\ v \in VersionIDs
             /\ k \in Keys
             /\ d.configSets[k] \in ConfigSet
             /\ InSet(d.configSets[k], v)
             /\ d.configSets[k].versions[v].lifecycle = "active"
             /\ Projectable(d.configSets[k].versions[v])
             /\ <<v, a>> \in d.byVersion
<1> DEFINE a == d.byScope[s]
           v == d.activations[a].version
           k == d.byVersionID[v]
<1>1. /\ a \in ActivationIDs
      /\ d.activations[a] \in Activation
  BY DEF DatabaseSound, IndexSound, Database
<1>2. /\ d.activations[a].status = "active"
      /\ d.activations[a].scope = s
      /\ d.configSets[k].versions[v].lifecycle = "active"
      /\ Projectable(d.configSets[k].versions[v])
      /\ k # None
  BY DEF DatabaseSound, ServedIn, CanDeactivate
<1>3. /\ v \in VersionIDs
      /\ <<v, a>> \in d.byVersion
  BY <1>1, <1>2 DEF DatabaseSound, IndexSound, ActivationIndexIn
<1>4. k \in Keys
  BY <1>2, <1>3 DEF DatabaseSound, IndexSound, Database
<1>5. d.configSets[k] \in ConfigSet
  BY <1>4 DEF DatabaseSound, IndexSound, Database
<1>6. InSet(d.configSets[k], v)
  BY <1>2 DEF InSet
<1>7. QED
  BY <1>1, <1>2, <1>3, <1>4, <1>5, <1>6

\* Saving a changed set and then the set as it was loaded restores the database.
LEMMA SaveUndone ==
  ASSUME NEW d \in Database, VersionIndexIn(d), NEW k \in Keys, NEW set \in ConfigSet,
         \A v \in VersionIDs : InSet(d.configSets[k], v) => InSet(set, v),
         \A v \in VersionIDs : InSet(set, v) /\ ~InSet(d.configSets[k], v)
                                 => d.byVersionID[v] = None
  PROVE  SaveConfigSet(SaveConfigSet(d, k, set), k, d.configSets[k]) = d
<1> DEFINE e == SaveConfigSet(d, k, set)
           f == SaveConfigSet(e, k, d.configSets[k])
<1>1. d.configSets[k] \in ConfigSet
  BY DEF Database
<1>2. /\ e \in Database
      /\ e.configSets = [d.configSets EXCEPT ![k] = set]
      /\ e.byVersionID =
           [v \in VersionIDs |->
              IF InSet(set, v) THEN k
              ELSE IF InSet(d.configSets[k], v) THEN None ELSE d.byVersionID[v]]
      /\ e.activations = d.activations
      /\ e.byScope = d.byScope
      /\ e.byVersion = d.byVersion
      /\ e.ingestionRuntimes = d.ingestionRuntimes
  BY SaveConfigSetFields
<1> HIDE DEF e
<1>3. /\ f \in Database
      /\ f.configSets = [e.configSets EXCEPT ![k] = d.configSets[k]]
      /\ f.byVersionID =
           [v \in VersionIDs |->
              IF InSet(d.configSets[k], v) THEN k
              ELSE IF InSet(e.configSets[k], v) THEN None ELSE e.byVersionID[v]]
      /\ f.activations = e.activations
      /\ f.byScope = e.byScope
      /\ f.byVersion = e.byVersion
      /\ f.ingestionRuntimes = e.ingestionRuntimes
  <2>1. e \in Database
    BY <1>2
  <2>2. QED
    BY <1>1, <2>1, SaveConfigSetFields
<1> HIDE DEF f
<1>4. f.configSets = d.configSets
  BY <1>2, <1>3 DEF Database
<1>5. e.configSets[k] = set
  BY <1>2 DEF Database
<1>6. \A v \in VersionIDs : f.byVersionID[v] = d.byVersionID[v]
  BY <1>2, <1>3, <1>5 DEF VersionIndexIn
<1>7. /\ f.byVersionID \in [VersionIDs -> Keys \cup {None}]
      /\ d.byVersionID \in [VersionIDs -> Keys \cup {None}]
  BY <1>3 DEF Database
<1>8. f.byVersionID = d.byVersionID
  BY <1>6, <1>7
<1>9. f = d
  BY <1>2, <1>3, <1>4, <1>8, DatabaseExtensional
<1>10. QED
  BY <1>9 DEF f, e

-----------------------------------------------------------------------------
(* Each repository write keeps the indexes sound.                          *)

CompiledSet(set) ==
  \A v \in VersionIDs :
    set.versions[v].lifecycle \in {"compiled", "active", "inactive"} => Projectable(set.versions[v])

\* Saving a set with the members it had.
LEMMA SaveSameMembers ==
  ASSUME NEW d, IndexSound(d), NEW k \in Keys, NEW set \in ConfigSet, CompiledSet(set),
         \A v \in VersionIDs : InSet(set, v) <=> InSet(d.configSets[k], v)
  PROVE  /\ IndexSound(SaveConfigSet(d, k, set))
         /\ SaveConfigSet(d, k, set).configSets = [d.configSets EXCEPT ![k] = set]
         /\ SaveConfigSet(d, k, set).byVersionID = d.byVersionID
         /\ SaveConfigSet(d, k, set).activations = d.activations
         /\ SaveConfigSet(d, k, set).byScope = d.byScope
         /\ SaveConfigSet(d, k, set).byVersion = d.byVersion
         /\ SaveConfigSet(d, k, set).ingestionRuntimes = d.ingestionRuntimes
<1> DEFINE e == SaveConfigSet(d, k, set)
<1>1. d \in Database /\ VersionIndexIn(d) /\ ActivationIndexIn(d) /\ CompiledIn(d)
  BY DEF IndexSound
<1>2. /\ e \in Database
      /\ e.configSets = [d.configSets EXCEPT ![k] = set]
      /\ e.activations = d.activations
      /\ e.byScope = d.byScope
      /\ e.byVersion = d.byVersion
      /\ e.ingestionRuntimes = d.ingestionRuntimes
  BY <1>1, SaveConfigSetFields
<1>3. e.byVersionID = d.byVersionID
  BY <1>1, SaveKeepsIndex
<1> HIDE DEF e
<1>4. d.configSets \in [Keys -> ConfigSet]
  BY <1>1 DEF Database
<1>5. VersionIndexIn(e)
  BY <1>1, <1>2, <1>3, <1>4 DEF VersionIndexIn
<1>6. ActivationIndexIn(e)
  BY <1>1, <1>2, <1>3 DEF ActivationIndexIn
<1>7. CompiledIn(e)
  BY <1>1, <1>2, <1>4 DEF CompiledIn, CompiledSet
<1>8. QED
  BY <1>2, <1>3, <1>5, <1>6, <1>7 DEF IndexSound, e

\* Saving a set with one member more.
LEMMA SaveNewMember ==
  ASSUME NEW d, IndexSound(d), NEW k \in Keys, NEW set \in ConfigSet, CompiledSet(set),
         NEW v \in VersionIDs, d.byVersionID[v] = None,
         \A w \in VersionIDs : InSet(set, w) <=> w = v \/ InSet(d.configSets[k], w)
  PROVE  /\ IndexSound(SaveConfigSet(d, k, set))
         /\ SaveConfigSet(d, k, set).byVersionID = [d.byVersionID EXCEPT ![v] = k]
<1> DEFINE e == SaveConfigSet(d, k, set)
<1>1. d \in Database /\ VersionIndexIn(d) /\ ActivationIndexIn(d) /\ CompiledIn(d)
  BY DEF IndexSound
<1>2. /\ e \in Database
      /\ e.configSets = [d.configSets EXCEPT ![k] = set]
      /\ e.byVersionID =
           [w \in VersionIDs |->
              IF InSet(set, w) THEN k
              ELSE IF InSet(d.configSets[k], w) THEN None ELSE d.byVersionID[w]]
      /\ e.activations = d.activations
      /\ e.byVersion = d.byVersion
  BY <1>1, SaveConfigSetFields
<1> HIDE DEF e
<1>3. /\ d.configSets \in [Keys -> ConfigSet]
      /\ d.byVersionID \in [VersionIDs -> Keys \cup {None}]
      /\ e.byVersionID \in [VersionIDs -> Keys \cup {None}]
  BY <1>1, <1>2 DEF Database
<1>4. \A w \in VersionIDs : InSet(d.configSets[k], w) => d.byVersionID[w] = k
  BY <1>1 DEF VersionIndexIn
<1>5. \A w \in VersionIDs : e.byVersionID[w] = IF w = v THEN k ELSE d.byVersionID[w]
  BY <1>2, <1>4
<1>6. e.byVersionID = [d.byVersionID EXCEPT ![v] = k]
  BY <1>3, <1>5
<1>7. None \notin Keys
  BY ConstantsAssumption
<1>8. VersionIndexIn(e)
  <2> SUFFICES ASSUME NEW w \in VersionIDs, NEW j \in Keys
               PROVE  e.byVersionID[w] = j <=> InSet(e.configSets[j], w)
    BY DEF VersionIndexIn
  <2>1. d.byVersionID[w] = j <=> InSet(d.configSets[j], w)
    BY <1>1 DEF VersionIndexIn
  <2>2. CASE j = k
    BY <2>1, <2>2, <1>2, <1>3, <1>5
  <2>3. CASE j # k
    BY <2>1, <2>3, <1>2, <1>3, <1>5, <1>7
  <2>4. QED
    BY <2>2, <2>3
<1>9. ActivationIndexIn(e)
  BY <1>1, <1>2, <1>5, <1>7 DEF ActivationIndexIn
<1>10. CompiledIn(e)
  BY <1>1, <1>2, <1>3 DEF CompiledIn, CompiledSet
<1>11. QED
  BY <1>2, <1>6, <1>8, <1>9, <1>10 DEF IndexSound, e

\* Saving an activation of a stored version.
LEMMA SaveActivationIndex ==
  ASSUME NEW d, IndexSound(d), NEW a \in ActivationIDs, NEW activation \in Activation,
         activation.version \in VersionIDs, activation.scope \in Scopes,
         activation.status # "absent", d.byVersionID[activation.version] # None
  PROVE  IndexSound(SaveActivation(d, a, activation))
<1> DEFINE e == SaveActivation(d, a, activation)
<1>1. d \in Database /\ VersionIndexIn(d) /\ ActivationIndexIn(d) /\ CompiledIn(d)
  BY DEF IndexSound
<1>2. /\ e \in Database
      /\ e.configSets = d.configSets
      /\ e.byVersionID = d.byVersionID
      /\ e.activations = [d.activations EXCEPT ![a] = activation]
      /\ e.byVersion = (d.byVersion \ {<<d.activations[a].version, a>>}) \cup {<<activation.version, a>>}
  BY <1>1, SaveActivationFields
<1> HIDE DEF e
<1>3. d.activations \in [ActivationIDs -> Activation]
  BY <1>1 DEF Database
<1>4. VersionIndexIn(e) /\ CompiledIn(e)
  BY <1>1, <1>2 DEF VersionIndexIn, CompiledIn
<1>5. ActivationIndexIn(e)
  <2> SUFFICES ASSUME NEW b \in ActivationIDs
               PROVE  /\ \A v \in VersionIDs :
                           <<v, b>> \in e.byVersion <=>
                             e.activations[b].status # "absent" /\ e.activations[b].version = v
                      /\ e.activations[b].status # "absent" =>
                           /\ e.activations[b].version \in VersionIDs
                           /\ e.activations[b].scope \in Scopes
                           /\ e.byVersionID[e.activations[b].version] # None
    BY DEF ActivationIndexIn
  <2>1. CASE b = a
    BY <2>1, <1>1, <1>2, <1>3 DEF ActivationIndexIn
  <2>2. CASE b # a
    BY <2>2, <1>1, <1>2, <1>3 DEF ActivationIndexIn
  <2>3. QED
    BY <2>1, <2>2
<1>6. QED
  BY <1>2, <1>4, <1>5 DEF IndexSound, e

\* Deleting the activation that serves its scope.
LEMMA DeleteActivationIndex ==
  ASSUME NEW d, IndexSound(d), NEW a \in ActivationIDs,
         d.activations[a].status = "active", d.byScope[d.activations[a].scope] = a
  PROVE  IndexSound(DeleteActivation(d, a))
<1> DEFINE e == DeleteActivation(d, a)
<1>1. d \in Database /\ VersionIndexIn(d) /\ ActivationIndexIn(d) /\ CompiledIn(d)
  BY DEF IndexSound
<1>2. d.activations[a].scope \in Scopes
  BY <1>1 DEF ActivationIndexIn
<1>3. /\ e \in Database
      /\ e.configSets = d.configSets
      /\ e.byVersionID = d.byVersionID
      /\ e.activations = [d.activations EXCEPT ![a] = NoActivation]
      /\ e.byVersion = d.byVersion \ {<<d.activations[a].version, a>>}
  BY <1>1, <1>2, DeleteActivationFields
<1> HIDE DEF e
<1>4. d.activations \in [ActivationIDs -> Activation]
  BY <1>1 DEF Database
<1>5. VersionIndexIn(e) /\ CompiledIn(e)
  BY <1>1, <1>3 DEF VersionIndexIn, CompiledIn
<1>6. ActivationIndexIn(e)
  BY <1>1, <1>3, <1>4 DEF ActivationIndexIn, NoActivation
<1>7. QED
  BY <1>3, <1>5, <1>6 DEF IndexSound, e

\* Saving or deleting an ingestion runtime.
LEMMA SaveIngestionRuntimeSound ==
  ASSUME NEW d, DatabaseSound(d), NEW s \in Scopes, NEW runtime \in IngestionRuntime
  PROVE  DatabaseSound(SaveIngestionRuntime(d, s, runtime))
<1> DEFINE e == SaveIngestionRuntime(d, s, runtime)
<1>1. d \in Database /\ VersionIndexIn(d) /\ ActivationIndexIn(d) /\ CompiledIn(d) /\ ServedIn(d)
  BY DEF IndexSound, DatabaseSound
<1>2. /\ e \in Database
      /\ e.configSets = d.configSets
      /\ e.byVersionID = d.byVersionID
      /\ e.activations = d.activations
      /\ e.byScope = d.byScope
      /\ e.byVersion = d.byVersion
  BY <1>1, SaveIngestionRuntimeFields
<1> HIDE DEF e
<1>3. VersionIndexIn(e) /\ CompiledIn(e) /\ ActivationIndexIn(e)
  BY <1>1, <1>2 DEF VersionIndexIn, CompiledIn, ActivationIndexIn
<1>4. ServedIn(e)
  BY <1>1, <1>2 DEF ServedIn, CanDeactivate
<1>5. QED
  BY <1>2, <1>3, <1>4 DEF IndexSound, DatabaseSound, e

-----------------------------------------------------------------------------
(* What the scopes serve.                                                  *)

\* Sets, version index and scope index as in a sound database, and the records of
\* the activations that serve: the scopes are served as there.
LEMMA ServedAsBefore ==
  ASSUME NEW d, ServedIn(d), NEW e,
         e.configSets = d.configSets, e.byVersionID = d.byVersionID, e.byScope = d.byScope,
         \A s \in Scopes : d.byScope[s] # None =>
            e.activations[d.byScope[s]] = d.activations[d.byScope[s]]
  PROVE  ServedIn(e)
<1> SUFFICES ASSUME NEW s \in Scopes, e.byScope[s] # None
             PROVE  CanDeactivate(e, s) /\ e.activations[e.byScope[s]].scope = s
  BY DEF ServedIn
<1>1. CanDeactivate(d, s) /\ d.activations[d.byScope[s]].scope = s
  BY DEF ServedIn
<1>2. e.activations[e.byScope[s]] = d.activations[d.byScope[s]]
  OBVIOUS
<1>3. QED
  BY <1>1, <1>2 DEF CanDeactivate

\* The sets of `e` are those of `d`, but v of set k may be inactive.
LeftIn(e, d, k, v) ==
  /\ \A j \in Keys \ {k} : e.configSets[j] = d.configSets[j]
  /\ \A w \in VersionIDs \ {v} : e.configSets[k].versions[w] = d.configSets[k].versions[w]
  /\ e.configSets[k].versions[v].lifecycle \in {"active", "inactive"}

\* Deactivating what a scope serves: what it changes, and that the other scopes are
\* served as before.
LEMMA DeactivateServingSound ==
  ASSUME NEW d, DatabaseSound(d), NEW s \in Scopes, d.byScope[s] # None
  PROVE  LET e == DeactivateServing(d, s)
             a == d.byScope[s]
             v == d.activations[a].version
             k == d.byVersionID[v]
         IN  /\ DatabaseSound(e)
             /\ e.byVersionID = d.byVersionID
             /\ e.byScope = [d.byScope EXCEPT ![s] = None]
             /\ e.activations = [d.activations EXCEPT ![a] = Deactivated(d.activations[a])]
             /\ \A j \in Keys \ {k} : e.configSets[j] = d.configSets[j]
             /\ \A w \in VersionIDs : InSet(e.configSets[k], w) <=> InSet(d.configSets[k], w)
             /\ LeftIn(e, d, k, v)
<1> DEFINE a == d.byScope[s]
           activation == d.activations[a]
           v == activation.version
           k == d.byVersionID[v]
           old == d.configSets[k]
           other == HasOtherActiveActivation(d, v, a)
           set == DeactivateVersion(old, v, other)
           after == Deactivated(activation)
           f == SaveConfigSet(d, k, set)
           e == DeactivateServing(d, s)
<1>0. a = d.byScope[s] /\ activation = d.activations[a] /\ v = activation.version
      /\ k = d.byVersionID[v] /\ old = d.configSets[k]
  OBVIOUS
<1>1. /\ a \in ActivationIDs
      /\ activation \in Activation
      /\ activation.status = "active"
      /\ activation.scope = s
      /\ v \in VersionIDs
      /\ k \in Keys
      /\ old \in ConfigSet
      /\ InSet(old, v)
      /\ Projectable(old.versions[v])
  BY ServedFacts
<1>2. IndexSound(d) /\ ServedIn(d) /\ d \in Database /\ ActivationIndexIn(d) /\ CompiledIn(d)
  BY DEF DatabaseSound, IndexSound
<1>3. k # None
  BY <1>1, ConstantsAssumption
<1>4. e = SaveActivation(f, a, after)
  BY DEF DeactivateServing
<1> HIDE DEF a, activation, v, k, old
<1> DEFINE l == IF other THEN "active" ELSE "inactive"
<1>5. l \in Lifecycles /\ set = WithLifecycle(old, v, l)
  BY DEF Lifecycles, DeactivateVersion
<1> HIDE DEF l, other, set
<1>6. /\ set \in ConfigSet
      /\ \A w \in VersionIDs : InSet(set, w) <=> InSet(old, w)
      /\ \A w \in VersionIDs \ {v} : set.versions[w] = old.versions[w]
      /\ set.versions[v].lifecycle = l
      /\ Projectable(set.versions[v])
  BY <1>1, <1>5, WithLifecycleFacts
<1>7. CompiledSet(set)
  BY <1>0, <1>1, <1>2, <1>6 DEF CompiledSet, CompiledIn
<1>8. \A w \in VersionIDs : InSet(set, w) <=> InSet(d.configSets[k], w)
  BY <1>0, <1>6
<1>9. /\ IndexSound(f)
      /\ f.configSets = [d.configSets EXCEPT ![k] = set]
      /\ f.byVersionID = d.byVersionID
      /\ f.activations = d.activations
      /\ f.byScope = d.byScope
  <2>1. IndexSound(d) /\ k \in Keys /\ set \in ConfigSet
    BY <1>1, <1>2, <1>6
  <2>2. QED
    BY <2>1, <1>7, <1>8, SaveSameMembers
<1> HIDE DEF f
<1>10. /\ after \in Activation
      /\ after.version = v
      /\ after.scope = s
      /\ after.status = "deactivated"
  BY <1>0, <1>1 DEF Deactivated, Activation
<1> HIDE DEF after
<1>11. f \in Database
  BY <1>9 DEF IndexSound
<1>12. IndexSound(SaveActivation(f, a, after))
  BY <1>0, <1>1, <1>3, <1>9, <1>10, SaveActivationIndex
<1>13. /\ SaveActivation(f, a, after).configSets = f.configSets
       /\ SaveActivation(f, a, after).byVersionID = f.byVersionID
       /\ SaveActivation(f, a, after).activations = [f.activations EXCEPT ![a] = after]
  BY <1>1, <1>10, <1>11, SaveActivationFields
<1>14. /\ f.byScope[after.scope] = a
       /\ f.activations[a].scope = after.scope
       /\ after.status # "active"
  BY <1>0, <1>1, <1>9, <1>10
<1>15. SaveActivation(f, a, after).byScope = [f.byScope EXCEPT ![after.scope] = None]
  BY <1>1, <1>10, <1>11, <1>14, SaveDeactivatedScope
<1>16. e = SaveActivation(f, a, after)
  BY <1>4
<1> HIDE DEF e
<1>17. d.configSets \in [Keys -> ConfigSet] /\ d.byScope \in [Scopes -> ActivationIDs \cup {None}]
       /\ d.activations \in [ActivationIDs -> Activation]
  BY <1>2 DEF Database
<1>18. ServedIn(e)
  <2> SUFFICES ASSUME NEW t \in Scopes, e.byScope[t] # None
               PROVE  CanDeactivate(e, t) /\ e.activations[e.byScope[t]].scope = t
    BY DEF ServedIn
  <2> DEFINE b == d.byScope[t]
             w == d.activations[b].version
             j == d.byVersionID[w]
  <2>1. t # s /\ e.byScope[t] = b /\ b # None
    BY <1>9, <1>10, <1>15, <1>16, <1>17
  <2>2. /\ b \in ActivationIDs
        /\ d.activations[b].status = "active"
        /\ d.activations[b].scope = t
        /\ w \in VersionIDs
        /\ j \in Keys
        /\ d.configSets[j].versions[w].lifecycle = "active"
        /\ Projectable(d.configSets[j].versions[w])
        /\ <<w, b>> \in d.byVersion
    BY <2>1, ServedFacts
  <2>3. b # a
    BY <2>1, <2>2, <1>0, <1>1
  <2>4. e.activations[b] = d.activations[b]
    BY <2>2, <2>3, <1>9, <1>13, <1>16, <1>17
  <2>5. e.configSets[j].versions[w].lifecycle = "active" /\ Projectable(e.configSets[j].versions[w])
    <3>1. CASE w = v
      <4>1. other
        BY <2>2, <2>3, <3>1 DEF HasOtherActiveActivation, ListActivationsByVersionID, other
      <4>2. l = "active"
        BY <4>1 DEF l
      <4>3. e.configSets[k] = set
        BY <1>1, <1>9, <1>13, <1>16, <1>17
      <4>4. QED
        BY <4>2, <4>3, <3>1, <1>0, <1>6
    <3>2. CASE w # v
      <4>1. CASE j = k
        <5>1. e.configSets[j] = set
          BY <4>1, <1>1, <1>9, <1>13, <1>16, <1>17
        <5>2. set.versions[w] = d.configSets[j].versions[w]
          BY <4>1, <3>2, <2>2, <1>0, <1>6
        <5>3. QED
          BY <5>1, <5>2, <2>2
      <4>2. CASE j # k
        <5>1. e.configSets[j] = d.configSets[j]
          BY <4>2, <2>2, <1>1, <1>9, <1>13, <1>16, <1>17
        <5>2. QED
          BY <5>1, <2>2
      <4>3. QED
        BY <4>1, <4>2
    <3>3. QED
      BY <3>1, <3>2
  <2>6. e.byVersionID = d.byVersionID /\ j # None
    BY <2>2, <1>9, <1>13, <1>16, ConstantsAssumption
  <2>7. QED
    BY <2>1, <2>2, <2>4, <2>5, <2>6 DEF CanDeactivate
<1>19. QED
  <2>1. /\ DatabaseSound(e)
        /\ e.byVersionID = d.byVersionID
        /\ e.byScope = [d.byScope EXCEPT ![s] = None]
        /\ e.activations = [d.activations EXCEPT ![a] = after]
    BY <1>9, <1>10, <1>12, <1>13, <1>15, <1>16, <1>18 DEF DatabaseSound
  <2>2. e.configSets = [d.configSets EXCEPT ![k] = set]
    BY <1>9, <1>13, <1>16
  <2>3. \A j \in Keys \ {k} : e.configSets[j] = d.configSets[j]
    BY <2>2, <1>17
  <2>4. e.configSets[k] = set
    BY <2>2, <1>1, <1>17
  <2>5. \A w \in VersionIDs : InSet(e.configSets[k], w) <=> InSet(d.configSets[k], w)
    BY <2>4, <1>8
  <2>6. \A w \in VersionIDs \ {v} : e.configSets[k].versions[w] = d.configSets[k].versions[w]
    BY <2>4, <1>0, <1>6
  <2>7. e.configSets[k].versions[v].lifecycle \in {"active", "inactive"}
    BY <2>4, <1>6 DEF l
  <2>8. LeftIn(e, d, k, v)
    BY <2>3, <2>6, <2>7 DEF LeftIn
  <2>9. QED
    BY <2>1, <2>3, <2>5, <2>8 DEF e, after, activation, a, v, k

\* `e` is the database after what s serves in `d` was displaced.
DisplacedFrom(e, d, s) ==
  /\ DatabaseSound(e)
  /\ e.byVersionID = d.byVersionID
  /\ e.byScope = [d.byScope EXCEPT ![s] = None]
  /\ \A b \in ActivationIDs : b # d.byScope[s] => e.activations[b] = d.activations[b]
  /\ \A j \in Keys :
       \/ e.configSets[j] = d.configSets[j]
       \/ d.byScope[s] # None /\ j = d.byVersionID[d.activations[d.byScope[s]].version]

\* The first half of an activation.
LEMMA DisplacedSound ==
  ASSUME NEW d, DatabaseSound(d), NEW s \in Scopes
  PROVE  DisplacedFrom(Displaced(d, s), d, s)
<1>1. d.byScope \in [Scopes -> ActivationIDs \cup {None}] /\ d.activations \in [ActivationIDs -> Activation]
  BY DEF DatabaseSound, IndexSound, Database
<1>2. CASE d.byScope[s] = None
  <2>1. d.byScope = [d.byScope EXCEPT ![s] = None]
    BY <1>1, <1>2
  <2>2. QED
    BY <1>2, <2>1 DEF DisplacedFrom, Displaced
<1>3. CASE d.byScope[s] # None
  <2> DEFINE e == DeactivateServing(d, s)
             a == d.byScope[s]
  <2>1. /\ DatabaseSound(e)
        /\ e.byVersionID = d.byVersionID
        /\ e.byScope = [d.byScope EXCEPT ![s] = None]
        /\ e.activations = [d.activations EXCEPT ![a] = Deactivated(d.activations[a])]
        /\ \A j \in Keys \ {d.byVersionID[d.activations[a].version]} : e.configSets[j] = d.configSets[j]
    BY <1>3, DeactivateServingSound
  <2> HIDE DEF e
  <2>2. \A b \in ActivationIDs : b # a => e.activations[b] = d.activations[b]
    BY <1>1, <2>1
  <2>3. Displaced(d, s) = e
    BY <1>3 DEF Displaced, e
  <2>4. QED
    BY <1>3, <2>1, <2>2, <2>3 DEF DisplacedFrom
<1>4. QED
  BY <1>2, <1>3

\* Two sound databases with the same version index hold the same versions.
LEMMA SameMembers ==
  ASSUME NEW d, IndexSound(d), NEW e, IndexSound(e), e.byVersionID = d.byVersionID, NEW k \in Keys
  PROVE  \A v \in VersionIDs : InSet(d.configSets[k], v) <=> InSet(e.configSets[k], v)
  BY DEF IndexSound, VersionIndexIn

\* `f` is `e` with v of set k activated in s by a, as far as roll back depends on it.
ActivatedFrom(f, e, d, k, v, a, s) ==
  /\ DatabaseSound(f)
  /\ f.byVersionID = d.byVersionID
  /\ f.byScope = [d.byScope EXCEPT ![s] = a]
  /\ f.activations = [e.activations EXCEPT ![a] = NewActivation(v, s)]
  /\ \A j \in Keys \ {k} : f.configSets[j] = e.configSets[j]
  /\ f.configSets[k] = ActivateVersion(d.configSets[k], v)

\* The second half of an activation: the stale copy of the set does not take the
\* version of another scope out of service.
LEMMA ActivatedSound ==
  ASSUME NEW d, DatabaseSound(d), NEW s \in Scopes, NEW e, DisplacedFrom(e, d, s),
         NEW v \in VersionIDs, NEW k \in Keys, d.byVersionID[v] = k,
         NEW set, set = d.configSets[k], Activatable(set.versions[v]),
         NEW a \in ActivationIDs, d.activations[a].status = "absent"
  PROVE  ActivatedFrom(Activated(e, k, set, v, a, s), e, d, k, v, a, s)
<1> DEFINE new == ActivateVersion(set, v)
           record == NewActivation(v, s)
           g == SaveConfigSet(e, k, new)
           h == SaveActivation(g, a, record)
           runtime == [version |-> v, activation |-> a]
           f == SaveIngestionRuntime(h, s, runtime)
<1>1. /\ IndexSound(d) /\ d \in Database /\ VersionIndexIn(d) /\ CompiledIn(d) /\ ServedIn(d)
      /\ IndexSound(e) /\ e \in Database /\ ServedIn(e)
      /\ DatabaseSound(e)
  BY DEF DatabaseSound, IndexSound, DisplacedFrom
<1>2. /\ e.byVersionID = d.byVersionID
      /\ e.byScope = [d.byScope EXCEPT ![s] = None]
      /\ \A b \in ActivationIDs : b # d.byScope[s] => e.activations[b] = d.activations[b]
  BY DEF DisplacedFrom
<1>3. /\ d.configSets \in [Keys -> ConfigSet]
      /\ d.byScope \in [Scopes -> ActivationIDs \cup {None}]
      /\ e.configSets \in [Keys -> ConfigSet]
      /\ e.activations \in [ActivationIDs -> Activation]
  BY <1>1 DEF Database
<1>4. None \notin Keys /\ None \notin ActivationIDs
  BY ConstantsAssumption
<1>5. set \in ConfigSet /\ InSet(set, v) /\ Projectable(set.versions[v])
  BY <1>1, <1>3 DEF VersionIndexIn, Activatable
<1>6. /\ new \in ConfigSet
      /\ \A w \in VersionIDs : InSet(new, w) <=> InSet(set, w)
      /\ \A w \in VersionIDs \ {v} : new.versions[w] = set.versions[w]
      /\ new.versions[v].lifecycle = "active"
      /\ Projectable(new.versions[v])
  <2>1. "active" \in Lifecycles
    BY DEF Lifecycles
  <2>2. QED
    BY <1>5, <2>1, WithLifecycleFacts DEF ActivateVersion
<1> HIDE DEF new
<1>7. CompiledSet(new)
  BY <1>1, <1>6 DEF CompiledSet, CompiledIn
<1>8. \A w \in VersionIDs : InSet(new, w) <=> InSet(e.configSets[k], w)
  <2>1. \A w \in VersionIDs : InSet(d.configSets[k], w) <=> InSet(e.configSets[k], w)
    BY <1>1, <1>2, SameMembers
  <2>2. QED
    BY <1>6, <2>1
<1>9. new \in ConfigSet
  BY <1>6
<1>10. /\ IndexSound(g)
       /\ g.configSets = [e.configSets EXCEPT ![k] = new]
       /\ g.byVersionID = e.byVersionID
       /\ g.activations = e.activations
       /\ g.byScope = e.byScope
  BY <1>1, <1>7, <1>8, <1>9, SaveSameMembers
<1> HIDE DEF g
<1>11. /\ record \in Activation
       /\ record.version = v
       /\ record.scope = s
       /\ record.status = "active"
  BY DEF NewActivation, Activation
<1> HIDE DEF record
<1>12. g \in Database
  BY <1>10 DEF IndexSound
<1>13. IndexSound(h)
  BY <1>2, <1>4, <1>10, <1>11, SaveActivationIndex
<1>14. /\ h.configSets = g.configSets
       /\ h.byVersionID = g.byVersionID
       /\ h.activations = [g.activations EXCEPT ![a] = record]
  <2>1. record.version \in VersionIDs /\ record.scope \in Scopes /\ record \in Activation
    BY <1>11
  <2>2. QED
    BY <1>12, <2>1, SaveActivationFields
<1>15. \A t \in Scopes : d.byScope[t] # a
  <2> SUFFICES ASSUME NEW t \in Scopes, d.byScope[t] = a PROVE FALSE
    OBVIOUS
  <2>1. d.byScope[t] # None
    BY <1>4
  <2>2. d.activations[d.byScope[t]].status = "active"
    BY <2>1, ServedFacts
  <2>3. QED
    BY <2>2
<1>16. \A t \in Scopes : g.byScope[t] = a => t = record.scope
  BY <1>2, <1>3, <1>4, <1>10, <1>15
<1>17. h.byScope = [g.byScope EXCEPT ![record.scope] = a]
  BY <1>11, <1>12, <1>16, SaveActiveScope
<1> HIDE DEF h
<1>18. h.byScope = [d.byScope EXCEPT ![s] = a]
  BY <1>2, <1>3, <1>10, <1>11, <1>17
<1>19. ServedIn(h)
  <2> SUFFICES ASSUME NEW t \in Scopes, h.byScope[t] # None
               PROVE  CanDeactivate(h, t) /\ h.activations[h.byScope[t]].scope = t
    BY DEF ServedIn
  <2>1. CASE t = s
    <3>1. h.byScope[t] = a /\ h.activations[a] = record
      BY <1>3, <1>10, <1>14, <1>18, <2>1
    <3>2. h.configSets[k] = new /\ h.byVersionID[v] = k
      BY <1>2, <1>3, <1>10, <1>14
    <3>3. QED
      BY <1>4, <1>6, <1>11, <2>1, <3>1, <3>2 DEF CanDeactivate
  <2>2. CASE t # s
    <3> DEFINE b == d.byScope[t]
               w == d.activations[b].version
               j == d.byVersionID[w]
    <3>1. h.byScope[t] = b /\ b # None /\ e.byScope[t] = b
      BY <1>2, <1>3, <1>18, <2>2
    <3>2. /\ b \in ActivationIDs
          /\ d.activations[b].status = "active"
          /\ d.activations[b].scope = t
          /\ w \in VersionIDs
          /\ j \in Keys
          /\ d.configSets[j].versions[w].lifecycle = "active"
          /\ Projectable(d.configSets[j].versions[w])
      BY <3>1, ServedFacts
    <3>3. b # d.byScope[s]
      <4>1. d.byScope[s] # None => d.activations[d.byScope[s]].scope = s
        BY ServedFacts
      <4>2. QED
        BY <4>1, <3>1, <3>2, <2>2
    <3>4. e.activations[b] = d.activations[b]
      BY <3>2, <3>3, <1>2
    <3>5. h.activations[b] = d.activations[b]
      <4>1. b # a
        BY <1>15
      <4>2. g.activations[b] = d.activations[b] /\ g.activations \in [ActivationIDs -> Activation]
        BY <3>4, <1>3, <1>10
      <4>3. QED
        BY <3>2, <4>1, <4>2, <1>14
    <3>6. h.configSets[j].versions[w].lifecycle = "active" /\ Projectable(h.configSets[j].versions[w])
      <4>1. CASE j = k
        <5>1. h.configSets[j] = new
          BY <4>1, <1>3, <1>10, <1>14
        <5>2. CASE w = v
          BY <5>1, <5>2, <1>6
        <5>3. CASE w # v
          <6>1. new.versions[w] = d.configSets[j].versions[w]
            BY <5>3, <4>1, <3>2, <1>6
          <6>2. QED
            BY <5>1, <6>1, <3>2
        <5>4. QED
          BY <5>2, <5>3
      <4>2. CASE j # k
        <5>1. h.configSets[j] = e.configSets[j]
          BY <4>2, <3>2, <1>3, <1>10, <1>14
        <5>2. CanDeactivate(e, t)
          BY <1>1, <3>1 DEF ServedIn
        <5>3. e.configSets[j].versions[w].lifecycle = "active" /\ Projectable(e.configSets[j].versions[w])
          BY <5>2, <3>1, <3>4, <1>2 DEF CanDeactivate
        <5>4. QED
          BY <5>1, <5>3
      <4>3. QED
        BY <4>1, <4>2
    <3>7. h.byVersionID = d.byVersionID /\ j # None
      BY <3>2, <1>2, <1>4, <1>10, <1>14
    <3>8. QED
      BY <3>1, <3>2, <3>5, <3>6, <3>7 DEF CanDeactivate
  <2>3. QED
    BY <2>1, <2>2
<1>20. runtime \in IngestionRuntime
  BY DEF IngestionRuntime
<1> HIDE DEF runtime
<1>21. h \in Database /\ DatabaseSound(h)
  BY <1>13, <1>19 DEF DatabaseSound, IndexSound
<1>22. /\ DatabaseSound(f)
       /\ f.configSets = h.configSets
       /\ f.byVersionID = h.byVersionID
       /\ f.activations = h.activations
       /\ f.byScope = h.byScope
  BY <1>20, <1>21, SaveIngestionRuntimeSound, SaveIngestionRuntimeFields
<1>23. f = Activated(e, k, set, v, a, s)
  BY DEF Activated, f, h, g, new, record, runtime
<1> HIDE DEF f
<1>24. \A j \in Keys \ {k} : f.configSets[j] = e.configSets[j]
  BY <1>3, <1>10, <1>14, <1>22
<1>25. f.activations = [e.activations EXCEPT ![a] = record]
  BY <1>10, <1>14, <1>22
<1>26. f.byVersionID = d.byVersionID /\ f.byScope = [d.byScope EXCEPT ![s] = a]
  BY <1>2, <1>10, <1>14, <1>18, <1>22
<1>27. f.configSets[k] = ActivateVersion(d.configSets[k], v)
  BY <1>3, <1>10, <1>14, <1>22 DEF new
<1>28. QED
  BY <1>22, <1>23, <1>24, <1>25, <1>26, <1>27 DEF record, ActivatedFrom

\* Putting a set back as it was in a sound database with the same version index.
LEMMA RestoreSet ==
  ASSUME NEW d, IndexSound(d), NEW e, IndexSound(e), e.byVersionID = d.byVersionID,
         NEW k \in Keys, NEW set, set = d.configSets[k]
  PROVE  /\ IndexSound(SaveConfigSet(e, k, set))
         /\ SaveConfigSet(e, k, set).configSets = [e.configSets EXCEPT ![k] = set]
         /\ SaveConfigSet(e, k, set).byVersionID = e.byVersionID
         /\ SaveConfigSet(e, k, set).activations = e.activations
         /\ SaveConfigSet(e, k, set).byScope = e.byScope
<1>1. set \in ConfigSet
  BY DEF IndexSound, Database
<1>2. CompiledSet(set)
  BY DEF IndexSound, CompiledIn, CompiledSet
<1>3. \A v \in VersionIDs : InSet(set, v) <=> InSet(e.configSets[k], v)
  BY SameMembers
<1>4. QED
  BY <1>1, <1>2, <1>3, SaveSameMembers

\* The undo of a failed activation: every scope serves what it served, although
\* the failed activation's record may stay.
LEMMA RolledBackSound ==
  ASSUME NEW d, DatabaseSound(d), NEW s \in Scopes, NEW e, DisplacedFrom(e, d, s),
         NEW v \in VersionIDs, NEW k \in Keys, d.byVersionID[v] = k,
         NEW a \in ActivationIDs, d.activations[a].status = "absent",
         NEW f, ActivatedFrom(f, e, d, k, v, a, s)
  PROVE  LET r == RolledBack(d, f, k, a, s)
         IN  /\ DatabaseSound(r)
             /\ r.byVersionID = d.byVersionID
             /\ r.byScope = d.byScope
             /\ r.configSets = d.configSets
             /\ \A b \in ActivationIDs \ {a} : r.activations[b] = d.activations[b]
<1> DEFINE prev == d.byScope[s]
           old == d.configSets[k]
           restored == SaveConfigSet(f, k, old)
           r == RolledBack(d, f, k, a, s)
<1>1. /\ IndexSound(d) /\ d \in Database /\ ActivationIndexIn(d) /\ ServedIn(d)
      /\ IndexSound(f) /\ f \in Database
      /\ e \in Database
  BY DEF DatabaseSound, IndexSound, DisplacedFrom, ActivatedFrom
<1>2. /\ d.configSets \in [Keys -> ConfigSet]
      /\ d.byScope \in [Scopes -> ActivationIDs \cup {None}]
      /\ d.activations \in [ActivationIDs -> Activation]
      /\ e.activations \in [ActivationIDs -> Activation]
      /\ f.configSets \in [Keys -> ConfigSet]
  BY <1>1 DEF Database
<1>3. None \notin Keys /\ None \notin ActivationIDs /\ None \notin VersionIDs
  BY ConstantsAssumption
<1>4. /\ \A b \in ActivationIDs : b # prev => e.activations[b] = d.activations[b]
      /\ \A j \in Keys :
           \/ e.configSets[j] = d.configSets[j]
           \/ prev # None /\ j = d.byVersionID[d.activations[prev].version]
  BY DEF DisplacedFrom
<1>5. /\ f.byVersionID = d.byVersionID
      /\ f.byScope = [d.byScope EXCEPT ![s] = a]
      /\ f.activations = [e.activations EXCEPT ![a] = NewActivation(v, s)]
      /\ \A j \in Keys \ {k} : f.configSets[j] = e.configSets[j]
  BY DEF ActivatedFrom
<1>6. f.byVersionID = d.byVersionID
  BY <1>5
<1>7. /\ IndexSound(restored)
      /\ restored.configSets = [f.configSets EXCEPT ![k] = old]
      /\ restored.byVersionID = f.byVersionID
      /\ restored.activations = f.activations
      /\ restored.byScope = f.byScope
  <2>1. IndexSound(d) /\ IndexSound(f) /\ old = d.configSets[k]
    BY <1>1
  <2> HIDE DEF old
  <2>2. QED
    BY <2>1, <1>6, RestoreSet
<1> HIDE DEF restored
<1>8. restored \in Database
  BY <1>7 DEF IndexSound
<1>9. \A t \in Scopes : d.byScope[t] # None => d.byScope[t] \in ActivationIDs \ {a}
  BY ServedFacts
<1>10. restored.configSets \in [Keys -> ConfigSet]
      /\ \A j \in Keys : restored.configSets[j] = IF j = k THEN d.configSets[j] ELSE e.configSets[j]
  BY <1>2, <1>7, <1>5
<1>11. restored.activations[a] = NewActivation(v, s) /\ restored.byScope[s] = a
  BY <1>2, <1>7, <1>5
<1>12. CASE prev = None
  <2> DEFINE g == DeleteActivation(restored, a)
  <2>1. /\ restored.activations[a].status = "active"
        /\ restored.activations[a].scope = s
        /\ restored.byScope[restored.activations[a].scope] = a
    BY <1>11 DEF NewActivation
  <2>2. IndexSound(g)
    BY <1>7, <2>1, DeleteActivationIndex
  <2>3. /\ g \in Database
        /\ g.configSets = restored.configSets
        /\ g.byVersionID = restored.byVersionID
        /\ g.activations = [restored.activations EXCEPT ![a] = NoActivation]
        /\ g.byScope = [restored.byScope EXCEPT ![restored.activations[a].scope] = None]
    BY <1>8, <2>1, DeleteActivationFields
  <2> HIDE DEF g
  <2>4. g.configSets = d.configSets
    BY <1>2, <1>4, <1>10, <1>12, <2>3
  <2>5. g.byScope = d.byScope
    BY <1>2, <1>7, <1>5, <1>12, <2>1, <2>3
  <2>6. \A b \in ActivationIDs \ {a} : g.activations[b] = d.activations[b]
    BY <1>2, <1>3, <1>4, <1>7, <1>5, <1>12, <2>3
  <2>7. g.byVersionID = d.byVersionID
    BY <1>7, <1>6, <2>3
  <2>8. ServedIn(g)
    <3>1. \A t \in Scopes : d.byScope[t] # None => g.activations[d.byScope[t]] = d.activations[d.byScope[t]]
      BY <1>9, <2>6
    <3>2. QED
      BY <1>1, <2>4, <2>5, <2>7, <3>1, ServedAsBefore
  <2>9. DatabaseSound(g)
    BY <2>2, <2>8 DEF DatabaseSound
  <2>10. NoRuntime \in IngestionRuntime
    BY DEF NoRuntime, IngestionRuntime
  <2>11. r = SaveIngestionRuntime(g, s, NoRuntime)
    BY <1>12 DEF RolledBack, DeleteIngestionRuntime, g, restored
  <2>12. /\ DatabaseSound(r)
         /\ r.byVersionID = g.byVersionID
         /\ r.byScope = g.byScope
         /\ r.configSets = g.configSets
         /\ r.activations = g.activations
    <3> HIDE DEF r
    <3>1. g \in Database
      BY <2>3
    <3>2. DatabaseSound(r)
      BY <2>9, <2>10, <2>11, SaveIngestionRuntimeSound
    <3>3. QED
      BY <3>1, <3>2, <2>10, <2>11, SaveIngestionRuntimeFields
  <2>13. QED
    BY <2>4, <2>5, <2>6, <2>7, <2>12
<1>13. CASE prev # None
  <2> DEFINE activation == d.activations[prev]
             u == activation.version
             kp == d.byVersionID[u]
             oldp == d.configSets[kp]
             g == SaveConfigSet(restored, kp, oldp)
             h == SaveActivation(g, prev, activation)
             runtime == [version |-> u, activation |-> prev]
  <2>1. /\ prev \in ActivationIDs
        /\ activation \in Activation
        /\ activation.status = "active"
        /\ activation.scope = s
        /\ u \in VersionIDs
        /\ kp \in Keys
    BY <1>13, ServedFacts
  <2>2. activation = d.activations[prev] /\ u = activation.version /\ kp = d.byVersionID[u]
    OBVIOUS
  <2>3. r = SaveIngestionRuntime(h, s, runtime)
    BY <1>13 DEF RolledBack, restored
  <2>4. \A j \in Keys : e.configSets[j] = d.configSets[j] \/ j = kp
    BY <1>4
  <2> HIDE DEF activation, u, kp
  <2>5. /\ IndexSound(g)
        /\ g.configSets = [restored.configSets EXCEPT ![kp] = oldp]
        /\ g.byVersionID = restored.byVersionID
        /\ g.activations = restored.activations
        /\ g.byScope = restored.byScope
    <3>1. IndexSound(d) /\ IndexSound(restored) /\ restored.byVersionID = d.byVersionID
          /\ kp \in Keys /\ oldp = d.configSets[kp]
      BY <1>1, <1>6, <1>7, <2>1
    <3> HIDE DEF oldp
    <3>2. QED
      BY <3>1, RestoreSet
  <2> HIDE DEF g
  <2>6. g.configSets = d.configSets
    BY <1>2, <1>10, <2>1, <2>4, <2>5
  <2>7. g \in Database /\ g.byVersionID[activation.version] # None
    <3>1. g.byVersionID[u] = kp
      BY <1>6, <1>7, <2>2, <2>5
    <3>2. QED
      BY <3>1, <1>3, <2>1, <2>2, <2>5 DEF IndexSound
  <2>8. IndexSound(h)
    BY <2>1, <2>2, <2>5, <2>7, SaveActivationIndex
  <2>9. /\ h.configSets = g.configSets
        /\ h.byVersionID = g.byVersionID
        /\ h.activations = [g.activations EXCEPT ![prev] = activation]
    BY <2>1, <2>2, <2>7, SaveActivationFields
  <2>10. g.byScope = [d.byScope EXCEPT ![s] = a]
    BY <1>7, <1>5, <2>5
  <2>11. \A t \in Scopes : g.byScope[t] = prev => t = activation.scope
    <3> SUFFICES ASSUME NEW t \in Scopes, g.byScope[t] = prev, t # s PROVE FALSE
      BY <2>1
    <3>1. d.byScope[t] = prev
      BY <1>2, <2>10
    <3>2. d.activations[prev].scope = t
      BY <1>1, <1>13, <3>1 DEF ServedIn
    <3>3. QED
      BY <2>1, <2>2, <3>2
  <2>12. h.byScope = [g.byScope EXCEPT ![activation.scope] = prev]
    <3>1. /\ g \in Database
          /\ prev \in ActivationIDs
          /\ activation \in Activation
          /\ activation.version \in VersionIDs
          /\ activation.scope \in Scopes
          /\ activation.status = "active"
      BY <2>1, <2>2, <2>7
    <3>2. QED
      BY <2>11, <3>1, SaveActiveScope
  <2> HIDE DEF h
  <2>13. h.byScope = d.byScope
    BY <1>2, <2>1, <2>10, <2>12
  <2>14. \A b \in ActivationIDs \ {a} : h.activations[b] = d.activations[b]
    <3> SUFFICES ASSUME NEW b \in ActivationIDs \ {a} PROVE h.activations[b] = d.activations[b]
      OBVIOUS
    <3>1. h.activations = [[e.activations EXCEPT ![a] = NewActivation(v, s)] EXCEPT ![prev] = activation]
      BY <1>7, <1>5, <2>5, <2>9
    <3>2. CASE b = prev
      BY <1>2, <2>1, <2>2, <3>1, <3>2
    <3>3. CASE b # prev
      BY <1>2, <1>4, <3>1, <3>3
    <3>4. QED
      BY <3>2, <3>3
  <2>15. h.byVersionID = d.byVersionID /\ h.configSets = d.configSets
    BY <1>7, <1>6, <2>5, <2>6, <2>9
  <2>16. ServedIn(h)
    <3>1. \A t \in Scopes : d.byScope[t] # None => h.activations[d.byScope[t]] = d.activations[d.byScope[t]]
      BY <1>9, <2>14
    <3>2. QED
      BY <1>1, <2>13, <2>15, <3>1, ServedAsBefore
  <2>17. DatabaseSound(h) /\ h \in Database
    BY <2>8, <2>16 DEF DatabaseSound, IndexSound
  <2>18. runtime \in IngestionRuntime
    BY <2>1 DEF IngestionRuntime
  <2> HIDE DEF runtime
  <2>19. /\ DatabaseSound(r)
         /\ r.byVersionID = h.byVersionID
         /\ r.byScope = h.byScope
         /\ r.configSets = h.configSets
         /\ r.activations = h.activations
    <3> HIDE DEF r
    <3>1. h \in Database
      BY <2>17
    <3>2. DatabaseSound(r)
      BY <2>3, <2>17, <2>18, SaveIngestionRuntimeSound
    <3>3. QED
      BY <3>1, <3>2, <2>3, <2>18, SaveIngestionRuntimeFields
  <2>20. QED
    BY <2>13, <2>14, <2>15, <2>19
<1>14. QED
  BY <1>12, <1>13

-----------------------------------------------------------------------------
(* What publishing leaves.                                                 *)

\* A use case with one lifecycle event ends in the saved or in the undone database.
LEMMA PublishLifecycleFacts ==
  ASSUME TypeOK, NEW kind \in Lifecycles, NEW v \in VersionIDs, NEW saved, NEW undone,
         PublishLifecycle(kind, v, saved, undone)
  PROVE  /\ \/ db' = saved /\ <<kind, v>> \in announced'
            \/ db' = undone
         /\ announced' \subseteq (Lifecycles \X VersionIDs)
         /\ stream' \in Seq(Event)
<1>1. PICK outcome \in PublishOutcomes(1) :
        /\ db' = IF outcome.ok THEN saved ELSE undone
        /\ announced' = announced \cup (IF outcome.stored = 1 THEN {<<kind, v>>} ELSE {})
        /\ stream' = stream
  BY DEF PublishLifecycle
<1>2. outcome.ok => outcome.stored = 1
  BY DEF PublishOutcomes
<1>3. QED
  BY <1>1, <1>2 DEF TypeOK

\* A use case with runtime events ends in the saved or in the undone database.
LEMMA PublishRuntimeFacts ==
  ASSUME TypeOK, NEW events \in Seq(Event), NEW saved, NEW undone,
         PublishRuntime(events, saved, undone)
  PROVE  /\ db' = saved \/ db' = undone
         /\ announced' \subseteq (Lifecycles \X VersionIDs)
         /\ stream' \in Seq(Event)
<1>1. PICK outcome \in PublishOutcomes(Len(events)) :
        /\ db' = IF outcome.ok THEN saved ELSE undone
        /\ stream' = stream \o SubSeq(events, 1, outcome.stored)
        /\ announced' = announced
  BY DEF PublishRuntime
<1>2. Len(events) \in Nat
  OBVIOUS
<1>3. outcome.stored \in 0 .. Len(events)
  BY <1>2 DEF PublishOutcomes
<1>4. SubSeq(events, 1, outcome.stored) \in Seq(Event)
  BY <1>2, <1>3, SubSeqProperties
<1>5. stream' \in Seq(Event)
  BY <1>1, <1>4 DEF TypeOK
<1>6. QED
  BY <1>1, <1>5 DEF TypeOK

-----------------------------------------------------------------------------
(* The use cases.                                                          *)

\* The active versions of `old` are the same in `set`.
ActiveAsIn(set, old) ==
  \A w \in VersionIDs : old.versions[w].lifecycle = "active" => set.versions[w] = old.versions[w]

\* `new` maps every stored version to the set it is in.
IndexExtends(new, old) ==
  \A w \in VersionIDs : old[w] # None => new[w] = old[w]

\* `e` is `d` with one set saved.
SavedInto(e, d, k, set) ==
  /\ e.configSets = [d.configSets EXCEPT ![k] = set]
  /\ e.activations = d.activations
  /\ e.byScope = d.byScope
  /\ e.ingestionRuntimes = d.ingestionRuntimes
  /\ IndexExtends(e.byVersionID, d.byVersionID)

\* `e` is `d` with v drafted in set k.
DraftedFrom(e, d, k, v, wellFormed) ==
  /\ v \in VersionIDs /\ d.byVersionID[v] = None
  /\ e.byVersionID = [d.byVersionID EXCEPT ![v] = k]
  /\ e.configSets = [d.configSets EXCEPT ![k] = DraftVersion(d.configSets[k], v, wellFormed)]
  /\ e.activations = d.activations
  /\ e.byScope = d.byScope
  /\ e.ingestionRuntimes = d.ingestionRuntimes

\* `e` is `d` with v, stored in set k, in another lifecycle.
MovedFrom(e, d, k, v, lifecycle) ==
  /\ k \in Keys /\ d.byVersionID[v] = k
  /\ e.byVersionID = d.byVersionID
  /\ \A j \in Keys \ {k} : e.configSets[j] = d.configSets[j]
  /\ \A w \in VersionIDs \ {v} : e.configSets[k].versions[w] = d.configSets[k].versions[w]
  /\ e.configSets[k].versions[v].lifecycle = lifecycle
  /\ e.configSets[k].versions[v].number = d.configSets[k].versions[v].number
  /\ e.configSets[k].currentVersion = d.configSets[k].currentVersion
  /\ e.activations = d.activations
  /\ e.byScope = d.byScope
  /\ e.ingestionRuntimes = d.ingestionRuntimes

\* A use case that is not about a scope does nothing, or moves v to a lifecycle and
\* announces it.
MovesOrUndoes(v, lifecycle) ==
  \/ db' = db
  \/ /\ \E k \in Keys : MovedFrom(db', db, k, v, lifecycle)
     /\ <<lifecycle, v>> \in announced'

\* Saving a set in which one version is replaced moves that version.
LEMMA SavedMoves ==
  ASSUME NEW d, NEW e, NEW k \in Keys, NEW v \in VersionIDs, NEW set, NEW version,
         d.configSets \in [Keys -> ConfigSet], d.byVersionID[v] = k,
         e.byVersionID = d.byVersionID, SavedInto(e, d, k, set),
         set.versions = [d.configSets[k].versions EXCEPT ![v] = version],
         set.currentVersion = d.configSets[k].currentVersion,
         version.number = d.configSets[k].versions[v].number
  PROVE  MovedFrom(e, d, k, v, version.lifecycle)
<1>1. e.configSets[k] = set /\ \A j \in Keys \ {k} : e.configSets[j] = d.configSets[j]
  BY DEF SavedInto
<1>2. d.configSets[k].versions \in [VersionIDs -> Version]
  BY DEF ConfigSet
<1>3. set.versions[v] = version /\ \A w \in VersionIDs \ {v} : set.versions[w] = d.configSets[k].versions[w]
  BY <1>2
<1>4. QED
  BY <1>1, <1>3 DEF MovedFrom, SavedInto

\* Saving a set in which the active versions are as they were keeps every scope served.
LEMMA ServedKept ==
  ASSUME NEW d, DatabaseSound(d), NEW k \in Keys, NEW set,
         ActiveAsIn(set, d.configSets[k]),
         NEW e, SavedInto(e, d, k, set)
  PROVE  ServedIn(e)
<1> SUFFICES ASSUME NEW s \in Scopes, e.byScope[s] # None
             PROVE  CanDeactivate(e, s) /\ e.activations[e.byScope[s]].scope = s
  BY DEF ServedIn
<1> DEFINE b == d.byScope[s]
           w == d.activations[b].version
           j == d.byVersionID[w]
<1>1. /\ d.activations[b].status = "active"
      /\ d.activations[b].scope = s
      /\ w \in VersionIDs
      /\ j \in Keys
      /\ d.configSets[j].versions[w].lifecycle = "active"
      /\ Projectable(d.configSets[j].versions[w])
  <2>1. d.byScope[s] # None
    BY DEF SavedInto
  <2>2. QED
    BY <2>1, ServedFacts
<1>2. j # None
  BY <1>1, ConstantsAssumption
<1>3. d.configSets \in [Keys -> ConfigSet]
  BY DEF DatabaseSound, IndexSound, Database
<1>4. e.configSets[j].versions[w] = d.configSets[j].versions[w]
  <2>1. CASE j = k
    BY <1>1, <1>3, <2>1 DEF ActiveAsIn, SavedInto
  <2>2. CASE j # k
    BY <1>1, <1>3, <2>2 DEF SavedInto
  <2>3. QED
    BY <2>1, <2>2
<1>5. e.byVersionID[w] = j
  BY <1>1, <1>2 DEF IndexExtends, SavedInto
<1>6. QED
  BY <1>1, <1>2, <1>4, <1>5 DEF CanDeactivate, SavedInto

\* The database after an undone or a saved change of a version that is not active.
LEMMA ChangeSound ==
  ASSUME NEW d, DatabaseSound(d), NEW k \in Keys, NEW set \in ConfigSet, CompiledSet(set),
         \A w \in VersionIDs : InSet(set, w) <=> InSet(d.configSets[k], w),
         ActiveAsIn(set, d.configSets[k])
  PROVE  LET saved == SaveConfigSet(d, k, set)
         IN  /\ DatabaseSound(saved)
             /\ saved.byVersionID = d.byVersionID
             /\ saved.configSets = [d.configSets EXCEPT ![k] = set]
             /\ saved.activations = d.activations
             /\ saved.byScope = d.byScope
             /\ saved.ingestionRuntimes = d.ingestionRuntimes
             /\ SaveConfigSet(saved, k, d.configSets[k]) = d
<1> DEFINE e == SaveConfigSet(d, k, set)
<1>1. IndexSound(d) /\ d \in Database /\ VersionIndexIn(d)
  BY DEF DatabaseSound, IndexSound
<1>2. SaveConfigSet(e, k, d.configSets[k]) = d
  BY <1>1, SaveUndone
<1>3. /\ IndexSound(e)
      /\ e.configSets = [d.configSets EXCEPT ![k] = set]
      /\ e.byVersionID = d.byVersionID
      /\ e.activations = d.activations
      /\ e.byScope = d.byScope
      /\ e.ingestionRuntimes = d.ingestionRuntimes
  BY <1>1, SaveSameMembers
<1> HIDE DEF e
<1>4. ServedIn(e)
  BY <1>3, ServedKept DEF IndexExtends, SavedInto
<1>5. QED
  BY <1>2, <1>3, <1>4 DEF DatabaseSound, e

\* Deleting a set is saving the set without versions.
LEMMA DeleteIsSaveEmpty ==
  ASSUME NEW d, NEW k
  PROVE  DeleteConfigSet(d, k) = SaveConfigSet(d, k, NoConfigSet)
<1>1. \A v \in VersionIDs : ~InSet(NoConfigSet, v)
  BY DEF InSet, NoConfigSet, NoVersion
<1>2. [v \in VersionIDs |-> IF InSet(d.configSets[k], v) THEN None ELSE d.byVersionID[v]]
       = [v \in VersionIDs |->
            IF InSet(NoConfigSet, v) THEN k
            ELSE IF InSet(d.configSets[k], v) THEN None ELSE d.byVersionID[v]]
  BY <1>1
<1>3. QED
  BY <1>2 DEF DeleteConfigSet, SaveConfigSet

\* A draft adds one version and leaves the others.
LEMMA DraftFacts ==
  ASSUME NEW set \in ConfigSet, NEW v \in VersionIDs, NEW wellFormed \in BOOLEAN,
         ~InSet(set, v), CompiledSet(set)
  PROVE  /\ DraftVersion(set, v, wellFormed) \in ConfigSet
         /\ \A w \in VersionIDs : InSet(DraftVersion(set, v, wellFormed), w) <=> w = v \/ InSet(set, w)
         /\ CompiledSet(DraftVersion(set, v, wellFormed))
         /\ ActiveAsIn(DraftVersion(set, v, wellFormed), set)
<1> DEFINE draft == [number |-> set.currentVersion + 1, lifecycle |-> "draft",
                     wellFormed |-> wellFormed, document |-> FALSE, artifact |-> FALSE]
           versions == [set.versions EXCEPT ![v] = draft]
<1>1. set.currentVersion + 1 \in Nat /\ set.versions \in [VersionIDs -> Version]
  BY DEF ConfigSet
<1>2. draft \in Version /\ draft.lifecycle = "draft"
  BY <1>1 DEF Version, Lifecycles
<1>3. DraftVersion(set, v, wellFormed) = [currentVersion |-> set.currentVersion + 1, versions |-> versions]
  BY DEF DraftVersion
<1> HIDE DEF draft
<1>4. versions \in [VersionIDs -> Version]
  BY <1>1, <1>2
<1>5. \A w \in VersionIDs : versions[w] = IF w = v THEN draft ELSE set.versions[w]
  BY <1>1
<1> HIDE DEF versions
<1>6. DraftVersion(set, v, wellFormed) \in ConfigSet
  BY <1>1, <1>3, <1>4 DEF ConfigSet
<1>7. DraftVersion(set, v, wellFormed).versions = versions
  BY <1>3
<1>8. \A w \in VersionIDs : InSet(DraftVersion(set, v, wellFormed), w) <=> w = v \/ InSet(set, w)
  BY <1>2, <1>5, <1>7 DEF InSet
<1>9. CompiledSet(DraftVersion(set, v, wellFormed))
  BY <1>2, <1>5, <1>7 DEF CompiledSet
<1>10. ActiveAsIn(DraftVersion(set, v, wellFormed), set)
  BY <1>5, <1>7 DEF ActiveAsIn, InSet
<1>11. QED
  BY <1>6, <1>8, <1>9, <1>10

\* Facts about the set of a key in a sound database.
LEMMA StoredSet ==
  ASSUME NEW d, DatabaseSound(d), NEW k \in Keys
  PROVE  d.configSets[k] \in ConfigSet /\ CompiledSet(d.configSets[k])
  BY DEF DatabaseSound, IndexSound, Database, CompiledIn, CompiledSet

\* A draft, saved or rolled back, keeps the inductive invariant.
LEMMA CreateDraftStep ==
  ASSUME IInv, NEW k \in Keys, NEW wellFormed \in BOOLEAN, CreateDraft(k, wellFormed)
  PROVE  /\ IInv'
         /\ \/ db' = db
            \/ /\ DraftedFrom(db', db, k, issued.versions + 1, wellFormed)
               /\ <<"draft", issued.versions + 1>> \in announced'
<1> DEFINE set == db.configSets[k]
           v == issued.versions + 1
           new == DraftVersion(set, v, wellFormed)
           saved == SaveConfigSet(db, k, new)
<1>1. TypeOK /\ DatabaseSound(db) /\ Fresh /\ IndexSound(db) /\ db \in Database /\ VersionIndexIn(db)
  BY DEF IInv, DatabaseSound, IndexSound
<1>2. /\ issued \in [versions : 0 .. MaxVersions, activations : 0 .. MaxActivations]
      /\ issued.versions < MaxVersions
      /\ issued' = [issued EXCEPT !.versions = v]
  BY <1>1 DEF TypeOK, CreateDraft
<1>3. v \in VersionIDs /\ v > issued.versions /\ issued.versions \in Nat
  BY <1>2, ConstantsAssumption DEF VersionIDs
<1>4. db.byVersionID[v] = None
  BY <1>1, <1>3 DEF Fresh
<1>5. ~InSet(set, v)
  BY <1>1, <1>3, <1>4, ConstantsAssumption DEF VersionIndexIn
<1>6. set \in ConfigSet /\ CompiledSet(set)
  BY <1>1, StoredSet
<1>7. PublishLifecycle("draft", v, saved,
                       IF set = NoConfigSet THEN DeleteConfigSet(saved, k) ELSE SaveConfigSet(saved, k, set))
  BY DEF CreateDraft
<1>8. /\ issued' \in [versions : 0 .. MaxVersions, activations : 0 .. MaxActivations]
      /\ issued'.versions = v
      /\ issued'.activations = issued.activations
  BY <1>2, <1>3 DEF VersionIDs
<1>9. set = db.configSets[k]
  OBVIOUS
<1> HIDE DEF v, set
<1>10. /\ new \in ConfigSet
       /\ \A w \in VersionIDs : InSet(new, w) <=> w = v \/ InSet(set, w)
       /\ CompiledSet(new)
       /\ ActiveAsIn(new, set)
  BY <1>3, <1>5, <1>6, DraftFacts
<1> HIDE DEF new
<1>11. (IF set = NoConfigSet THEN DeleteConfigSet(saved, k) ELSE SaveConfigSet(saved, k, set))
       = SaveConfigSet(saved, k, set)
  BY DeleteIsSaveEmpty
<1>12. SaveConfigSet(saved, k, set) = db
  <2>1. \A w \in VersionIDs : InSet(db.configSets[k], w) => InSet(new, w)
    BY <1>9, <1>10
  <2>2. \A w \in VersionIDs : InSet(new, w) /\ ~InSet(db.configSets[k], w) => db.byVersionID[w] = None
    BY <1>4, <1>9, <1>10
  <2>3. db \in Database /\ VersionIndexIn(db) /\ new \in ConfigSet
    BY <1>1, <1>10
  <2>4. QED
    BY <2>1, <2>2, <2>3, <1>9, SaveUndone
<1>13. /\ IndexSound(saved)
       /\ saved.byVersionID = [db.byVersionID EXCEPT ![v] = k]
  <2>1. \A w \in VersionIDs : InSet(new, w) <=> w = v \/ InSet(db.configSets[k], w)
    BY <1>9, <1>10
  <2>2. IndexSound(db) /\ new \in ConfigSet /\ CompiledSet(new)
    BY <1>1, <1>10
  <2>3. QED
    BY <2>1, <2>2, <1>3, <1>4, SaveNewMember
<1>14. /\ saved.configSets = [db.configSets EXCEPT ![k] = new]
       /\ saved.activations = db.activations
       /\ saved.byScope = db.byScope
       /\ saved.ingestionRuntimes = db.ingestionRuntimes
  <2>1. db \in Database /\ new \in ConfigSet
    BY <1>1, <1>10
  <2>2. QED
    BY <2>1, SaveConfigSetFields
<1> HIDE DEF saved
<1>15. db.byVersionID \in [VersionIDs -> Keys \cup {None}]
  BY <1>1 DEF Database
<1>16. SavedInto(saved, db, k, new)
  BY <1>4, <1>13, <1>14, <1>15 DEF SavedInto, IndexExtends
<1>17. DatabaseSound(saved)
  <2>1. ActiveAsIn(new, db.configSets[k])
    BY <1>9, <1>10
  <2>2. ServedIn(saved)
    BY <1>1, <1>16, <2>1, ServedKept
  <2>3. QED
    BY <1>13, <2>2 DEF DatabaseSound
<1>18. /\ (db' = saved /\ <<"draft", v>> \in announced') \/ db' = db
       /\ announced' \subseteq (Lifecycles \X VersionIDs)
       /\ stream' \in Seq(Event)
  <2>1. "draft" \in Lifecycles
    BY DEF Lifecycles
  <2>2. PublishLifecycle("draft", v, saved, db)
    BY <1>7, <1>11, <1>12
  <2>3. QED
    BY <1>1, <1>3, <2>1, <2>2, PublishLifecycleFacts
<1>19. DatabaseSound(db')
  BY <1>1, <1>17, <1>18
<1>20. Fresh'
  <2>1. \A w \in VersionIDs : w > v => db'.byVersionID[w] = None
    <3>1. \A w \in VersionIDs : w > v => w > issued.versions /\ w # v
      BY <1>3, ConstantsAssumption DEF VersionIDs
    <3>2. \A w \in VersionIDs : w > issued.versions => db.byVersionID[w] = None
      BY <1>1 DEF Fresh
    <3>3. \A w \in VersionIDs : w # v => db'.byVersionID[w] = db.byVersionID[w]
      BY <1>3, <1>13, <1>15, <1>18
    <3>4. QED
      BY <3>1, <3>2, <3>3
  <2>2. db'.activations = db.activations
    BY <1>14, <1>18
  <2>3. QED
    BY <1>1, <1>8, <2>1, <2>2 DEF Fresh
<1>21. IInv'
  BY <1>8, <1>18, <1>19, <1>20 DEF IInv, TypeOK, DatabaseSound, IndexSound
<1>22. DraftedFrom(saved, db, k, v, wellFormed)
  BY <1>3, <1>4, <1>9, <1>13, <1>14 DEF DraftedFrom, new
<1>23. QED
  BY <1>18, <1>21, <1>22 DEF v

\* A step that saves a change of a version that is not active, or undoes it.
LEMMA ChangeVersionStep ==
  ASSUME IInv, NEW v \in VersionIDs, NEW k \in Keys, k = db.byVersionID[v],
         NEW kind \in Lifecycles, NEW changed \in ConfigSet, CompiledSet(changed),
         \A w \in VersionIDs : InSet(changed, w) <=> InSet(db.configSets[k], w),
         ActiveAsIn(changed, db.configSets[k]),
         ChangeVersion(kind, v, changed)
  PROVE  /\ IInv'
         /\ db'.byVersionID = db.byVersionID
         /\ \/ db' = db
            \/ SavedInto(db', db, k, changed) /\ <<kind, v>> \in announced'
<1> DEFINE saved == SaveConfigSet(db, k, changed)
<1>1. TypeOK /\ DatabaseSound(db) /\ Fresh
  BY DEF IInv
<1>2. /\ DatabaseSound(saved)
      /\ saved.byVersionID = db.byVersionID
      /\ saved.configSets = [db.configSets EXCEPT ![k] = changed]
      /\ saved.activations = db.activations
      /\ saved.byScope = db.byScope
      /\ saved.ingestionRuntimes = db.ingestionRuntimes
      /\ SaveConfigSet(saved, k, db.configSets[k]) = db
  BY <1>1, ChangeSound
<1>3. PublishLifecycle(kind, v, saved, SaveConfigSet(saved, k, db.configSets[k])) /\ issued' = issued
  BY DEF ChangeVersion
<1>4. PublishLifecycle(kind, v, saved, db)
  BY <1>2, <1>3
<1> HIDE DEF saved
<1>5. /\ (db' = saved /\ <<kind, v>> \in announced') \/ db' = db
      /\ announced' \subseteq (Lifecycles \X VersionIDs)
      /\ stream' \in Seq(Event)
  BY <1>1, <1>4, PublishLifecycleFacts
<1>6. DatabaseSound(db') /\ db'.byVersionID = db.byVersionID /\ db'.activations = db.activations
  BY <1>1, <1>2, <1>5
<1>7. Fresh'
  BY <1>1, <1>3, <1>6 DEF Fresh
<1>8. IInv'
  BY <1>1, <1>3, <1>5, <1>6, <1>7 DEF IInv, TypeOK, DatabaseSound, IndexSound
<1>9. SavedInto(saved, db, k, changed)
  BY <1>2 DEF SavedInto, IndexExtends
<1>10. QED
  BY <1>5, <1>6, <1>8, <1>9

\* A version given another lifecycle, its document or its artifact.
LEMMA ChangedFacts ==
  ASSUME NEW set \in ConfigSet, CompiledSet(set), NEW v \in VersionIDs, InSet(set, v),
         set.versions[v].lifecycle # "active",
         NEW changed \in ConfigSet, NEW version, changed.versions = [set.versions EXCEPT ![v] = version],
         version.lifecycle # "absent",
         version.lifecycle \in {"compiled", "active", "inactive"} => Projectable(version)
  PROVE  /\ CompiledSet(changed)
         /\ \A w \in VersionIDs : InSet(changed, w) <=> InSet(set, w)
         /\ ActiveAsIn(changed, set)
<1>1. \A w \in VersionIDs : changed.versions[w] = IF w = v THEN version ELSE set.versions[w]
  BY DEF ConfigSet
<1>2. QED
  BY <1>1 DEF CompiledSet, InSet, ActiveAsIn

\* So does a validation,
LEMMA ValidateConfigStep ==
  ASSUME IInv, NEW v \in VersionIDs, ValidateConfig(v)
  PROVE  IInv' /\ MovesOrUndoes(v, "validated")
<1> DEFINE k == db.byVersionID[v]
           set == db.configSets[k]
           old == set.versions[v]
           version == [old EXCEPT !.lifecycle = "validated", !.document = TRUE]
           changed == [currentVersion |-> set.currentVersion, versions |-> [set.versions EXCEPT ![v] = version]]
<1>1. DatabaseSound(db) /\ db \in Database
  BY DEF IInv, DatabaseSound, IndexSound
<1>2. k \in Keys /\ k = db.byVersionID[v]
  BY <1>1 DEF ValidateConfig, Database
<1>3. old.lifecycle \notin {"active", "absent"}
  BY DEF ValidateConfig
<1>4. set = db.configSets[k] /\ old = set.versions[v]
  OBVIOUS
<1>5. ChangeVersion("validated", v, ValidateVersion(set, v))
  BY DEF ValidateConfig
<1> HIDE DEF k
<1>6. set \in ConfigSet /\ CompiledSet(set)
  BY <1>1, <1>2, StoredSet
<1> HIDE DEF set
<1>7. ValidateVersion(set, v) = changed
  BY <1>6 DEF ValidateVersion, ConfigSet, Version
<1>8. old \in Version
  BY <1>6 DEF ConfigSet
<1> HIDE DEF old
<1>9. /\ version \in Version
      /\ version.number = old.number
      /\ version.lifecycle = "validated"
      /\ version.lifecycle \notin {"compiled", "active", "inactive"}
  BY <1>3, <1>8 DEF Version, Lifecycles, Projectable
<1> HIDE DEF version
<1>10. changed \in ConfigSet
  BY <1>6, <1>9 DEF ConfigSet
<1>11. /\ changed.versions = [set.versions EXCEPT ![v] = version]
       /\ changed.currentVersion = set.currentVersion
  OBVIOUS
<1> HIDE DEF changed
<1>12. InSet(set, v)
  BY <1>3, <1>4 DEF InSet
<1>13. /\ CompiledSet(changed)
       /\ \A w \in VersionIDs : InSet(changed, w) <=> InSet(set, w)
       /\ ActiveAsIn(changed, set)
  BY <1>3, <1>4, <1>6, <1>9, <1>10, <1>11, <1>12, ChangedFacts
<1>14. /\ \A w \in VersionIDs : InSet(changed, w) <=> InSet(db.configSets[k], w)
       /\ ActiveAsIn(changed, db.configSets[k])
  BY <1>4, <1>13
<1>15. "validated" \in Lifecycles /\ ChangeVersion("validated", v, changed)
  BY <1>5, <1>7 DEF Lifecycles
<1>16. /\ IInv'
       /\ db'.byVersionID = db.byVersionID
       /\ db' = db \/ (SavedInto(db', db, k, changed) /\ <<"validated", v>> \in announced')
  BY <1>2, <1>10, <1>13, <1>14, <1>15, ChangeVersionStep
<1>17. db.configSets \in [Keys -> ConfigSet]
  BY <1>1 DEF Database
<1>18. SavedInto(db', db, k, changed) => MovedFrom(db', db, k, v, version.lifecycle)
  BY <1>2, <1>4, <1>9, <1>11, <1>16, <1>17, SavedMoves
<1>19. QED
  BY <1>2, <1>9, <1>16, <1>18 DEF MovesOrUndoes

\* a compilation,
LEMMA CompileConfigStep ==
  ASSUME IInv, NEW v \in VersionIDs, CompileConfig(v)
  PROVE  IInv' /\ MovesOrUndoes(v, "compiled")
<1> DEFINE k == db.byVersionID[v]
           set == db.configSets[k]
           old == set.versions[v]
           version == [old EXCEPT !.lifecycle = "compiled", !.artifact = TRUE]
           changed == [currentVersion |-> set.currentVersion, versions |-> [set.versions EXCEPT ![v] = version]]
<1>1. DatabaseSound(db) /\ db \in Database
  BY DEF IInv, DatabaseSound, IndexSound
<1>2. k \in Keys /\ k = db.byVersionID[v]
  BY <1>1 DEF CompileConfig, Database
<1>3. old.lifecycle \notin {"active", "absent"} /\ old.document
  BY DEF CompileConfig
<1>4. set = db.configSets[k] /\ old = set.versions[v]
  OBVIOUS
<1>5. ChangeVersion("compiled", v, CompileVersion(set, v))
  BY DEF CompileConfig
<1> HIDE DEF k
<1>6. set \in ConfigSet /\ CompiledSet(set)
  BY <1>1, <1>2, StoredSet
<1> HIDE DEF set
<1>7. CompileVersion(set, v) = changed
  BY <1>6 DEF CompileVersion, ConfigSet, Version
<1>8. old \in Version
  BY <1>6 DEF ConfigSet
<1> HIDE DEF old
<1>9. /\ version \in Version
      /\ version.number = old.number
      /\ version.lifecycle = "compiled"
      /\ Projectable(version)
  BY <1>3, <1>8 DEF Version, Lifecycles, Projectable
<1> HIDE DEF version
<1>10. changed \in ConfigSet
  BY <1>6, <1>9 DEF ConfigSet
<1>11. /\ changed.versions = [set.versions EXCEPT ![v] = version]
       /\ changed.currentVersion = set.currentVersion
  OBVIOUS
<1> HIDE DEF changed
<1>12. InSet(set, v)
  BY <1>3, <1>4 DEF InSet
<1>13. /\ CompiledSet(changed)
       /\ \A w \in VersionIDs : InSet(changed, w) <=> InSet(set, w)
       /\ ActiveAsIn(changed, set)
  BY <1>3, <1>4, <1>6, <1>9, <1>10, <1>11, <1>12, ChangedFacts
<1>14. /\ \A w \in VersionIDs : InSet(changed, w) <=> InSet(db.configSets[k], w)
       /\ ActiveAsIn(changed, db.configSets[k])
  BY <1>4, <1>13
<1>15. "compiled" \in Lifecycles /\ ChangeVersion("compiled", v, changed)
  BY <1>5, <1>7 DEF Lifecycles
<1>16. /\ IInv'
       /\ db'.byVersionID = db.byVersionID
       /\ db' = db \/ (SavedInto(db', db, k, changed) /\ <<"compiled", v>> \in announced')
  BY <1>2, <1>10, <1>13, <1>14, <1>15, ChangeVersionStep
<1>17. db.configSets \in [Keys -> ConfigSet]
  BY <1>1 DEF Database
<1>18. SavedInto(db', db, k, changed) => MovedFrom(db', db, k, v, version.lifecycle)
  BY <1>2, <1>4, <1>9, <1>11, <1>16, <1>17, SavedMoves
<1>19. QED
  BY <1>2, <1>9, <1>16, <1>18 DEF MovesOrUndoes

\* an archival,
LEMMA ArchiveConfigStep ==
  ASSUME IInv, NEW v \in VersionIDs, ArchiveConfig(v)
  PROVE  IInv' /\ MovesOrUndoes(v, "archived")
<1> DEFINE k == db.byVersionID[v]
           set == db.configSets[k]
           old == set.versions[v]
           version == [old EXCEPT !.lifecycle = "archived"]
           changed == [currentVersion |-> set.currentVersion, versions |-> [set.versions EXCEPT ![v] = version]]
<1>1. DatabaseSound(db) /\ db \in Database
  BY DEF IInv, DatabaseSound, IndexSound
<1>2. k \in Keys /\ k = db.byVersionID[v]
  BY <1>1 DEF ArchiveConfig, Database
<1>3. old.lifecycle \notin {"active", "absent"}
  BY DEF ArchiveConfig
<1>4. set = db.configSets[k] /\ old = set.versions[v]
  OBVIOUS
<1>5. ChangeVersion("archived", v, ArchiveVersion(set, v))
  BY DEF ArchiveConfig
<1> HIDE DEF k
<1>6. set \in ConfigSet /\ CompiledSet(set)
  BY <1>1, <1>2, StoredSet
<1> HIDE DEF set
<1>7. ArchiveVersion(set, v) = changed
  BY <1>6 DEF ArchiveVersion, WithLifecycle, ConfigSet, Version
<1>8. old \in Version
  BY <1>6 DEF ConfigSet
<1> HIDE DEF old
<1>9. /\ version \in Version
      /\ version.number = old.number
      /\ version.lifecycle = "archived"
      /\ version.lifecycle \notin {"compiled", "active", "inactive"}
  BY <1>3, <1>8 DEF Version, Lifecycles, Projectable
<1> HIDE DEF version
<1>10. changed \in ConfigSet
  BY <1>6, <1>9 DEF ConfigSet
<1>11. /\ changed.versions = [set.versions EXCEPT ![v] = version]
       /\ changed.currentVersion = set.currentVersion
  OBVIOUS
<1> HIDE DEF changed
<1>12. InSet(set, v)
  BY <1>3, <1>4 DEF InSet
<1>13. /\ CompiledSet(changed)
       /\ \A w \in VersionIDs : InSet(changed, w) <=> InSet(set, w)
       /\ ActiveAsIn(changed, set)
  BY <1>3, <1>4, <1>6, <1>9, <1>10, <1>11, <1>12, ChangedFacts
<1>14. /\ \A w \in VersionIDs : InSet(changed, w) <=> InSet(db.configSets[k], w)
       /\ ActiveAsIn(changed, db.configSets[k])
  BY <1>4, <1>13
<1>15. "archived" \in Lifecycles /\ ChangeVersion("archived", v, changed)
  BY <1>5, <1>7 DEF Lifecycles
<1>16. /\ IInv'
       /\ db'.byVersionID = db.byVersionID
       /\ db' = db \/ (SavedInto(db', db, k, changed) /\ <<"archived", v>> \in announced')
  BY <1>2, <1>10, <1>13, <1>14, <1>15, ChangeVersionStep
<1>17. db.configSets \in [Keys -> ConfigSet]
  BY <1>1 DEF Database
<1>18. SavedInto(db', db, k, changed) => MovedFrom(db', db, k, v, version.lifecycle)
  BY <1>2, <1>4, <1>9, <1>11, <1>16, <1>17, SavedMoves
<1>19. QED
  BY <1>2, <1>9, <1>16, <1>18 DEF MovesOrUndoes

\* a rejection,
LEMMA RejectConfigStep ==
  ASSUME IInv, NEW v \in VersionIDs, RejectConfig(v)
  PROVE  IInv' /\ MovesOrUndoes(v, "rejected")
<1> DEFINE k == db.byVersionID[v]
           set == db.configSets[k]
           old == set.versions[v]
           version == [old EXCEPT !.lifecycle = "rejected"]
           changed == [currentVersion |-> set.currentVersion, versions |-> [set.versions EXCEPT ![v] = version]]
<1>1. DatabaseSound(db) /\ db \in Database
  BY DEF IInv, DatabaseSound, IndexSound
<1>2. k \in Keys /\ k = db.byVersionID[v]
  BY <1>1 DEF RejectConfig, Database
<1>3. old.lifecycle \notin {"active", "absent"}
  BY DEF RejectConfig
<1>4. set = db.configSets[k] /\ old = set.versions[v]
  OBVIOUS
<1>5. ChangeVersion("rejected", v, RejectVersion(set, v))
  BY DEF RejectConfig
<1> HIDE DEF k
<1>6. set \in ConfigSet /\ CompiledSet(set)
  BY <1>1, <1>2, StoredSet
<1> HIDE DEF set
<1>7. RejectVersion(set, v) = changed
  BY <1>6 DEF RejectVersion, WithLifecycle, ConfigSet, Version
<1>8. old \in Version
  BY <1>6 DEF ConfigSet
<1> HIDE DEF old
<1>9. /\ version \in Version
      /\ version.number = old.number
      /\ version.lifecycle = "rejected"
      /\ version.lifecycle \notin {"compiled", "active", "inactive"}
  BY <1>3, <1>8 DEF Version, Lifecycles, Projectable
<1> HIDE DEF version
<1>10. changed \in ConfigSet
  BY <1>6, <1>9 DEF ConfigSet
<1>11. /\ changed.versions = [set.versions EXCEPT ![v] = version]
       /\ changed.currentVersion = set.currentVersion
  OBVIOUS
<1> HIDE DEF changed
<1>12. InSet(set, v)
  BY <1>3, <1>4 DEF InSet
<1>13. /\ CompiledSet(changed)
       /\ \A w \in VersionIDs : InSet(changed, w) <=> InSet(set, w)
       /\ ActiveAsIn(changed, set)
  BY <1>3, <1>4, <1>6, <1>9, <1>10, <1>11, <1>12, ChangedFacts
<1>14. /\ \A w \in VersionIDs : InSet(changed, w) <=> InSet(db.configSets[k], w)
       /\ ActiveAsIn(changed, db.configSets[k])
  BY <1>4, <1>13
<1>15. "rejected" \in Lifecycles /\ ChangeVersion("rejected", v, changed)
  BY <1>5, <1>7 DEF Lifecycles
<1>16. /\ IInv'
       /\ db'.byVersionID = db.byVersionID
       /\ db' = db \/ (SavedInto(db', db, k, changed) /\ <<"rejected", v>> \in announced')
  BY <1>2, <1>10, <1>13, <1>14, <1>15, ChangeVersionStep
<1>17. db.configSets \in [Keys -> ConfigSet]
  BY <1>1 DEF Database
<1>18. SavedInto(db', db, k, changed) => MovedFrom(db', db, k, v, version.lifecycle)
  BY <1>2, <1>4, <1>9, <1>11, <1>16, <1>17, SavedMoves
<1>19. QED
  BY <1>2, <1>9, <1>16, <1>18 DEF MovesOrUndoes

\* A step that leaves a sound database, the version index as it was and activation
\* records only for issued ids.
LEMMA RuntimeStep ==
  ASSUME IInv, DatabaseSound(db'), db'.byVersionID = db.byVersionID,
         issued' \in [versions : 0 .. MaxVersions, activations : 0 .. MaxActivations],
         issued'.versions = issued.versions,
         \A b \in ActivationIDs : b > issued'.activations => db'.activations[b].status = "absent",
         announced' \subseteq (Lifecycles \X VersionIDs), stream' \in Seq(Event)
  PROVE  IInv'
  BY DEF IInv, TypeOK, Fresh, DatabaseSound, IndexSound

\* In `e` the sets and indexes are those of `d`, and the scopes serve the same records.
RestoredFrom(e, d) ==
  /\ e.byVersionID = d.byVersionID
  /\ e.configSets = d.configSets
  /\ e.byScope = d.byScope
  /\ \A t \in Scopes : d.byScope[t] # None =>
       e.activations[d.byScope[t]] = d.activations[d.byScope[t]]

\* `e` is `d` without what s served.
WithdrawnFrom(e, d, s) ==
  /\ e.byVersionID = d.byVersionID
  /\ e.byScope = [d.byScope EXCEPT ![s] = None]
  /\ e.configSets = DeactivateServing(d, s).configSets
  /\ \A b \in ActivationIDs : b # d.byScope[s] => e.activations[b] = d.activations[b]

\* An activation is refused, is undone, or takes over the scope.
ActivatesOrUndoes(v, s) ==
  \/ db' = Displaced(db, s)
  \/ RestoredFrom(db', db)
  \/ \E k \in Keys, a \in ActivationIDs :
       /\ db.byVersionID[v] = k
       /\ Activatable(db.configSets[k].versions[v])
       /\ db.activations[a].status = "absent"
       /\ ActivatedFrom(db', Displaced(db, s), db, k, v, a, s)

\* an activation: refused after the displacement, completed, or rolled back,
LEMMA ActivateConfigStep ==
  ASSUME IInv, NEW v \in VersionIDs, NEW s \in Scopes, ActivateConfig(v, s)
  PROVE  IInv' /\ ActivatesOrUndoes(v, s)
<1> DEFINE k == db.byVersionID[v]
           set == db.configSets[k]
           a == issued.activations + 1
           prev == db.byScope[s]
           displaced == Displaced(db, s)
           activated == Activated(displaced, k, set, v, a, s)
           undone == RolledBack(db, activated, k, a, s)
           events == ActivationEvents(db, v, a, s)
<1>1. /\ TypeOK /\ DatabaseSound(db) /\ Fresh /\ db \in Database
      /\ issued \in [versions : 0 .. MaxVersions, activations : 0 .. MaxActivations]
      /\ db.byVersionID \in [VersionIDs -> Keys \cup {None}]
      /\ db.activations \in [ActivationIDs -> Activation]
  BY DEF IInv, DatabaseSound, IndexSound, TypeOK, Database
<1>2. k \in Keys /\ k = db.byVersionID[v] /\ set = db.configSets[k]
  BY <1>1 DEF ActivateConfig
<1>3. issued.activations \in Nat /\ a = issued.activations + 1
  BY <1>1, ConstantsAssumption
<1>4. DisplacedFrom(displaced, db, s)
  BY <1>1, DisplacedSound
<1>5. \/ /\ ~Activatable(set.versions[v])
         /\ db' = displaced
         /\ UNCHANGED <<issued, announced, stream>>
      \/ /\ Activatable(set.versions[v])
         /\ issued.activations < MaxActivations
         /\ issued' = [issued EXCEPT !.activations = a]
         /\ PublishRuntime(events, activated, undone)
  BY DEF ActivateConfig
<1>6. events = (IF prev = None THEN <<>>
                ELSE <<DeactivatedEvent(db.activations[prev].version, prev, s, a - 1)>>)
               \o <<ActivatedEvent(v, a, s), ChangedEvent(v, a, s)>>
  BY DEF ActivationEvents
<1> HIDE DEF k, set, a, displaced, events
<1>7. \A b \in ActivationIDs : b > issued.activations => db.activations[b].status = "absent"
  BY <1>1 DEF Fresh
<1>8. \A b \in ActivationIDs : db.activations[b].status = "absent" => b # prev
  <2>1. prev # None => db.activations[prev].status = "active"
    BY <1>1 DEF DatabaseSound, ServedIn, CanDeactivate
  <2>2. None \notin ActivationIDs
    BY ConstantsAssumption
  <2>3. QED
    BY <2>1, <2>2
<1>9. /\ DatabaseSound(displaced)
      /\ displaced.byVersionID = db.byVersionID
      /\ \A b \in ActivationIDs : b # prev => displaced.activations[b] = db.activations[b]
  BY <1>4 DEF DisplacedFrom
<1>10. CASE /\ ~Activatable(set.versions[v])
            /\ db' = displaced
            /\ UNCHANGED <<issued, announced, stream>>
  <2>1. \A b \in ActivationIDs : b > issued'.activations => db'.activations[b].status = "absent"
    BY <1>7, <1>8, <1>9, <1>10
  <2>2. DatabaseSound(db') /\ db'.byVersionID = db.byVersionID
    BY <1>9, <1>10
  <2>3. /\ issued' \in [versions : 0 .. MaxVersions, activations : 0 .. MaxActivations]
        /\ issued'.versions = issued.versions
        /\ announced' \subseteq (Lifecycles \X VersionIDs)
        /\ stream' \in Seq(Event)
    BY <1>1, <1>10 DEF TypeOK
  <2>4. IInv'
    BY <2>1, <2>2, <2>3, RuntimeStep
  <2>5. QED
    BY <1>10, <2>4 DEF ActivatesOrUndoes, displaced
<1>11. CASE /\ Activatable(set.versions[v])
            /\ issued.activations < MaxActivations
            /\ issued' = [issued EXCEPT !.activations = a]
            /\ PublishRuntime(events, activated, undone)
  <2>1. a \in ActivationIDs /\ a > issued.activations
    BY <1>3, <1>11, ConstantsAssumption DEF ActivationIDs
  <2>2. /\ issued' \in [versions : 0 .. MaxVersions, activations : 0 .. MaxActivations]
        /\ issued'.versions = issued.versions
        /\ issued'.activations = a
    BY <1>1, <1>3, <1>11, ConstantsAssumption
  <2>3. db.activations[a].status = "absent"
    BY <1>7, <2>1
  <2>4. ActivatedFrom(activated, displaced, db, k, v, a, s)
    BY <1>1, <1>2, <1>4, <1>11, <2>1, <2>3, ActivatedSound
  <2> HIDE DEF activated
  <2>5. /\ DatabaseSound(undone)
        /\ undone.byVersionID = db.byVersionID
        /\ undone.byScope = db.byScope
        /\ undone.configSets = db.configSets
        /\ \A b \in ActivationIDs \ {a} : undone.activations[b] = db.activations[b]
    <3>1. DatabaseSound(db) /\ k \in Keys /\ db.byVersionID[v] = k /\ a \in ActivationIDs
      BY <1>1, <1>2, <2>1
    <3>2. QED
      BY <3>1, <1>4, <2>3, <2>4, RolledBackSound
  <2> HIDE DEF undone
  <2>6. /\ DatabaseSound(activated)
        /\ activated.byVersionID = db.byVersionID
        /\ activated.activations = [displaced.activations EXCEPT ![a] = NewActivation(v, s)]
    BY <2>4 DEF ActivatedFrom
  <2>7. displaced.activations \in [ActivationIDs -> Activation]
    BY <1>9 DEF DatabaseSound, IndexSound, Database
  <2>8. \A b \in ActivationIDs : b > a => b # a /\ db.activations[b].status = "absent"
    BY <1>3, <1>7, ConstantsAssumption DEF ActivationIDs
  <2>9. \A b \in ActivationIDs : b > a => activated.activations[b].status = "absent"
    BY <1>8, <1>9, <2>6, <2>7, <2>8
  <2>10. \A b \in ActivationIDs : b > a => undone.activations[b].status = "absent"
    BY <2>5, <2>8
  <2>11. events \in Seq(Event)
    <3>1. ActivatedEvent(v, a, s) \in Event /\ ChangedEvent(v, a, s) \in Event
      BY <2>1 DEF ActivatedEvent, ChangedEvent, Event
    <3>2. prev # None => DeactivatedEvent(db.activations[prev].version, prev, s, a - 1) \in Event
      <4>1. prev # None => prev \in ActivationIDs /\ db.activations[prev].version \in VersionIDs
        BY <1>1, ServedFacts
      <4>2. a - 1 \in Nat
        BY <1>3
      <4>3. QED
        BY <4>1, <4>2 DEF DeactivatedEvent, Event
    <3> DEFINE first == IF prev = None THEN <<>>
                        ELSE <<DeactivatedEvent(db.activations[prev].version, prev, s, a - 1)>>
               rest == <<ActivatedEvent(v, a, s), ChangedEvent(v, a, s)>>
    <3>3. first \in Seq(Event)
      BY <3>2
    <3>4. rest \in Seq(Event)
      BY <3>1
    <3>5. events = first \o rest
      BY <1>6
    <3> HIDE DEF first, rest
    <3>6. QED
      BY <3>3, <3>4, <3>5, ConcatProperties
  <2>12. /\ db' = activated \/ db' = undone
         /\ announced' \subseteq (Lifecycles \X VersionIDs)
         /\ stream' \in Seq(Event)
    BY <1>1, <1>11, <2>11, PublishRuntimeFacts
  <2>13. DatabaseSound(db') /\ db'.byVersionID = db.byVersionID
    BY <2>5, <2>6, <2>12
  <2>14. \A b \in ActivationIDs : b > issued'.activations => db'.activations[b].status = "absent"
    BY <2>2, <2>9, <2>10, <2>12
  <2>15. IInv'
    BY <2>2, <2>12, <2>13, <2>14, RuntimeStep
  <2>16. RestoredFrom(undone, db)
    <3>1. \A t \in Scopes : db.byScope[t] # None => db.byScope[t] \in ActivationIDs \ {a}
      <4>1. \A t \in Scopes : db.byScope[t] # None =>
              db.byScope[t] \in ActivationIDs /\ db.activations[db.byScope[t]].status = "active"
        <5>1. DatabaseSound(db)
          BY <1>1
        <5>2. QED
          BY <5>1, ServedFacts
      <4>2. QED
        BY <4>1, <2>3
    <3>2. QED
      BY <3>1, <2>5 DEF RestoredFrom
  <2>17. db' = undone \/ ActivatedFrom(db', displaced, db, k, v, a, s)
    BY <2>4, <2>12
  <2>18. Activatable(db.configSets[k].versions[v])
    BY <1>2, <1>11
  <2>19. ActivatesOrUndoes(v, s)
    BY <1>2, <2>1, <2>3, <2>16, <2>17, <2>18 DEF ActivatesOrUndoes, displaced
  <2>20. QED
    BY <2>15, <2>19
<1>12. QED
  BY <1>5, <1>10, <1>11

\* What s serves in d: its activation, the record, the version, its key and set.
ServedBy(d, s, a, record, v, k, set) ==
  /\ a = d.byScope[s] /\ a # None
  /\ record = d.activations[a]
  /\ v = record.version
  /\ k = d.byVersionID[v]
  /\ set = d.configSets[k]

\* `saved` is d with what s served deactivated, `undone` is d again, as far as the
\* indexes, the sets and the activations go.
DeactivationEnds(d, s, a, saved, undone) ==
  /\ DatabaseSound(saved)
  /\ saved.byVersionID = d.byVersionID
  /\ \A b \in ActivationIDs \ {a} : saved.activations[b] = d.activations[b]
  /\ saved.configSets = DeactivateServing(d, s).configSets
  /\ saved.byScope = [d.byScope EXCEPT ![s] = None]
  /\ DatabaseSound(undone)
  /\ undone.byVersionID = d.byVersionID
  /\ undone.activations = d.activations
  /\ undone.configSets = d.configSets
  /\ undone.byScope = d.byScope

\* The undo of a failed deactivation: the scope serves again what it served.
LEMMA DeactivationUndone ==
  ASSUME NEW d, DatabaseSound(d), NEW s \in Scopes, NEW a, NEW record, NEW v, NEW k, NEW set,
         ServedBy(d, s, a, record, v, k, set)
  PROVE  LET saved == DeleteIngestionRuntime(DeactivateServing(d, s), s)
             undone == SaveIngestionRuntime(
                         SaveActivation(SaveConfigSet(saved, k, set), a, record),
                         s, [version |-> v, activation |-> a])
         IN  DeactivationEnds(d, s, a, saved, undone)
<1> DEFINE e == DeactivateServing(d, s)
           saved == SaveIngestionRuntime(e, s, NoRuntime)
           g == SaveConfigSet(saved, k, set)
           h == SaveActivation(g, a, record)
           runtime == [version |-> v, activation |-> a]
           undone == SaveIngestionRuntime(h, s, runtime)
<1>1. /\ a \in ActivationIDs
      /\ record \in Activation
      /\ record.status = "active"
      /\ record.scope = s
      /\ v \in VersionIDs
      /\ k \in Keys
  BY ServedFacts DEF ServedBy
<1>2. /\ d.byScope \in [Scopes -> ActivationIDs \cup {None}]
      /\ d.activations \in [ActivationIDs -> Activation]
      /\ d.configSets \in [Keys -> ConfigSet]
      /\ IndexSound(d) /\ ServedIn(d)
  BY DEF DatabaseSound, IndexSound, Database
<1>3. /\ DatabaseSound(e)
      /\ e.byVersionID = d.byVersionID
      /\ e.byScope = [d.byScope EXCEPT ![s] = None]
      /\ e.activations = [d.activations EXCEPT ![a] = Deactivated(d.activations[a])]
      /\ \A j \in Keys \ {k} : e.configSets[j] = d.configSets[j]
  <2>1. /\ a = d.byScope[s] /\ a # None /\ k = d.byVersionID[d.activations[d.byScope[s]].version]
    BY DEF ServedBy
  <2> HIDE DEF e
  <2>2. LET j == d.byVersionID[d.activations[d.byScope[s]].version]
        IN  /\ DatabaseSound(e)
            /\ e.byVersionID = d.byVersionID
            /\ e.byScope = [d.byScope EXCEPT ![s] = None]
            /\ e.activations = [d.activations EXCEPT ![d.byScope[s]] = Deactivated(d.activations[d.byScope[s]])]
            /\ \A i \in Keys \ {j} : e.configSets[i] = d.configSets[i]
    BY <2>1, DeactivateServingSound DEF e
  <2>3. QED
    BY <2>1, <2>2
<1> HIDE DEF e
<1>4. NoRuntime \in IngestionRuntime /\ runtime \in IngestionRuntime
  BY <1>1 DEF NoRuntime, IngestionRuntime
<1> HIDE DEF runtime
<1>5. e \in Database /\ e.configSets \in [Keys -> ConfigSet]
  BY <1>3 DEF DatabaseSound, IndexSound, Database
<1>6. DatabaseSound(saved)
  BY <1>3, <1>4, SaveIngestionRuntimeSound
<1>7. /\ saved.configSets = e.configSets
      /\ saved.byVersionID = e.byVersionID
      /\ saved.activations = e.activations
      /\ saved.byScope = e.byScope
  BY <1>4, <1>5, SaveIngestionRuntimeFields
<1> HIDE DEF saved
<1>8. IndexSound(saved) /\ saved.byVersionID = d.byVersionID
  BY <1>3, <1>6, <1>7 DEF DatabaseSound
<1>9. /\ IndexSound(g)
      /\ g.configSets = [saved.configSets EXCEPT ![k] = set]
      /\ g.byVersionID = saved.byVersionID
      /\ g.activations = saved.activations
      /\ g.byScope = saved.byScope
  <2>1. k \in Keys /\ set = d.configSets[k] /\ IndexSound(d)
    BY <1>1, <1>2 DEF ServedBy
  <2>2. QED
    BY <1>8, <2>1, RestoreSet
<1> HIDE DEF g
<1>10. g.configSets = d.configSets
  <2>1. g.configSets \in [Keys -> ConfigSet]
    BY <1>9 DEF IndexSound, Database
  <2>2. \A j \in Keys : g.configSets[j] = d.configSets[j]
    <3>1. g.configSets = [e.configSets EXCEPT ![k] = set]
      BY <1>7, <1>9
    <3>2. set = d.configSets[k]
      BY DEF ServedBy
    <3>3. \A j \in Keys \ {k} : e.configSets[j] = d.configSets[j]
      BY <1>3
    <3>4. QED
      BY <1>1, <1>2, <1>5, <3>1, <3>2, <3>3
  <2>3. QED
    BY <1>2, <2>1, <2>2
<1>11. g \in Database /\ g.byVersionID[record.version] # None
  <2>1. g.byVersionID[record.version] = k
    BY <1>8, <1>9 DEF ServedBy
  <2>2. QED
    BY <1>1, <1>9, <2>1, ConstantsAssumption DEF IndexSound
<1>12. record.version \in VersionIDs
  BY <1>1 DEF ServedBy
<1>13. IndexSound(h)
  BY <1>1, <1>9, <1>11, <1>12, SaveActivationIndex
<1>14. /\ h.configSets = g.configSets
       /\ h.byVersionID = g.byVersionID
       /\ h.activations = [g.activations EXCEPT ![a] = record]
  BY <1>1, <1>11, <1>12, SaveActivationFields
<1>15. g.byScope = [d.byScope EXCEPT ![s] = None]
  BY <1>3, <1>7, <1>9
<1>16. \A t \in Scopes : g.byScope[t] = a => t = record.scope
  BY <1>1, <1>2, <1>15 DEF ServedIn, ServedBy
<1>17. h.byScope = [g.byScope EXCEPT ![record.scope] = a]
  BY <1>1, <1>11, <1>16, <1>12, SaveActiveScope
<1> HIDE DEF h
<1>18. h.byScope = d.byScope
  BY <1>1, <1>2, <1>15, <1>17 DEF ServedBy
<1>19. h.activations = d.activations
  <2>1. h.activations = [[d.activations EXCEPT ![a] = Deactivated(d.activations[a])] EXCEPT ![a] = record]
    BY <1>3, <1>7, <1>9, <1>14
  <2>2. record = d.activations[a]
    BY DEF ServedBy
  <2>3. QED
    BY <1>1, <1>2, <2>1, <2>2
<1>20. ServedIn(h)
  <2>1. h.configSets = d.configSets /\ h.byVersionID = d.byVersionID
    BY <1>8, <1>9, <1>10, <1>14
  <2>2. QED
    BY <1>2, <1>18, <1>19, <2>1, ServedAsBefore
<1>21. h \in Database /\ DatabaseSound(h)
  BY <1>13, <1>20 DEF DatabaseSound, IndexSound
<1>22. DatabaseSound(undone)
  BY <1>4, <1>21, SaveIngestionRuntimeSound
<1>23. /\ undone.byVersionID = h.byVersionID /\ undone.activations = h.activations
       /\ undone.configSets = h.configSets /\ undone.byScope = h.byScope
  BY <1>4, <1>21, SaveIngestionRuntimeFields
<1>24. \A b \in ActivationIDs \ {a} : saved.activations[b] = d.activations[b]
  BY <1>2, <1>3, <1>7
<1>25. undone.byVersionID = d.byVersionID /\ undone.activations = d.activations
  BY <1>8, <1>9, <1>14, <1>19, <1>23
<1>26. undone.configSets = d.configSets /\ undone.byScope = d.byScope
  BY <1>10, <1>14, <1>18, <1>23
<1>27. saved.configSets = e.configSets /\ saved.byScope = [d.byScope EXCEPT ![s] = None]
  BY <1>3, <1>7
<1> HIDE DEF undone
<1>28. DeactivationEnds(d, s, a, saved, undone)
  BY <1>6, <1>8, <1>22, <1>24, <1>25, <1>26, <1>27 DEF DeactivationEnds, e
<1>29. QED
  BY <1>28 DEF undone, h, g, saved, e, runtime, DeleteIngestionRuntime

\* a deactivation, completed or undone,
LEMMA DeactivateConfigStep ==
  ASSUME IInv, NEW s \in Scopes, DeactivateConfig(s)
  PROVE  IInv' /\ (RestoredFrom(db', db) \/ WithdrawnFrom(db', db, s))
<1> DEFINE a == db.byScope[s]
           record == db.activations[a]
           v == record.version
           k == db.byVersionID[v]
           set == db.configSets[k]
           saved == DeleteIngestionRuntime(DeactivateServing(db, s), s)
           undone == SaveIngestionRuntime(
                       SaveActivation(SaveConfigSet(saved, k, set), a, record),
                       s, [version |-> v, activation |-> a])
           events == <<DeactivatedEvent(v, a, s, issued.activations), ClearedEvent(s)>>
<1>1. TypeOK /\ DatabaseSound(db) /\ Fresh
  BY DEF IInv
<1>2. a # None /\ PublishRuntime(events, saved, undone) /\ issued' = issued
  BY DEF DeactivateConfig
<1>3. DeactivationEnds(db, s, a, saved, undone)
  <2>1. ServedBy(db, s, a, record, v, k, set)
    BY <1>2 DEF ServedBy
  <2> HIDE DEF a, record, v, k, set
  <2>2. QED
    BY <1>1, <2>1, DeactivationUndone
<1>4. a \in ActivationIDs /\ v \in VersionIDs /\ record.status = "active"
  BY <1>1, <1>2, ServedFacts
<1>5. events \in Seq(Event)
  <2>1. issued.activations \in Nat
    BY <1>1, ConstantsAssumption DEF TypeOK
  <2>2. DeactivatedEvent(v, a, s, issued.activations) \in Event /\ ClearedEvent(s) \in Event
    BY <1>4, <2>1 DEF DeactivatedEvent, ClearedEvent, ChangedEvent, Event
  <2>3. QED
    BY <2>2
<1> HIDE DEF saved, undone, events
<1>6. /\ db' = saved \/ db' = undone
      /\ announced' \subseteq (Lifecycles \X VersionIDs)
      /\ stream' \in Seq(Event)
  BY <1>1, <1>2, <1>5, PublishRuntimeFacts
<1>7. DatabaseSound(db') /\ db'.byVersionID = db.byVersionID
  BY <1>3, <1>6 DEF DeactivationEnds
<1>8. \A b \in ActivationIDs : b > issued'.activations => db'.activations[b].status = "absent"
  <2>1. \A b \in ActivationIDs : b > issued.activations => db.activations[b].status = "absent"
    BY <1>1 DEF Fresh
  <2>2. \A b \in ActivationIDs : b > issued.activations => b # a
    BY <1>4, <2>1
  <2>3. QED
    BY <1>2, <1>3, <1>6, <2>1, <2>2 DEF DeactivationEnds
<1>9. /\ issued' \in [versions : 0 .. MaxVersions, activations : 0 .. MaxActivations]
      /\ issued'.versions = issued.versions
  BY <1>1, <1>2 DEF TypeOK
<1>10. IInv'
  BY <1>6, <1>7, <1>8, <1>9, RuntimeStep
<1>11. RestoredFrom(undone, db) /\ WithdrawnFrom(saved, db, s)
  BY <1>3 DEF DeactivationEnds, RestoredFrom, WithdrawnFrom
<1>12. QED
  BY <1>6, <1>10, <1>11

\* The empty repository, at the start and after a restart.
LEMMA EmptySound ==
  /\ DatabaseSound(EmptyDatabase)
  /\ EmptyDatabase.byVersionID = [v \in VersionIDs |-> None]
  /\ \A a \in ActivationIDs : EmptyDatabase.activations[a].status = "absent"
<1> DEFINE d == EmptyDatabase
<1>1. /\ d.configSets = [k \in Keys |-> NoConfigSet]
      /\ d.byVersionID = [v \in VersionIDs |-> None]
      /\ d.activations = [a \in ActivationIDs |-> NoActivation]
      /\ d.byScope = [s \in Scopes |-> None]
      /\ d.byVersion = {}
      /\ d.ingestionRuntimes = [s \in Scopes |-> NoRuntime]
  BY DEF EmptyDatabase
<1>2. NoVersion \in Version
  BY DEF NoVersion, Version
<1>3. NoConfigSet \in ConfigSet
  BY <1>2 DEF NoConfigSet, ConfigSet
<1>4. NoActivation \in Activation /\ NoRuntime \in IngestionRuntime /\ {} \in VersionIndexes
  BY DEF NoActivation, Activation, NoRuntime, IngestionRuntime, VersionIndexes
<1>5. d \in Database
  BY <1>3, <1>4 DEF EmptyDatabase, Database
<1>6. \A v \in VersionIDs : NoConfigSet.versions[v].lifecycle = "absent"
  BY DEF NoConfigSet, NoVersion
<1>7. VersionIndexIn(d) /\ CompiledIn(d)
  BY <1>1, <1>6, ConstantsAssumption DEF VersionIndexIn, CompiledIn, InSet
<1>8. \A a \in ActivationIDs : d.activations[a].status = "absent"
  BY <1>1 DEF NoActivation
<1>9. ActivationIndexIn(d) /\ ServedIn(d)
  BY <1>1, <1>8 DEF ActivationIndexIn, ServedIn
<1>10. QED
  BY <1>1, <1>5, <1>7, <1>8, <1>9 DEF DatabaseSound, IndexSound

\* and the loss of the repository.
LEMMA RestartStep ==
  ASSUME IInv, Restart
  PROVE  IInv'
<1>1. db' = EmptyDatabase /\ UNCHANGED <<issued, announced, stream>>
  BY DEF Restart
<1>2. DatabaseSound(db') /\ Fresh'
  BY <1>1, EmptySound DEF Fresh
<1>3. QED
  BY <1>1, <1>2 DEF IInv, TypeOK, DatabaseSound, IndexSound

-----------------------------------------------------------------------------
(* The theorems.                                                           *)

\* The initial state satisfies the inductive invariant.
LEMMA InitIInv == Init => IInv
<1> SUFFICES ASSUME Init PROVE IInv
  OBVIOUS
<1>1. DatabaseSound(db) /\ Fresh
  BY EmptySound DEF Init, Fresh
<1>2. TypeOK
  BY <1>1, ConstantsAssumption DEF Init, TypeOK, DatabaseSound, IndexSound
<1>3. QED
  BY <1>1, <1>2 DEF IInv

\* Every step preserves the inductive invariant.
LEMMA NextIInv == IInv /\ [Next]_vars => IInv'
<1> SUFFICES ASSUME IInv, [Next]_vars PROVE IInv'
  OBVIOUS
<1>1. ASSUME NEW k \in Keys, NEW wellFormed \in BOOLEAN, CreateDraft(k, wellFormed) PROVE IInv'
  BY <1>1, CreateDraftStep
<1>2. ASSUME NEW v \in VersionIDs, ValidateConfig(v) PROVE IInv'
  BY <1>2, ValidateConfigStep
<1>3. ASSUME NEW v \in VersionIDs, CompileConfig(v) PROVE IInv'
  BY <1>3, CompileConfigStep
<1>4. ASSUME NEW v \in VersionIDs, ArchiveConfig(v) PROVE IInv'
  BY <1>4, ArchiveConfigStep
<1>5. ASSUME NEW v \in VersionIDs, RejectConfig(v) PROVE IInv'
  BY <1>5, RejectConfigStep
<1>6. ASSUME NEW v \in VersionIDs, NEW s \in Scopes, ActivateConfig(v, s) PROVE IInv'
  BY <1>6, ActivateConfigStep
<1>7. ASSUME NEW s \in Scopes, DeactivateConfig(s) PROVE IInv'
  BY <1>7, DeactivateConfigStep
<1>8. CASE Restart
  BY <1>8, RestartStep
<1>9. CASE UNCHANGED vars
  BY <1>9 DEF vars, IInv, TypeOK, Fresh
<1>10. QED
  BY <1>1, <1>2, <1>3, <1>4, <1>5, <1>6, <1>7, <1>8, <1>9 DEF Next

\* The inductive invariant implies what the runs check.
LEMMA IInvImplies ==
  IInv => TypeOK /\ ServedIndexSound /\ VersionIndexExact /\ ActivationIndexExact
  BY DEF IInv, DatabaseSound, IndexSound, ServedIn, ServedIndexSound, VersionIndexIn,
         VersionIndexExact, ActivationIndexIn, ActivationIndexExact

\* Every variable keeps its type.
THEOREM TypeCorrect == Spec => []TypeOK
<1>1. QED
  BY InitIInv, NextIInv, IInvImplies, PTL DEF Spec

\* Whatever was saved, displaced, undone or lost, a scope that serves an activation
\* serves one that can be loaded and displaced.
THEOREM ServedIndexCorrect == Spec => []ServedIndexSound
<1>1. QED
  BY InitIInv, NextIInv, IInvImplies, PTL DEF Spec

\* The version index names exactly the set that holds the version.
THEOREM VersionIndexCorrect == Spec => []VersionIndexExact
<1>1. QED
  BY InitIInv, NextIInv, IInvImplies, PTL DEF Spec

\* The activation index lists exactly the stored activations.
THEOREM ActivationIndexCorrect == Spec => []ActivationIndexExact
<1>1. QED
  BY InitIInv, NextIInv, IInvImplies, PTL DEF Spec
==============================================================================
