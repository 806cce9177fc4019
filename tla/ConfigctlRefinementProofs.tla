---------------------- MODULE ConfigctlRefinementProofs ----------------------
(***************************************************************************)
(* Configctl implements ControlPlane, for every set of keys and scopes and *)
(* every bound.  Each use case ends in one of two databases, the saved and *)
(* the undone one; the lemmas compare what a client sees of them with what *)
(* it saw of the database the use case started from.                       *)
(***************************************************************************)
EXTENDS ConfigctlRefinement, ConfigctlProofs

-----------------------------------------------------------------------------
(* What a client sees of a database.                                       *)

\* Two databases with the same sets and the same version index show the same lifecycles.
LEMMA SameLifecycles ==
  ASSUME NEW d, NEW e, e.configSets = d.configSets, e.byVersionID = d.byVersionID
  PROVE  LifecycleView(e) = LifecycleView(d)
  BY DEF LifecycleView, LifecycleOf

\* Two databases with the same scope index and the same served records serve the same.
LEMMA SameServing ==
  ASSUME NEW d, NEW e, e.byScope = d.byScope,
         \A s \in Scopes : d.byScope[s] # None =>
            e.activations[d.byScope[s]] = d.activations[d.byScope[s]]
  PROVE  ServingView(e) = ServingView(d)
  BY DEF ServingView, VersionServed

\* A stored version has the lifecycle of its set, any other is absent.
LEMMA LifecycleStored ==
  ASSUME NEW d, NEW v \in VersionIDs
  PROVE  /\ d.byVersionID[v] = None => LifecycleView(d)[v] = "absent"
         /\ d.byVersionID[v] # None =>
              LifecycleView(d)[v] = d.configSets[d.byVersionID[v]].versions[v].lifecycle
  BY DEF LifecycleView, LifecycleOf

\* What a scope serves is a version that is seen as active.
LEMMA ServingStored ==
  ASSUME NEW d, DatabaseSound(d), NEW s \in Scopes
  PROVE  /\ d.byScope[s] = None => ServingView(d)[s] = None
         /\ d.byScope[s] # None =>
              /\ ServingView(d)[s] = d.activations[d.byScope[s]].version
              /\ ServingView(d)[s] \in VersionIDs
              /\ LifecycleView(d)[ServingView(d)[s]] = "active"
<1>1. CASE d.byScope[s] = None
  BY <1>1 DEF ServingView, VersionServed
<1>2. CASE d.byScope[s] # None
  <2> DEFINE v == d.activations[d.byScope[s]].version
  <2>1. ServingView(d)[s] = v
    BY <1>2 DEF ServingView, VersionServed
  <2>2. v \in VersionIDs /\ d.byVersionID[v] \in Keys
        /\ d.configSets[d.byVersionID[v]].versions[v].lifecycle = "active"
    BY <1>2, ServedFacts
  <2>3. d.byVersionID[v] # None
    BY <2>2, ConstantsAssumption
  <2> HIDE DEF v
  <2>4. LifecycleView(d)[v] = "active"
    BY <2>2, <2>3, LifecycleStored
  <2>5. QED
    BY <1>2, <2>1, <2>2, <2>4 DEF v
<1>3. QED
  BY <1>1, <1>2

\* `e` differs from `d` in v, of set k, which is in lifecycle l.
OneChanged(e, d, k, v, l) ==
  /\ d.byVersionID \in [VersionIDs -> Keys \cup {None}]
  /\ e.byVersionID = d.byVersionID
  /\ d.byVersionID[v] = k
  /\ \A j \in Keys \ {k} : e.configSets[j] = d.configSets[j]
  /\ \A w \in VersionIDs \ {v} : e.configSets[k].versions[w] = d.configSets[k].versions[w]
  /\ e.configSets[k].versions[v].lifecycle = l

\* A client sees the new lifecycle of that version, and no other difference.
LEMMA ChangedView ==
  ASSUME NEW d, NEW e, NEW k \in Keys, NEW v \in VersionIDs, NEW l, OneChanged(e, d, k, v, l)
  PROVE  LifecycleView(e) = [LifecycleView(d) EXCEPT ![v] = l]
<1>1. k # None
  BY ConstantsAssumption
<1>2. \A w \in VersionIDs : LifecycleOf(e, w) = IF w = v THEN l ELSE LifecycleOf(d, w)
  <2> SUFFICES ASSUME NEW w \in VersionIDs
               PROVE  LifecycleOf(e, w) = IF w = v THEN l ELSE LifecycleOf(d, w)
    OBVIOUS
  <2>1. CASE w = v
    BY <1>1, <2>1 DEF LifecycleOf, OneChanged
  <2>2. CASE w # v /\ d.byVersionID[w] = k
    BY <1>1, <2>2 DEF LifecycleOf, OneChanged
  <2>3. CASE w # v /\ d.byVersionID[w] # k
    BY <2>3 DEF LifecycleOf, OneChanged
  <2>4. QED
    BY <2>1, <2>2, <2>3
<1>3. QED
  BY <1>2 DEF LifecycleView

\* `e` is `d` with another entry for s, and the records no entry for s names are the same.
OneEntryChanged(e, d, s, x) ==
  /\ e.byScope = [d.byScope EXCEPT ![s] = x]
  /\ \A b \in ActivationIDs : b # d.byScope[s] /\ b # x => e.activations[b] = d.activations[b]
  /\ \A t \in Scopes : d.byScope[t] # None => d.byScope[t] # x

\* The other scopes serve what they served.
LEMMA ServingElsewhere ==
  ASSUME NEW d, DatabaseSound(d), NEW s \in Scopes, NEW e, NEW x, OneEntryChanged(e, d, s, x)
  PROVE  \A t \in Scopes \ {s} : VersionServed(e, t) = VersionServed(d, t)
<1> SUFFICES ASSUME NEW t \in Scopes \ {s} PROVE VersionServed(e, t) = VersionServed(d, t)
  OBVIOUS
<1>1. d.byScope \in [Scopes -> ActivationIDs \cup {None}]
  BY DEF DatabaseSound, IndexSound, Database
<1>2. e.byScope[t] = d.byScope[t]
  BY <1>1 DEF OneEntryChanged
<1>3. CASE d.byScope[t] = None
  BY <1>2, <1>3 DEF VersionServed
<1>4. CASE d.byScope[t] # None
  <2>1. d.byScope[t] \in ActivationIDs /\ d.activations[d.byScope[t]].scope = t
    BY <1>4, ServedFacts
  <2>2. d.byScope[s] # None => d.activations[d.byScope[s]].scope = s
    BY ServedFacts
  <2>3. d.byScope[t] # d.byScope[s]
    BY <1>4, <2>1, <2>2
  <2>4. QED
    BY <1>2, <1>4, <2>1, <2>3 DEF VersionServed, OneEntryChanged
<1>5. QED
  BY <1>3, <1>4

\* An empty repository shows no version and serves nothing.
LEMMA EmptyView ==
  /\ LifecycleView(EmptyDatabase) = [v \in VersionIDs |-> "absent"]
  /\ ServingView(EmptyDatabase) = [s \in Scopes |-> None]
  BY DEF LifecycleView, LifecycleOf, ServingView, VersionServed, EmptyDatabase

-----------------------------------------------------------------------------
(* Every step of Configctl is a step of ControlPlane or none.              *)

AbstractStep == [Abstract!AbstractNext]_(Abstract!abstractVars)

\* What leaves both views alone is no step.
LEMMA SameViews ==
  ASSUME LifecycleView(db') = LifecycleView(db), ServingView(db') = ServingView(db)
  PROVE  AbstractStep
  BY DEF AbstractStep, Abstract!abstractVars

\* A use case that was undone is no step.
LEMMA RestoredStep ==
  ASSUME RestoredFrom(db', db)
  PROVE  AbstractStep
  BY SameLifecycles, SameServing, SameViews DEF RestoredFrom

\* A draft is Draft, or was undone.
LEMMA DraftStep ==
  ASSUME IInv, NEW k \in Keys, NEW wellFormed \in BOOLEAN, CreateDraft(k, wellFormed)
  PROVE  AbstractStep
<1> DEFINE v == issued.versions + 1
           new == DraftVersion(db.configSets[k], v, wellFormed)
<1>1. db' = db \/ DraftedFrom(db', db, k, v, wellFormed)
  BY CreateDraftStep
<1>2. CASE db' = db
  BY <1>2, SameViews
<1>3. CASE DraftedFrom(db', db, k, v, wellFormed)
  <2>1. /\ v \in VersionIDs /\ db.byVersionID[v] = None
        /\ db'.byVersionID = [db.byVersionID EXCEPT ![v] = k]
        /\ db'.configSets = [db.configSets EXCEPT ![k] = new]
        /\ db'.activations = db.activations
        /\ db'.byScope = db.byScope
    BY <1>3 DEF DraftedFrom
  <2>2. /\ db.byVersionID \in [VersionIDs -> Keys \cup {None}]
        /\ db.configSets \in [Keys -> ConfigSet]
    BY DEF IInv, DatabaseSound, IndexSound, Database
  <2>3. k # None
    BY ConstantsAssumption
  <2> HIDE DEF v
  <2>4. /\ new.versions[v].lifecycle = "draft"
        /\ \A w \in VersionIDs \ {v} : new.versions[w] = db.configSets[k].versions[w]
    BY <2>1, <2>2 DEF DraftVersion, ConfigSet
  <2> HIDE DEF new
  <2>5. \A w \in VersionIDs : LifecycleOf(db', w) = IF w = v THEN "draft" ELSE LifecycleOf(db, w)
    <3> SUFFICES ASSUME NEW w \in VersionIDs
                 PROVE  LifecycleOf(db', w) = IF w = v THEN "draft" ELSE LifecycleOf(db, w)
      OBVIOUS
    <3>1. CASE w = v
      BY <2>1, <2>2, <2>3, <2>4, <3>1 DEF LifecycleOf
    <3>2. CASE w # v /\ db.byVersionID[w] = k
      BY <2>1, <2>2, <2>3, <2>4, <3>2 DEF LifecycleOf
    <3>3. CASE w # v /\ db.byVersionID[w] # k
      BY <2>1, <2>2, <3>3 DEF LifecycleOf
    <3>4. QED
      BY <3>1, <3>2, <3>3
  <2>6. LifecycleView(db') = [LifecycleView(db) EXCEPT ![v] = "draft"]
    BY <2>5 DEF LifecycleView
  <2>7. LifecycleView(db)[v] = "absent"
    BY <2>1, LifecycleStored
  <2>8. ServingView(db') = ServingView(db)
    BY <2>1, SameServing
  <2>9. Abstract!Draft(v)
    BY <2>6, <2>7, <2>8 DEF Abstract!Draft
  <2>10. QED
    BY <2>1, <2>9 DEF AbstractStep, Abstract!AbstractNext
<1>4. QED
  BY <1>1, <1>2, <1>3

\* A version that moves to a lifecycle the review allows is Move, or was undone.
LEMMA ReviewStep ==
  ASSUME IInv, NEW v \in VersionIDs, NEW to, MovesOrUndoes(v, to),
         <<LifecycleView(db)[v], to>> \in Abstract!Review
  PROVE  AbstractStep
<1>1. CASE db' = db
  BY <1>1, SameViews
<1>2. ASSUME NEW k \in Keys, MovedFrom(db', db, k, v, to) PROVE AbstractStep
  <2>1. db.byVersionID \in [VersionIDs -> Keys \cup {None}]
    BY DEF IInv, DatabaseSound, IndexSound, Database
  <2>2. LifecycleView(db') = [LifecycleView(db) EXCEPT ![v] = to]
    <3>1. OneChanged(db', db, k, v, to)
      BY <1>2, <2>1 DEF MovedFrom, OneChanged
    <3>2. QED
      BY <3>1, ChangedView
  <2>3. LifecycleView(db')[v] = to
    BY <2>2 DEF LifecycleView
  <2>4. ServingView(db') = ServingView(db)
    BY <1>2, SameServing DEF MovedFrom
  <2>5. Abstract!Move(v)
    BY <2>2, <2>3, <2>4 DEF Abstract!Move
  <2>6. QED
    BY <2>5 DEF AbstractStep, Abstract!AbstractNext
<1>3. QED
  BY <1>1, <1>2 DEF MovesOrUndoes

\* So are validate, compile, archive and reject.
LEMMA VersionSteps ==
  ASSUME IInv, NEW v \in VersionIDs,
         ValidateConfig(v) \/ CompileConfig(v) \/ ArchiveConfig(v) \/ RejectConfig(v)
  PROVE  AbstractStep
<1> DEFINE l == db.configSets[db.byVersionID[v]].versions[v].lifecycle
<1>1. db.byVersionID[v] # None
  BY DEF ValidateConfig, CompileConfig, ArchiveConfig, RejectConfig
<1>2. LifecycleView(db)[v] = l
  BY <1>1, LifecycleStored
<1>3. CASE ValidateConfig(v)
  <2>1. l = "draft" /\ MovesOrUndoes(v, "validated")
    BY <1>3, ValidateConfigStep DEF ValidateConfig
  <2>2. QED
    BY <1>2, <2>1, ReviewStep DEF Abstract!Review
<1>4. CASE CompileConfig(v)
  <2>1. l = "validated" /\ MovesOrUndoes(v, "compiled")
    BY <1>4, CompileConfigStep DEF CompileConfig
  <2>2. QED
    BY <1>2, <2>1, ReviewStep DEF Abstract!Review
<1>5. CASE ArchiveConfig(v)
  <2>1. /\ l \in {"draft", "validated", "compiled", "inactive", "rejected"}
        /\ MovesOrUndoes(v, "archived")
    BY <1>5, ArchiveConfigStep DEF ArchiveConfig
  <2> HIDE DEF l
  <2>2. <<l, "archived">> \in Abstract!Review
    BY <2>1 DEF Abstract!Review
  <2>3. QED
    BY <1>2, <2>1, <2>2, ReviewStep
<1>6. CASE RejectConfig(v)
  <2>1. l \in {"draft", "validated"} /\ MovesOrUndoes(v, "rejected")
    BY <1>6, RejectConfigStep DEF RejectConfig
  <2> HIDE DEF l
  <2>2. <<l, "rejected">> \in Abstract!Review
    BY <2>1 DEF Abstract!Review
  <2>3. QED
    BY <1>2, <2>1, <2>2, ReviewStep
<1>7. QED
  BY <1>3, <1>4, <1>5, <1>6

\* What a client sees once s no longer serves what it served.
LEMMA WithdrawnView ==
  ASSUME NEW d, DatabaseSound(d), NEW s \in Scopes, d.byScope[s] # None,
         NEW e, WithdrawnFrom(e, d, s)
  PROVE  /\ ServingView(e) = [ServingView(d) EXCEPT ![s] = None]
         /\ \E left \in {"inactive", "active"} :
              LifecycleView(e) = [LifecycleView(d) EXCEPT ![ServingView(d)[s]] = left]
<1> DEFINE v == d.activations[d.byScope[s]].version
           k == d.byVersionID[v]
           left == e.configSets[k].versions[v].lifecycle
<1>1. /\ e.byVersionID = d.byVersionID
      /\ e.byScope = [d.byScope EXCEPT ![s] = None]
      /\ \A b \in ActivationIDs : b # d.byScope[s] => e.activations[b] = d.activations[b]
  BY DEF WithdrawnFrom
<1>2. /\ \A j \in Keys \ {k} : e.configSets[j] = d.configSets[j]
      /\ \A w \in VersionIDs \ {v} : e.configSets[k].versions[w] = d.configSets[k].versions[w]
      /\ left \in {"active", "inactive"}
  <2>1. e.configSets = DeactivateServing(d, s).configSets
    BY DEF WithdrawnFrom
  <2>2. LeftIn(DeactivateServing(d, s), d, k, v)
    BY DeactivateServingSound
  <2> HIDE DEF v, k
  <2>3. QED
    BY <2>1, <2>2 DEF LeftIn
<1>3. v \in VersionIDs /\ k \in Keys
  BY ServedFacts
<1>4. ServingView(d)[s] = v
  BY DEF ServingView, VersionServed
<1>5. /\ d.byVersionID \in [VersionIDs -> Keys \cup {None}]
      /\ d.byScope \in [Scopes -> ActivationIDs \cup {None}]
  BY DEF DatabaseSound, IndexSound, Database
<1>6. d.byVersionID[v] = k /\ e.configSets[k].versions[v].lifecycle = left
  OBVIOUS
<1> HIDE DEF v, k, left
<1>7. LifecycleView(e) = [LifecycleView(d) EXCEPT ![v] = left]
  <2>1. OneChanged(e, d, k, v, left)
    BY <1>1, <1>2, <1>5, <1>6 DEF OneChanged
  <2>2. QED
    BY <1>3, <2>1, ChangedView
<1>8. \A t \in Scopes \ {s} : VersionServed(e, t) = VersionServed(d, t)
  <2>1. OneEntryChanged(e, d, s, None)
    BY <1>1 DEF OneEntryChanged
  <2>2. QED
    BY <2>1, ServingElsewhere
<1>9. VersionServed(e, s) = None
  BY <1>1, <1>5 DEF VersionServed
<1>10. ServingView(e) = [ServingView(d) EXCEPT ![s] = None]
  BY <1>8, <1>9 DEF ServingView
<1>11. QED
  BY <1>2, <1>4, <1>7, <1>10

\* A scope that stops serving is Withdraw.
LEMMA WithdrawnStep ==
  ASSUME IInv, NEW s \in Scopes, db.byScope[s] # None, WithdrawnFrom(db', db, s)
  PROVE  AbstractStep
<1>1. DatabaseSound(db)
  BY DEF IInv
<1>2. /\ ServingView(db') = [ServingView(db) EXCEPT ![s] = None]
      /\ \E left \in {"inactive", "active"} :
           LifecycleView(db') = [LifecycleView(db) EXCEPT ![ServingView(db)[s]] = left]
  BY <1>1, WithdrawnView
<1>3. ServingView(db)[s] \in VersionIDs
  BY <1>1, ServingStored
<1>4. Abstract!Withdraw(s)
  BY <1>2, <1>3 DEF Abstract!Withdraw
<1>5. QED
  BY <1>4 DEF AbstractStep, Abstract!AbstractNext

\* What a client sees of the versions once v has taken over s: v is active, what s
\* served is active or inactive, and no other version has changed.
LEMMA ActivatedLifecycles ==
  ASSUME NEW d, DatabaseSound(d), NEW s \in Scopes,
         NEW v \in VersionIDs, NEW k \in Keys, d.byVersionID[v] = k, NEW a,
         Activatable(d.configSets[k].versions[v]),
         NEW f, ActivatedFrom(f, Displaced(d, s), d, k, v, a, s)
  PROVE  \E left \in {"inactive", "active"} :
           LifecycleView(f) = [w \in VersionIDs |-> IF w = v THEN "active"
                                                   ELSE IF w = ServingView(d)[s] THEN left
                                                   ELSE LifecycleView(d)[w]]
<1> DEFINE u == ServingView(d)[s]
           e == Displaced(d, s)
           left == IF u = None THEN "inactive" ELSE LifecycleOf(f, u)
<1>1. /\ f.byVersionID = d.byVersionID
      /\ \A j \in Keys \ {k} : f.configSets[j] = e.configSets[j]
      /\ f.configSets[k] = ActivateVersion(d.configSets[k], v)
  BY DEF ActivatedFrom
<1>2. /\ d.byVersionID \in [VersionIDs -> Keys \cup {None}]
      /\ d.configSets[k] \in ConfigSet
      /\ VersionIndexIn(d)
  BY DEF DatabaseSound, IndexSound, Database
<1>3. None \notin Keys /\ None \notin VersionIDs
  BY ConstantsAssumption
<1>4. /\ f.configSets[k].versions[v].lifecycle = "active"
      /\ \A w \in VersionIDs \ {v} : f.configSets[k].versions[w] = d.configSets[k].versions[w]
  <2>1. InSet(d.configSets[k], v) /\ "active" \in Lifecycles
    BY <1>2 DEF VersionIndexIn, Lifecycles
  <2>2. QED
    BY <1>1, <1>2, <2>1, WithLifecycleFacts DEF ActivateVersion
<1>5. CASE d.byScope[s] = None
  <2>1. e = d /\ u = None
    BY <1>5, ServingStored DEF Displaced
  <2> HIDE DEF e, u
  <2>2. \A w \in VersionIDs : LifecycleOf(f, w) = IF w = v THEN "active" ELSE LifecycleOf(d, w)
    <3> SUFFICES ASSUME NEW w \in VersionIDs
                 PROVE  LifecycleOf(f, w) = IF w = v THEN "active" ELSE LifecycleOf(d, w)
      OBVIOUS
    <3>1. CASE w = v
      BY <1>1, <1>3, <1>4, <3>1 DEF LifecycleOf
    <3>2. CASE w # v /\ d.byVersionID[w] = k
      BY <1>1, <1>3, <1>4, <3>2 DEF LifecycleOf
    <3>3. CASE w # v /\ d.byVersionID[w] # k
      BY <1>1, <1>2, <2>1, <3>3 DEF LifecycleOf
    <3>4. QED
      BY <3>1, <3>2, <3>3
  <2>3. QED
    BY <1>3, <2>1, <2>2 DEF LifecycleView, u
<1>6. CASE d.byScope[s] # None
  <2> DEFINE r == d.activations[d.byScope[s]].version
             kp == d.byVersionID[r]
  <2>1. e = DeactivateServing(d, s)
    BY <1>6 DEF Displaced
  <2>2. LeftIn(DeactivateServing(d, s), d, kp, r)
    BY <1>6, DeactivateServingSound
  <2>3. u = r /\ u \in VersionIDs /\ LifecycleView(d)[u] = "active"
    BY <1>6, ServingStored
  <2>4. kp \in Keys /\ kp = d.byVersionID[r]
    BY <1>6, ServedFacts
  <2> HIDE DEF e, u, r, kp
  <2>5. LeftIn(e, d, kp, u) /\ kp = d.byVersionID[u]
    BY <2>1, <2>2, <2>3, <2>4
  <2>6. LifecycleOf(d, u) = "active"
    BY <2>3 DEF LifecycleView
  <2>7. u # v
    BY <1>3, <2>6 DEF LifecycleOf, Activatable
  <2>8. LifecycleOf(f, u) \in {"inactive", "active"}
    <3>1. CASE kp = k
      BY <1>1, <1>3, <1>4, <2>3, <2>5, <2>6, <2>7, <3>1 DEF LifecycleOf
    <3>2. CASE kp # k
      BY <1>1, <1>3, <2>3, <2>4, <2>5, <3>2 DEF LifecycleOf, LeftIn
    <3>3. QED
      BY <3>1, <3>2
  <2>9. \A w \in VersionIDs :
          LifecycleOf(f, w) = IF w = v THEN "active"
                              ELSE IF w = u THEN LifecycleOf(f, u) ELSE LifecycleOf(d, w)
    <3> SUFFICES ASSUME NEW w \in VersionIDs, w # u
                 PROVE  LifecycleOf(f, w) = IF w = v THEN "active" ELSE LifecycleOf(d, w)
      BY <2>7
    <3>1. CASE w = v
      BY <1>1, <1>3, <1>4, <3>1 DEF LifecycleOf
    <3>2. CASE w # v /\ d.byVersionID[w] = k
      BY <1>1, <1>3, <1>4, <3>2 DEF LifecycleOf
    <3>3. CASE w # v /\ d.byVersionID[w] = None
      BY <1>1, <3>3 DEF LifecycleOf
    <3>4. CASE w # v /\ d.byVersionID[w] \in Keys \ {k}
      <4> DEFINE j == d.byVersionID[w]
      <4>1. f.configSets[j] = e.configSets[j]
        BY <1>1, <3>4
      <4>2. e.configSets[j].versions[w] = d.configSets[j].versions[w]
        <5>1. CASE j = kp
          BY <2>5, <5>1 DEF LeftIn
        <5>2. CASE j # kp
          BY <2>5, <3>4, <5>2 DEF LeftIn
        <5>3. QED
          BY <5>1, <5>2
      <4>3. QED
        BY <1>1, <1>3, <3>4, <4>1, <4>2 DEF LifecycleOf
    <3>5. QED
      BY <1>2, <3>1, <3>2, <3>3, <3>4
  <2> DEFINE l == LifecycleOf(f, u)
  <2>10. l \in {"inactive", "active"}
         /\ \A w \in VersionIDs :
              LifecycleOf(f, w) = IF w = v THEN "active" ELSE IF w = u THEN l ELSE LifecycleOf(d, w)
    BY <2>8, <2>9
  <2> HIDE DEF l
  <2>11. LifecycleView(f) = [w \in VersionIDs |-> IF w = v THEN "active"
                                                 ELSE IF w = u THEN l
                                                 ELSE LifecycleView(d)[w]]
    BY <2>10 DEF LifecycleView
  <2>12. QED
    BY <2>10, <2>11 DEF u
<1>7. QED
  BY <1>5, <1>6

\* What a client sees of the scopes.
LEMMA ActivatedServing ==
  ASSUME NEW d, DatabaseSound(d), NEW s \in Scopes,
         NEW v \in VersionIDs, NEW k \in Keys,
         NEW a \in ActivationIDs, d.activations[a].status = "absent",
         NEW f, ActivatedFrom(f, Displaced(d, s), d, k, v, a, s)
  PROVE  ServingView(f) = [ServingView(d) EXCEPT ![s] = v]
<1> DEFINE e == Displaced(d, s)
<1>1. /\ f.byScope = [d.byScope EXCEPT ![s] = a]
      /\ f.activations = [e.activations EXCEPT ![a] = NewActivation(v, s)]
  BY DEF ActivatedFrom
<1>2. DatabaseSound(e) /\ \A b \in ActivationIDs : b # d.byScope[s] => e.activations[b] = d.activations[b]
  <2>1. DisplacedFrom(e, d, s)
    BY DisplacedSound
  <2> HIDE DEF e
  <2>2. QED
    BY <2>1 DEF DisplacedFrom
<1> HIDE DEF e
<1>3. e.activations \in [ActivationIDs -> Activation]
  BY <1>2 DEF DatabaseSound, IndexSound, Database
<1>4. d.byScope \in [Scopes -> ActivationIDs \cup {None}]
  BY DEF DatabaseSound, IndexSound, Database
<1>5. \A b \in ActivationIDs : b # d.byScope[s] /\ b # a => f.activations[b] = d.activations[b]
  BY <1>1, <1>2, <1>3
<1>6. \A t \in Scopes : d.byScope[t] # None => d.byScope[t] # a
  <2>1. \A t \in Scopes : d.byScope[t] # None => d.activations[d.byScope[t]].status = "active"
    BY ServedFacts
  <2>2. QED
    BY <2>1
<1>7. \A t \in Scopes \ {s} : VersionServed(f, t) = VersionServed(d, t)
  <2>1. OneEntryChanged(f, d, s, a)
    BY <1>1, <1>5, <1>6 DEF OneEntryChanged
  <2>2. QED
    BY <2>1, ServingElsewhere
<1>8. VersionServed(f, s) = v
  <2>1. f.byScope[s] = a /\ a # None
    BY <1>1, <1>4, ConstantsAssumption
  <2>2. f.activations[a] = NewActivation(v, s)
    BY <1>1, <1>3
  <2>3. QED
    BY <2>1, <2>2 DEF VersionServed, NewActivation
<1>9. QED
  BY <1>7, <1>8 DEF ServingView

\* An activation is Serve, or Withdraw when it is refused, or was undone.
LEMMA ActivateStep ==
  ASSUME IInv, NEW v \in VersionIDs, NEW s \in Scopes, ActivateConfig(v, s)
  PROVE  AbstractStep
<1>1. DatabaseSound(db)
  BY DEF IInv
<1>2. ActivatesOrUndoes(v, s)
  BY ActivateConfigStep
<1>3. CASE RestoredFrom(db', db)
  BY <1>3, RestoredStep
<1>4. CASE db' = Displaced(db, s)
  <2>1. CASE db.byScope[s] = None
    BY <1>4, <2>1, SameViews DEF Displaced
  <2>2. CASE db.byScope[s] # None
    <3>1. db' = DeactivateServing(db, s)
      BY <1>4, <2>2 DEF Displaced
    <3>2. DisplacedFrom(db', db, s)
      BY <1>1, <1>4, DisplacedSound
    <3>3. WithdrawnFrom(db', db, s)
      BY <3>1, <3>2 DEF DisplacedFrom, WithdrawnFrom
    <3>4. QED
      BY <2>2, <3>3, WithdrawnStep
  <2>3. QED
    BY <2>1, <2>2
<1>5. ASSUME NEW k \in Keys, NEW a \in ActivationIDs,
             db.byVersionID[v] = k, Activatable(db.configSets[k].versions[v]),
             db.activations[a].status = "absent",
             ActivatedFrom(db', Displaced(db, s), db, k, v, a, s)
      PROVE  AbstractStep
  <2>1. ServingView(db') = [ServingView(db) EXCEPT ![s] = v]
    BY <1>1, <1>5, ActivatedServing
  <2>2. \E left \in {"inactive", "active"} :
          LifecycleView(db') = [w \in VersionIDs |-> IF w = v THEN "active"
                                                    ELSE IF w = ServingView(db)[s] THEN left
                                                    ELSE LifecycleView(db)[w]]
    BY <1>1, <1>5, ActivatedLifecycles
  <2>3. LifecycleView(db)[v] \in {"compiled", "inactive"}
    <3>1. k # None
      BY ConstantsAssumption
    <3>2. LifecycleView(db)[v] = db.configSets[k].versions[v].lifecycle
      BY <1>5, <3>1, LifecycleStored
    <3>3. QED
      BY <1>5, <3>2 DEF Activatable
  <2>4. Abstract!Serve(v, s)
    BY <2>1, <2>2, <2>3 DEF Abstract!Serve
  <2>5. QED
    BY <2>4 DEF AbstractStep, Abstract!AbstractNext
<1>6. QED
  BY <1>2, <1>3, <1>4, <1>5 DEF ActivatesOrUndoes

\* A deactivation is Withdraw, or was undone.
LEMMA DeactivateStep ==
  ASSUME IInv, NEW s \in Scopes, DeactivateConfig(s)
  PROVE  AbstractStep
<1>1. RestoredFrom(db', db) \/ WithdrawnFrom(db', db, s)
  BY DeactivateConfigStep
<1>2. db.byScope[s] # None
  BY DEF DeactivateConfig
<1>3. QED
  BY <1>1, <1>2, RestoredStep, WithdrawnStep

\* The loss of the repository is Forget.
LEMMA ForgetStep ==
  ASSUME Restart
  PROVE  AbstractStep
<1>1. db' = EmptyDatabase
  BY DEF Restart
<1>2. Abstract!Forget
  BY <1>1, EmptyView DEF Abstract!Forget
<1>3. QED
  BY <1>2 DEF AbstractStep, Abstract!AbstractNext

-----------------------------------------------------------------------------
(* The theorems.                                                           *)

\* The first state is an abstract first state, every step an abstract step or none.
LEMMA StepsImplement ==
  /\ Init => Abstract!AbstractInit
  /\ IInv /\ [Next]_vars => AbstractStep
<1>1. Init => Abstract!AbstractInit
  BY EmptyView DEF Init, Abstract!AbstractInit
<1>2. ASSUME IInv, [Next]_vars PROVE AbstractStep
  <2>1. ASSUME NEW k \in Keys, NEW wellFormed \in BOOLEAN, CreateDraft(k, wellFormed) PROVE AbstractStep
    BY <1>2, <2>1, DraftStep
  <2>2. ASSUME NEW v \in VersionIDs,
               ValidateConfig(v) \/ CompileConfig(v) \/ ArchiveConfig(v) \/ RejectConfig(v)
        PROVE  AbstractStep
    BY <1>2, <2>2, VersionSteps
  <2>3. ASSUME NEW v \in VersionIDs, NEW s \in Scopes, ActivateConfig(v, s) PROVE AbstractStep
    BY <1>2, <2>3, ActivateStep
  <2>4. ASSUME NEW s \in Scopes, DeactivateConfig(s) PROVE AbstractStep
    BY <1>2, <2>4, DeactivateStep
  <2>5. CASE Restart
    BY <2>5, ForgetStep
  <2>6. CASE UNCHANGED vars
    BY <2>6, SameViews DEF vars
  <2>7. QED
    BY <1>2, <2>1, <2>2, <2>3, <2>4, <2>5, <2>6 DEF Next
<1>3. QED
  BY <1>1, <1>2

\* Configctl implements the abstract control plane: with its records, indexes, stale
\* copies, half-published events and roll backs, every use case is seen through the
\* queries as one abstract step or as none.
THEOREM ControlPlaneImplemented == Spec => ImplementsControlPlane
<1>1. AbstractStep <=> [Abstract!AbstractNext]_(Abstract!abstractVars)
  BY DEF AbstractStep
<1>2. QED
  BY <1>1, InitIInv, NextIInv, StepsImplement, PTL
  DEF Spec, ImplementsControlPlane, Abstract!AbstractSpec

-----------------------------------------------------------------------------
(* What follows from the abstract steps alone.                             *)

\* No version is served in two scopes, in terms of what a client sees.
ServedApart(serving) ==
  \A s, t \in Scopes : serving[s] # None /\ serving[s] = serving[t] => s = t

\* It is OneScopePerVersion.
LEMMA ApartMeansOneScope ==
  ASSUME NEW d, DatabaseSound(d)
  PROVE  ServedApart(ServingView(d)) <=>
           \A s, t \in Scopes :
             /\ d.byScope[s] # None
             /\ d.byScope[t] # None
             /\ d.activations[d.byScope[s]].version = d.activations[d.byScope[t]].version
             => s = t
<1>1. \A s \in Scopes : d.byScope[s] # None =>
        ServingView(d)[s] = d.activations[d.byScope[s]].version /\ ServingView(d)[s] \in VersionIDs
  BY ServingStored
<1>2. \A s \in Scopes : d.byScope[s] = None => ServingView(d)[s] = None
  BY ServingStored
<1>3. None \notin VersionIDs
  BY ConstantsAssumption
<1>4. QED
  BY <1>1, <1>2, <1>3 DEF ServedApart

\* What is served is active, so what takes over a scope is served nowhere else.
LEMMA ApartStep ==
  ASSUME IInv, ServedApart(ServingView(db)), AbstractStep
  PROVE  ServedApart(ServingView(db'))
<1> DEFINE serving == ServingView(db)
           serving2 == ServingView(db')
<1>1. \A s \in Scopes : serving[s] # None => LifecycleView(db)[serving[s]] = "active"
  BY ServingStored DEF IInv
<1>2. serving = [s \in Scopes |-> serving[s]]
  BY DEF ServingView
<1>3. CASE serving2 = serving
  BY <1>3
<1>4. ASSUME NEW v \in VersionIDs, NEW s \in Scopes, Abstract!Serve(v, s)
      PROVE  ServedApart(serving2)
  <2>1. serving2 = [serving EXCEPT ![s] = v] /\ LifecycleView(db)[v] # "active"
    BY <1>4 DEF Abstract!Serve
  <2> HIDE DEF serving, serving2
  <2>2. \A t \in Scopes : serving2[t] = IF t = s THEN v ELSE serving[t]
    BY <1>2, <2>1
  <2>3. \A t \in Scopes : serving[t] # v
    BY <1>1, <2>1, ConstantsAssumption
  <2>4. ServedApart(serving)
    BY DEF serving
  <2>5. QED
    BY <2>2, <2>3, <2>4 DEF ServedApart
<1>5. ASSUME NEW s \in Scopes, Abstract!Withdraw(s) PROVE ServedApart(serving2)
  <2>1. serving2 = [serving EXCEPT ![s] = None]
    BY <1>5 DEF Abstract!Withdraw
  <2> HIDE DEF serving, serving2
  <2>2. \A t \in Scopes : serving2[t] = IF t = s THEN None ELSE serving[t]
    BY <1>2, <2>1
  <2>3. ServedApart(serving)
    BY DEF serving
  <2>4. QED
    BY <2>2, <2>3 DEF ServedApart
<1>6. CASE Abstract!Forget
  BY <1>6 DEF Abstract!Forget, ServedApart
<1>7. \/ serving2 = serving
      \/ \E v \in VersionIDs, s \in Scopes : Abstract!Serve(v, s)
      \/ \E s \in Scopes : Abstract!Withdraw(s)
      \/ Abstract!Forget
  BY DEF AbstractStep, Abstract!AbstractNext, Abstract!abstractVars, Abstract!Draft, Abstract!Move
<1>8. QED
  BY <1>3, <1>4, <1>5, <1>6, <1>7

\* No version serves two scopes, however it was displaced, refused or undone.
THEOREM OneScopeCorrect == Spec => []OneScopePerVersion
<1> DEFINE Apart == ServedApart(ServingView(db))
<1>1. IInv => (Apart <=> OneScopePerVersion)
  BY ApartMeansOneScope DEF IInv, OneScopePerVersion
<1>2. Init => Apart
  BY EmptyView DEF Init, ServedApart
<1>3. IInv /\ Apart /\ [Next]_vars => Apart'
  BY StepsImplement, ApartStep
<1> HIDE DEF Apart
<1>4. QED
  BY <1>1, <1>2, <1>3, InitIInv, NextIInv, PTL DEF Spec

\* A stored version moves along the lifecycle of the domain.
LEMMA LegalStep ==
  ASSUME IInv, AbstractStep, NEW v \in VersionIDs,
         LifecycleView(db)[v] # "absent", LifecycleView(db')[v] # "absent",
         LifecycleView(db)[v] # LifecycleView(db')[v]
  PROVE  <<LifecycleView(db)[v], LifecycleView(db')[v]>> \in LegalTransitions
<1> DEFINE old == LifecycleView(db)
           new == LifecycleView(db')
           served == ServingView(db)
<1>1. \A s \in Scopes : served[s] # None => old[served[s]] = "active"
  BY ServingStored DEF IInv
<1>2. old = [w \in VersionIDs |-> old[w]]
  BY DEF LifecycleView
<1>3. None \notin VersionIDs
  BY ConstantsAssumption
<1>4. ASSUME NEW w \in VersionIDs, Abstract!Draft(w) PROVE FALSE
  <2>1. new = [old EXCEPT ![w] = "draft"] /\ old[w] = "absent"
    BY <1>4 DEF Abstract!Draft
  <2> HIDE DEF old, new
  <2>2. new[v] = IF v = w THEN "draft" ELSE old[v]
    BY <1>2, <2>1
  <2>3. QED
    BY <2>1, <2>2 DEF old, new
<1>5. ASSUME NEW w \in VersionIDs, Abstract!Move(w) PROVE <<old[v], new[v]>> \in LegalTransitions
  <2>1. new = [old EXCEPT ![w] = new[w]] /\ <<old[w], new[w]>> \in Abstract!Review
    BY <1>5 DEF Abstract!Move
  <2>2. old[v] # new[v]
    OBVIOUS
  <2> HIDE DEF old, new
  <2>3. v = w
    BY <1>2, <2>1, <2>2
  <2>4. QED
    BY <2>1, <2>3 DEF Abstract!Review, LegalTransitions
<1>6. ASSUME NEW w \in VersionIDs, NEW s \in Scopes, Abstract!Serve(w, s)
      PROVE  <<old[v], new[v]>> \in LegalTransitions
  <2>1. PICK left \in {"inactive", "active"} :
          new = [x \in VersionIDs |-> IF x = w THEN "active"
                                      ELSE IF x = served[s] THEN left ELSE old[x]]
    BY <1>6 DEF Abstract!Serve
  <2>2. old[w] \in {"compiled", "inactive"} /\ old[v] # new[v]
    BY <1>6 DEF Abstract!Serve
  <2> HIDE DEF old, new, served
  <2>3. CASE v = w
    BY <2>1, <2>2, <2>3 DEF LegalTransitions
  <2>4. CASE v # w
    <3>1. v = served[s] /\ new[v] = left
      BY <2>1, <2>2, <2>4
    <3>2. old[v] = "active"
      BY <1>1, <1>3, <3>1
    <3>3. QED
      BY <2>2, <3>1, <3>2 DEF LegalTransitions
  <2>5. QED
    BY <2>3, <2>4
<1>7. ASSUME NEW s \in Scopes, Abstract!Withdraw(s)
      PROVE  <<old[v], new[v]>> \in LegalTransitions
  <2>1. PICK left \in {"inactive", "active"} : new = [old EXCEPT ![served[s]] = left]
    BY <1>7 DEF Abstract!Withdraw
  <2>2. served[s] \in VersionIDs /\ old[v] # new[v]
    BY <1>7 DEF Abstract!Withdraw
  <2> HIDE DEF old, new, served
  <2>3. v = served[s] /\ new[v] = left
    BY <1>2, <2>1, <2>2
  <2>4. old[v] = "active"
    BY <1>1, <1>3, <2>3
  <2>5. QED
    BY <2>2, <2>3, <2>4 DEF LegalTransitions
<1>8. CASE Abstract!Forget
  BY <1>8 DEF Abstract!Forget
<1>9. CASE UNCHANGED Abstract!abstractVars
  BY <1>9 DEF Abstract!abstractVars
<1>10. QED
  BY <1>4, <1>5, <1>6, <1>7, <1>8, <1>9 DEF AbstractStep, Abstract!AbstractNext

\* A version found in a set is seen in that set's lifecycle.
LEMMA SeenInItsSet ==
  ASSUME NEW d, DatabaseSound(d), NEW k \in Keys, NEW v \in VersionIDs,
         d.configSets[k].versions[v].lifecycle # "absent"
  PROVE  LifecycleView(d)[v] = d.configSets[k].versions[v].lifecycle
<1>1. d.byVersionID[v] = k
  BY DEF DatabaseSound, IndexSound, VersionIndexIn, InSet
<1>2. k # None
  BY ConstantsAssumption
<1>3. QED
  BY <1>1, <1>2, LifecycleStored

\* No save of an older copy of a set, and no roll back, moves a stored version
\* against the lifecycle of the domain.
THEOREM LifecycleCorrect == Spec => LifecycleSteps
<1> DEFINE A == \A k \in Keys, v \in VersionIDs :
                  LET from == db.configSets[k].versions[v].lifecycle
                      to   == db'.configSets[k].versions[v].lifecycle
                  IN  from # to /\ from # "absent" /\ to # "absent" => <<from, to>> \in LegalTransitions
<1>1. ASSUME IInv, IInv', [Next]_vars PROVE A
  <2> SUFFICES ASSUME NEW k \in Keys, NEW v \in VersionIDs,
                      db.configSets[k].versions[v].lifecycle # "absent",
                      db'.configSets[k].versions[v].lifecycle # "absent",
                      db.configSets[k].versions[v].lifecycle # db'.configSets[k].versions[v].lifecycle
               PROVE  <<db.configSets[k].versions[v].lifecycle,
                        db'.configSets[k].versions[v].lifecycle>> \in LegalTransitions
    OBVIOUS
  <2>1. DatabaseSound(db) /\ DatabaseSound(db')
    BY <1>1 DEF IInv
  <2>2. /\ LifecycleView(db)[v] = db.configSets[k].versions[v].lifecycle
        /\ LifecycleView(db')[v] = db'.configSets[k].versions[v].lifecycle
    BY <2>1, SeenInItsSet
  <2>3. AbstractStep
    BY <1>1, StepsImplement
  <2>4. QED
    BY <1>1, <2>2, <2>3, LegalStep
<1>2. IInv /\ IInv' /\ [Next]_vars => [A]_vars
  BY <1>1
<1> HIDE DEF A
<1>3. Spec => [][A]_vars
  BY <1>2, InitIInv, NextIInv, PTL DEF Spec
<1>4. QED
  BY <1>3 DEF LifecycleSteps, A
==============================================================================
