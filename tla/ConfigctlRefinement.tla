------------------------- MODULE ConfigctlRefinement -------------------------
(***************************************************************************)
(* The repository and its use cases implement ControlPlane.  A use case    *)
(* saves several records and, when a publication fails, saves the old ones *)
(* again; seen through the two indexes a client's query goes through, that *)
(* is one step or none.                                                    *)
(***************************************************************************)
EXTENDS Configctl

\* GetConfig: the set by the version index, the version in the set.
LifecycleOf(d, v) ==
  IF d.byVersionID[v] = None THEN "absent"
                             ELSE d.configSets[d.byVersionID[v]].versions[v].lifecycle

\* GetActiveConfig: the activation by the scope index, and its version.
VersionServed(d, s) ==
  IF d.byScope[s] = None THEN None ELSE d.activations[d.byScope[s]].version

\* The two, for every version and every scope.
LifecycleView(d) == [v \in VersionIDs |-> LifecycleOf(d, v)]

ServingView(d) == [s \in Scopes |-> VersionServed(d, s)]

Abstract == INSTANCE ControlPlane WITH lifecycle <- LifecycleView(db),
                                       serves    <- ServingView(db)

\* Every use case, whatever it saves, undoes or announces, is one step of the
\* abstract control plane or none: a failed activation leaves every lifecycle and
\* every scope as it found them, a replacement never shows a scope that serves
\* nothing, and no save of an older copy of a set changes a version a use case
\* is not about.
ImplementsControlPlane == Abstract!AbstractSpec
==============================================================================
