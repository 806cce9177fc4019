----------------------------- MODULE MCConfigctl -----------------------------
(* Model-checking instances of Configctl.                                  *)
EXTENDS ConfigctlRefinement, TLC

CONSTANTS k1, k2, s1, s2

MCKeys   == {k1, k2}
MCScopes == {s1, s2}

\* The operations ControlRouterActor routes, and a restart of the process.
DeployedOperations == {"create_draft", "validate", "compile", "activate", "restart"}

\* Config keys and scopes are only compared for equality.
MCSymmetry == Permutations(MCKeys) \cup Permutations(MCScopes)
==============================================================================
