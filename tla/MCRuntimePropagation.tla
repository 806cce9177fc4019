------------------------ MODULE MCRuntimePropagation ------------------------
(* Model-checking instances of RuntimePropagation.                         *)
EXTENDS RuntimePropagation, TLC

CONSTANTS k1, k2, s1

MCKeys   == {k1, k2}
MCScopes == {s1}

\* The operations ControlRouterActor routes, with and without a restart of it.
DeployedOperations == {"create_draft", "validate", "compile", "activate", "restart"}
SteadyOperations   == DeployedOperations \ {"restart"}

\* Config keys are only compared for equality.
MCSymmetry == Permutations(MCKeys)
==============================================================================
