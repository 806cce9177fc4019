---------------------------- MODULE MCValidation ----------------------------
(* Model-checking instances of Validation.                                 *)
EXTENDS Validation, TLC

CONSTANTS m1, m2, v1, v2

MCMessages == {m1, m2}
MCVersions == {v1, v2}

\* Two messages of different versions: a replacement is under way.
MCVersionOf == (m1 :> v1) @@ (m2 :> v2)

\* A message whose payload cannot be read, or that may not decode.
OneBad == {m2}
==============================================================================
