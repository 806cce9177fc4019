-------------------------- MODULE MCConsumerRuntime --------------------------
(* Model-checking instances of ConsumerRuntime and Ingestion.              *)
EXTENDS Ingestion, TLC

CONSTANTS v1, v2, bad

MCViews == {v1, v2, bad}
MCUnbuildable == {bad}

\* The second version adds a binding to the topic.
MCBindingsOf == (v1 :> <<"orders1">>) @@ (v2 :> <<"orders2", "audit2">>) @@ (bad :> <<"bad">>)
==============================================================================
