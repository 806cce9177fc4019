---------------------------- MODULE ControlPlane ----------------------------
(***************************************************************************)
(* What configctl promises its clients, without a repository, activation   *)
(* records, indexes, copies of sets, events or roll backs: every version   *)
(* has a lifecycle, every scope serves at most one version, and a use case *)
(* changes both in one step or changes neither.                            *)
(***************************************************************************)
CONSTANTS
  VersionIDs,  \* the versions that can be drafted
  Scopes,      \* the scopes that can be served
  None         \* a scope that serves nothing

VARIABLES
  lifecycle,   \* of every version; "absent" before it is drafted
  serves       \* the version each scope serves, or None

abstractVars == <<lifecycle, serves>>

\* The steps of a version that no scope is concerned with: the review of a
\* draft, and the end of a version that is not served.
Review ==
  {<<"draft", "validated">>, <<"validated", "compiled">>,
   <<"draft", "rejected">>, <<"validated", "rejected">>}
  \cup ({"draft", "validated", "compiled", "inactive", "rejected"} \X {"archived"})

AbstractInit ==
  /\ lifecycle = [v \in VersionIDs |-> "absent"]
  /\ serves = [s \in Scopes |-> None]

Draft(v) ==
  /\ lifecycle[v] = "absent"
  /\ lifecycle' = [lifecycle EXCEPT ![v] = "draft"]
  /\ UNCHANGED serves

Move(v) ==
  /\ <<lifecycle[v], lifecycle'[v]>> \in Review
  /\ lifecycle' = [lifecycle EXCEPT ![v] = lifecycle'[v]]
  /\ UNCHANGED serves

\* v takes over s.  The version it displaces leaves the scope in the same step;
\* it is inactive then, unless another activation record keeps it active or it
\* is of v's own set.
Serve(v, s) ==
  /\ lifecycle[v] \in {"compiled", "inactive"}
  /\ serves' = [serves EXCEPT ![s] = v]
  /\ \E left \in {"inactive", "active"} :
       lifecycle' = [w \in VersionIDs |-> IF w = v THEN "active"
                                          ELSE IF w = serves[s] THEN left
                                          ELSE lifecycle[w]]

\* s serves nothing any more: a deactivation, or an activation that is refused
\* after it has displaced what s served.
Withdraw(s) ==
  /\ serves[s] \in VersionIDs
  /\ serves' = [serves EXCEPT ![s] = None]
  /\ \E left \in {"inactive", "active"} :
       lifecycle' = [lifecycle EXCEPT ![serves[s]] = left]

\* The repository is lost with its process.
Forget ==
  /\ lifecycle' = [v \in VersionIDs |-> "absent"]
  /\ serves' = [s \in Scopes |-> None]

AbstractNext ==
  \/ \E v \in VersionIDs : Draft(v)
  \/ \E v \in VersionIDs : Move(v)
  \/ \E v \in VersionIDs, s \in Scopes : Serve(v, s)
  \/ \E s \in Scopes : Withdraw(s)
  \/ Forget

AbstractSpec == AbstractInit /\ [][AbstractNext]_abstractVars
==============================================================================
