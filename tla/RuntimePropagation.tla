------------------------- MODULE RuntimePropagation -------------------------
(***************************************************************************)
(* The control plane and the validator together: what Configctl serves, the *)
(* events it stores, and the RuntimeCache that follows them.                *)
(***************************************************************************)
EXTENDS Configctl

CONSTANTS MaxCrashes, MaxLostAcks, MaxMailbox, StartMayFail  \* see RuntimeCache

\* What the validator's cache holds for a scope.
Runtimes == [scope : Scopes, version : VersionIDs, activation : ActivationIDs]

\* Fewer acks are lost than MaxDeliver allows: NATS never gives up an event.
ASSUME CacheConstantsAssumption ==
  /\ MaxCrashes \in Nat
  /\ MaxLostAcks \in 0 .. 8
  /\ MaxMailbox \in Nat \ {0}
  /\ StartMayFail \in BOOLEAN
  /\ None \notin Runtimes

VARIABLES status, reply, cache, mailbox, cursor, unacked, faults  \* see RuntimeCache

INSTANCE RuntimeCache

cacheVars == <<status, reply, cache, mailbox, cursor, unacked, faults>>

propagationVars == <<vars, cacheVars>>

\* The supervisor asks configctl for the active runtime projections.
LoadFromConfigctl ==
  /\ Load(ListActiveRuntimeProjections(db))
  /\ UNCHANGED vars

PropagationInit == Init /\ CacheInit

PropagationNext ==
  \/ Next /\ UNCHANGED cacheVars
  \/ LoadFromConfigctl
  \/ CacheNext /\ UNCHANGED vars

PropagationSpec == PropagationInit /\ [][PropagationNext]_propagationVars

\* NATS goes on delivering and redelivering, the engine goes on running the cache
\* actor, and the container of a validator that ended is started again.  Nothing is
\* assumed of the requests that reach configctl.
PropagationFairness ==
  /\ WF_propagationVars(LoadFromConfigctl)
  /\ WF_propagationVars(Start /\ UNCHANGED vars)
  /\ WF_propagationVars(HandleMessage /\ UNCHANGED vars)
  /\ \A d \in Durables : WF_propagationVars(Deliver(d) /\ UNCHANGED vars)
  /\ \A d \in Durables : WF_propagationVars(Redeliver(d) /\ UNCHANGED vars)

FairPropagationSpec == PropagationSpec /\ PropagationFairness

-----------------------------------------------------------------------------
\* While no publication fails, a validator that has caught up holds for every
\* served scope exactly the runtime it serves, whatever the order in which the two
\* durables delivered, redelivered or replayed the history, however stale
\* configctl's answer was when the validator used it, and whatever was lost with a
\* mailbox in a crash.
ServedIsCached ==
  CaughtUp => \A s \in Scopes : db.byScope[s] # None => cache[s] = ServedRuntime(db, s)

\* While no publication fails and the validator stays up, no late, reordered or
\* redelivered event takes a runtime out of the cache while its scope goes on
\* serving it.
ServedStaysCached ==
  [][\A s \in Scopes :
       /\ db.byScope[s] # None
       /\ cache[s] = ServedRuntime(db, s)
       /\ db'.byScope[s] = db.byScope[s]
       /\ status' # "down"
       => cache'[s] = cache[s]]_propagationVars

\* While no publication fails, a scope that goes on serving an activation has it in
\* the validator's cache for good, unless the validator could not start what keeps
\* the cache up to date.
ServedEventuallyCached ==
  \A s \in Scopes, a \in ActivationIDs :
    <>[](db.byScope[s] = a) =>
      <>[](\/ status \in {"halted", "unsubscribed"}
           \/ cache[s] # None /\ cache[s].activation = a)

\* "The validator runtime lifecycle survives back-to-back config replacement
\* without dropping into stale runtime state": a validator that has caught up and
\* was never stopped holds the runtime of every served scope, whether the
\* replacement went through or failed and was rolled back.
ReplacementNeverStale ==
  CaughtUp /\ faults.crashes = 0 =>
    \A s \in Scopes : db.byScope[s] # None => cache[s] = ServedRuntime(db, s)
==============================================================================
