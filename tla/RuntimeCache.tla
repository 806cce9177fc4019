---------------------------- MODULE RuntimeCache ----------------------------
(***************************************************************************)
(* The validator's view of the served runtimes: the supervisor that loads   *)
(* them from configctl when it starts, the two JetStream durables           *)
(* (config.activated and config.deactivated) and the cache actor with its   *)
(* mailbox.                                                                 *)
(*                                                                         *)
(* The durables live on NATS and survive the validator; each delivers its   *)
(* own subject in stream order, at least once, and neither waits for the    *)
(* other.  A delivery callback sends the event to the cache actor and acks  *)
(* at once, so an acked event may still be in the mailbox.                  *)
(***************************************************************************)
EXTENDS Naturals, Sequences

CONSTANTS
  Scopes,            \* normalised activation scopes
  None,              \* absence of a value
  MaxCrashes,        \* bound: how often the validator stops
  MaxLostAcks,       \* bound: acks that do not reach NATS (below MaxDeliver)
  MaxMailbox,        \* bound: events waiting in the cache actor's mailbox
  StartMayFail       \* can configctl fail to answer, or a durable fail to start?

Durables == {"activated", "deactivated"}

VARIABLES
  stream,    \* CONFIGCTL_EVENTS; written by the control plane only
  status,    \* the validator: down, bootstrapping, halted, up, up but not subscribed
  reply,     \* the projections configctl answered to the bootstrap query
  cache,     \* the runtime of every scope, or None
  mailbox,   \* events sent to the cache actor and not handled yet
  cursor,    \* per durable, the last stream position it delivered
  unacked,   \* per durable, delivered positions whose ack was lost
  faults     \* how many crashes and lost acks happened

NoRuntimes == [s \in Scopes |-> None]

-----------------------------------------------------------------------------
(* The cache actor.  A runtime is [scope, version, activation]; its          *)
(* activation's id stands for its ActivatedAt.  A version belongs to one     *)
(* config set, so equal versions have equal config sets.                     *)

Projection(event) ==
  [scope |-> event.scope, version |-> event.version, activation |-> event.activation]

\* Mutant: an event replaces the runtime, however old it is.
ApplyProjectionAlways(runtimes, projection) ==
  [runtimes EXCEPT ![projection.scope] = projection]

\* applyProjection: ignored when the scope holds a later activation.
ApplyProjection(runtimes, projection) ==
  LET current == runtimes[projection.scope]
  IN  IF current # None /\ current.activation > projection.activation
        THEN runtimes
        ELSE [runtimes EXCEPT ![projection.scope] = projection]

\* Mutant: the time of the deactivation is not compared.
EvictScopeAnyTime(runtimes, event) ==
  LET current == runtimes[event.scope]
  IN  IF current = None \/ current.version # event.version
        THEN runtimes
        ELSE [runtimes EXCEPT ![event.scope] = None]

\* evictScope: ignored when the scope holds nothing, another version, or a later
\* activation of the same version.
EvictScope(runtimes, event) ==
  LET current == runtimes[event.scope]
  IN  IF \/ current = None
         \/ current.version # event.version
         \/ current.activation > event.deactivatedAt
        THEN runtimes
        ELSE [runtimes EXCEPT ![event.scope] = None]

\* RuntimeCacheActor.Receive, for the messages that change the cache.
Receive(runtimes, event) ==
  IF event.kind = "activated" THEN ApplyProjection(runtimes, Projection(event))
                              ELSE EvictScope(runtimes, event)

HandleMessage ==
  /\ mailbox # <<>>
  /\ cache' = Receive(cache, Head(mailbox))
  /\ mailbox' = Tail(mailbox)
  /\ UNCHANGED <<status, reply, cursor, unacked, faults>>

-----------------------------------------------------------------------------
(* The supervisor.                                                         *)

\* loadRuntimeProjections: configctl has answered; the answer is not used yet.
Load(projections) ==
  /\ status = "down"
  /\ status' = "bootstrapping"
  /\ reply' = projections
  /\ UNCHANGED <<cache, mailbox, cursor, unacked, faults>>

\* configctl does not answer: the supervisor poisons itself, and the process stays
\* alive without it, waiting for a signal.
LoadFails ==
  /\ StartMayFail
  /\ status = "down"
  /\ status' = "halted"
  /\ UNCHANGED <<reply, cache, mailbox, cursor, unacked, faults>>

\* The cache after the bootstrap messages, which are in its mailbox before any
\* event: a scope occurs at most once in the answer.
Bootstrapped(projections) ==
  [s \in Scopes |->
     IF \E r \in projections : r.scope = s
       THEN CHOOSE r \in projections : r.scope = s
       ELSE None]

\* Mutant: the validator subscribes without having loaded what is served.
StartUnloaded ==
  /\ status = "bootstrapping"
  /\ cache' = NoRuntimes
  /\ reply' = {}
  /\ \/ status' = "up"
     \/ StartMayFail /\ status' = "unsubscribed"
  /\ UNCHANGED <<mailbox, cursor, unacked, faults>>

\* bootstrapRuntimeCache, then the children are spawned.  When a durable cannot
\* be started the runtime consumer alone is poisoned: the validator serves on.
Start ==
  /\ status = "bootstrapping"
  /\ cache' = Bootstrapped(reply)
  /\ reply' = {}
  /\ \/ status' = "up"
     \/ StartMayFail /\ status' = "unsubscribed"
  /\ UNCHANGED <<mailbox, cursor, unacked, faults>>

\* The process ends: cache and mailbox go with it, the durables stay.
Crash ==
  /\ status # "down"
  /\ faults.crashes < MaxCrashes
  /\ status' = "down"
  /\ reply' = {}
  /\ cache' = NoRuntimes
  /\ mailbox' = <<>>
  /\ faults' = [faults EXCEPT !.crashes = @ + 1]
  /\ UNCHANGED <<cursor, unacked>>

-----------------------------------------------------------------------------
(* The durables.                                                           *)

\* The positions of d's subject that it has not delivered yet.
Pending(d) == {i \in cursor[d] + 1 .. Len(stream) : stream[i].kind = d}

\* The callback of HandleConfigActivated and HandleConfigDeactivated: the event is
\* sent to the cache actor; then the ack reaches NATS, or it is lost.
Forward(d, i) ==
  /\ status = "up"
  /\ Len(mailbox) < MaxMailbox
  /\ mailbox' = Append(mailbox, stream[i])
  /\ \/ /\ unacked' = [unacked EXCEPT ![d] = @ \ {i}]
        /\ UNCHANGED faults
     \/ /\ faults.lostAcks < MaxLostAcks
        /\ unacked' = [unacked EXCEPT ![d] = @ \cup {i}]
        /\ faults' = [faults EXCEPT !.lostAcks = @ + 1]
  /\ UNCHANGED <<status, reply, cache>>

Deliver(d) ==
  \E i \in Pending(d) :
    /\ \A j \in Pending(d) : i <= j
    /\ Forward(d, i)
    /\ cursor' = [cursor EXCEPT ![d] = i]

\* AckWait passed without an ack.
Redeliver(d) ==
  \E i \in unacked[d] : Forward(d, i) /\ UNCHANGED cursor

-----------------------------------------------------------------------------
CacheInit ==
  /\ status = "down"
  /\ reply = {}
  /\ cache = NoRuntimes
  /\ mailbox = <<>>
  /\ cursor = [d \in Durables |-> 0]
  /\ unacked = [d \in Durables |-> {}]
  /\ faults = [crashes |-> 0, lostAcks |-> 0]

\* Every step of the validator but Load, which needs configctl's answer.
CacheNext ==
  \/ HandleMessage
  \/ LoadFails
  \/ Start
  \/ Crash
  \/ \E d \in Durables : Deliver(d)
  \/ \E d \in Durables : Redeliver(d)

\* The validator has handled every event that either durable has for it.
CaughtUp ==
  /\ status = "up"
  /\ mailbox = <<>>
  /\ \A d \in Durables : Pending(d) = {}
==============================================================================
