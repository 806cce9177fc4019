--------------------------- MODULE ConsumerRuntime ---------------------------
(***************************************************************************)
(* How the consumer follows the active ingestion bindings: the refresh loop *)
(* of the bootstrap actor, the supervisor with its mailbox, and the         *)
(* generations of the consumer runtime.                                     *)
(*                                                                         *)
(* A view is what configctl answers to the bindings query; views with equal *)
(* signatures are equal.  A poisoned actor handles what its mailbox already *)
(* holds, and may handle more, before it stops and poisons its children.    *)
(***************************************************************************)
EXTENDS Naturals, Sequences

CONSTANTS
  Views,           \* non-empty sets of active bindings
  Unbuildable,     \* the views no topology can be built from
  None,            \* no active binding
  MaxChanges,      \* bound: changes of the active bindings
  MaxMailbox,      \* bound: messages the supervisor has when a refresh ends
  MayFail          \* can a subscription or a runtime fail?

ASSUME ConsumerConstantsAssumption ==
  /\ Unbuildable \subseteq Views
  /\ None \notin Views
  /\ MaxChanges \in Nat
  /\ MaxMailbox \in Nat \ {0}
  /\ MayFail \in BOOLEAN

VARIABLES
  active,     \* the active bindings: a view, or None
  changes,    \* changes so far
  event,      \* is an ingestion_runtime_changed event waiting on the durable?
  signal,     \* does refreshCh hold a signal?
  loop,       \* refreshLoop: where it is, and the view it has fetched
  loaded,     \* lastSignature, or None while bootstrapped is false
  supervisor, \* its status, and its state: generation, ready, signature
  mailbox,    \* of the supervisor
  runtimes    \* per generation: its view, its phase, and whether it was poisoned

consumerVars ==
  <<active, changes, event, signal, loop, loaded, supervisor, mailbox, runtimes>>

Loop(state, view) == [state |-> state, view |-> view]

\* Messages to the supervisor.
Loaded(view)    == [kind |-> "loaded", view |-> view, generation |-> 0]
BootstrapFailed == [kind |-> "bootstrap_failed", view |-> None, generation |-> 0]
Ready(g)        == [kind |-> "ready", view |-> runtimes[g].view, generation |-> g]
Failed(g)       == [kind |-> "failed", view |-> None, generation |-> g]
Poison          == [kind |-> "poison", view |-> None, generation |-> 0]

\* A message to a supervisor that has stopped is lost.
Send(message) ==
  mailbox' = IF supervisor.status = "stopped" THEN mailbox ELSE Append(mailbox, message)

-----------------------------------------------------------------------------
(* configctl.                                                              *)

\* An activation changes the bindings and announces it.
Activate(view) ==
  /\ changes < MaxChanges
  /\ view # active
  /\ active' = view
  /\ changes' = changes + 1
  /\ event' = TRUE
  /\ UNCHANGED <<signal, loop, loaded, supervisor, mailbox, runtimes>>

\* The bindings are cleared: announced by a deactivation, not by a restart.
Clear ==
  /\ changes < MaxChanges
  /\ active # None
  /\ active' = None
  /\ changes' = changes + 1
  /\ event' \in {event, TRUE}
  /\ UNCHANGED <<signal, loop, loaded, supervisor, mailbox, runtimes>>

-----------------------------------------------------------------------------
(* The bootstrap actor.                                                    *)

\* The actor starts: the durable is subscribed, then refreshLoop makes its first
\* refresh; or the subscription fails and there is no loop.
Subscribe ==
  /\ loop.state = "starting"
  /\ \/ /\ loop' = Loop("polling", None)
        /\ UNCHANGED mailbox
     \/ /\ MayFail
        /\ loop' = Loop("stopped", None)
        /\ Send(BootstrapFailed)
  /\ UNCHANGED <<active, changes, event, signal, loaded, supervisor, runtimes>>

\* Mutant: the signal is dropped unless the loop is waiting for it.
NotifyWaiting ==
  /\ event
  /\ loop.state \notin {"starting", "stopped"}
  /\ event' = FALSE
  /\ signal' = (signal \/ loop.state = "idle")
  /\ UNCHANGED <<active, changes, loop, loaded, supervisor, mailbox, runtimes>>

\* HandleIngestionRuntimeChanged: acked whether or not refreshCh had room.
Notify ==
  /\ event
  /\ loop.state \notin {"starting", "stopped"}
  /\ event' = FALSE
  /\ signal' = TRUE
  /\ UNCHANGED <<active, changes, loop, loaded, supervisor, mailbox, runtimes>>

\* The loop takes a signal.
TakeSignal ==
  /\ loop.state = "idle"
  /\ signal
  /\ signal' = FALSE
  /\ loop' = Loop("polling", None)
  /\ UNCHANGED <<active, changes, event, loaded, supervisor, mailbox, runtimes>>

\* The reconcile ticker fires.
Tick ==
  /\ loop.state = "idle"
  /\ loop' = Loop("polling", None)
  /\ UNCHANGED <<active, changes, event, signal, loaded, supervisor, mailbox, runtimes>>

\* waitForActiveIngestionBootstrap: the query is repeated until it is answered with
\* at least one binding.
Poll ==
  /\ loop.state = "polling"
  /\ active # None
  /\ loop' = Loop("fetched", active)
  /\ UNCHANGED <<active, changes, event, signal, loaded, supervisor, mailbox, runtimes>>

\* Mutant: every refresh is reported.
RefreshAlways ==
  /\ loop.state = "fetched"
  /\ Len(mailbox) < MaxMailbox
  /\ loop' = Loop("idle", None)
  /\ IF loop.view \in Unbuildable
       THEN /\ UNCHANGED loaded
            /\ IF loaded = None THEN Send(BootstrapFailed) ELSE UNCHANGED mailbox
       ELSE /\ loaded' = loop.view
            /\ Send(Loaded(loop.view))
  /\ UNCHANGED <<active, changes, event, signal, supervisor, runtimes>>

\* Mutant: the problem of a view that cannot be built is not looked at.
RefreshUnchecked ==
  /\ loop.state = "fetched"
  /\ Len(mailbox) < MaxMailbox
  /\ loop' = Loop("idle", None)
  /\ loaded' = loop.view
  /\ IF loop.view # loaded THEN Send(Loaded(loop.view)) ELSE UNCHANGED mailbox
  /\ UNCHANGED <<active, changes, event, signal, supervisor, runtimes>>

\* The rest of refreshBootstrap.  A view that cannot be built fails the consumer
\* when it is the first one, and is ignored later.
Refresh ==
  /\ loop.state = "fetched"
  /\ Len(mailbox) < MaxMailbox
  /\ loop' = Loop("idle", None)
  /\ IF loop.view \in Unbuildable
       THEN /\ UNCHANGED loaded
            /\ IF loaded = None THEN Send(BootstrapFailed) ELSE UNCHANGED mailbox
       ELSE /\ loaded' = loop.view
            /\ IF loop.view # loaded THEN Send(Loaded(loop.view)) ELSE UNCHANGED mailbox
  /\ UNCHANGED <<active, changes, event, signal, supervisor, runtimes>>

-----------------------------------------------------------------------------
(* The supervisor.                                                         *)

\* A change of the bindings brings one more generation at most.
Generations == 1 .. MaxChanges + 1

NewRuntime(view) == [view |-> view, phase |-> "starting", poisoned |-> FALSE]

\* Mutant: the runtime that is replaced goes on.
StartRuntimeBeside(view) ==
  /\ supervisor' = [supervisor EXCEPT !.generation = @ + 1, !.ready = FALSE, !.signature = None]
  /\ runtimes' = Append(runtimes, NewRuntime(view))

\* startRuntime
StartRuntime(view) ==
  LET g == supervisor.generation
  IN  /\ supervisor' = [supervisor EXCEPT !.generation = g + 1, !.ready = FALSE, !.signature = None]
      /\ runtimes' = Append(IF g = 0 THEN runtimes ELSE [runtimes EXCEPT ![g].poisoned = TRUE],
                            NewRuntime(view))

\* Mutant: the generation of a ready message is not compared.
RuntimeIsReadyAnyway(message) ==
  supervisor' = [supervisor EXCEPT !.generation = message.generation, !.ready = TRUE,
                                   !.signature = message.view]

\* consumerRuntimeReadyMessage: stale generations are ignored.
RuntimeIsReady(message) ==
  supervisor' = IF message.generation # supervisor.generation THEN supervisor
                ELSE [supervisor EXCEPT !.ready = TRUE, !.signature = message.view]

\* Supervisor.Receive.  One poison is enough, so a second one is not queued.
HandleMessage ==
  LET message == Head(mailbox)
      rest    == Tail(mailbox)
      dying   == supervisor.status = "dying" \/ \E i \in 1 .. Len(rest) : rest[i].kind = "poison"
      poisoned == IF dying THEN rest ELSE Append(rest, Poison)
  IN  /\ mailbox # <<>>
      /\ \/ /\ message.kind = "loaded"
            /\ StartRuntime(message.view)
            /\ mailbox' = rest
         \/ /\ message.kind = "bootstrap_failed"
            /\ mailbox' = poisoned
            /\ UNCHANGED <<supervisor, runtimes>>
         \/ /\ message.kind = "ready"
            /\ RuntimeIsReady(message)
            /\ mailbox' = rest
            /\ UNCHANGED runtimes
         \/ /\ message.kind = "failed"
            /\ IF message.generation # supervisor.generation
                 THEN mailbox' = rest /\ UNCHANGED supervisor
                 ELSE /\ mailbox' = poisoned
                      /\ supervisor' = [supervisor EXCEPT !.ready = FALSE]
            /\ UNCHANGED runtimes
         \/ /\ message.kind = "poison"
            /\ supervisor' = [supervisor EXCEPT !.status = "dying"]
            /\ mailbox' = rest
            /\ UNCHANGED runtimes
      /\ UNCHANGED <<active, changes, event, signal, loop, loaded>>

\* The poisoned supervisor stops, with the bootstrap actor and every runtime.  The
\* process stays, waiting for a signal from outside.
StopSupervisor ==
  /\ supervisor.status = "dying"
  /\ supervisor' = [supervisor EXCEPT !.status = "stopped", !.ready = FALSE]
  /\ mailbox' = <<>>
  /\ loop' = Loop("stopped", None)
  /\ runtimes' = [g \in DOMAIN runtimes |-> [runtimes[g] EXCEPT !.poisoned = TRUE]]
  /\ UNCHANGED <<active, changes, event, signal, loaded>>

-----------------------------------------------------------------------------
(* The runtimes.                                                           *)

\* startTopicConsumers, once the publisher is connected.
RuntimeStarts(g) ==
  /\ runtimes[g].phase = "starting"
  /\ runtimes' = [runtimes EXCEPT ![g].phase = "consuming"]
  /\ Send(Ready(g))
  /\ UNCHANGED <<active, changes, event, signal, loop, loaded, supervisor>>

\* fail
Fail(g) ==
  /\ runtimes[g].phase \in {"starting", "consuming"}
  /\ runtimes' = [runtimes EXCEPT ![g].phase = "failed", ![g].poisoned = TRUE]
  /\ Send(Failed(g))
  /\ UNCHANGED <<active, changes, event, signal, loop, loaded, supervisor>>

\* The publisher or the topics fail at the start, or a topic consumer later.
RuntimeFails(g) == MayFail /\ Fail(g)

\* A poisoned runtime stops, with its topic consumers.
RuntimeStops(g) ==
  /\ runtimes[g].poisoned
  /\ runtimes[g].phase # "stopped"
  /\ runtimes' = [runtimes EXCEPT ![g].phase = "stopped"]
  /\ UNCHANGED <<active, changes, event, signal, loop, loaded, supervisor, mailbox>>

-----------------------------------------------------------------------------
NewSupervisor == [status |-> "alive", generation |-> 0, ready |-> FALSE, signature |-> None]

ConsumerInit ==
  /\ active \in Views \cup {None}
  /\ changes = 0
  /\ event \in BOOLEAN
  /\ signal = FALSE
  /\ loop = Loop("starting", None)
  /\ loaded = None
  /\ supervisor = NewSupervisor
  /\ mailbox = <<>>
  /\ runtimes = <<>>

BindingsChange ==
  \/ \E view \in Views : Activate(view)
  \/ Clear

ConsumerStep ==
  \/ Subscribe
  \/ Notify
  \/ TakeSignal
  \/ Tick
  \/ Poll
  \/ Refresh
  \/ HandleMessage
  \/ StopSupervisor
  \/ \E g \in DOMAIN runtimes : RuntimeStarts(g)
  \/ \E g \in DOMAIN runtimes : RuntimeFails(g)
  \/ \E g \in DOMAIN runtimes : RuntimeStops(g)

ConsumerNext == BindingsChange \/ ConsumerStep

ConsumerSpec == ConsumerInit /\ [][ConsumerNext]_consumerVars

\* The engine runs every actor that has something to do, the loop goes on, and the
\* start of a runtime ends.
EngineFairness ==
  /\ WF_consumerVars(Subscribe)
  /\ WF_consumerVars(Poll)
  /\ WF_consumerVars(Refresh)
  /\ WF_consumerVars(HandleMessage)
  /\ WF_consumerVars(StopSupervisor)
  /\ WF_consumerVars(\E g \in DOMAIN runtimes : RuntimeStarts(g) \/ RuntimeStops(g))

\* NATS delivers the events and the loop takes the signals; or the ticker fires.
\* Each is enough: the other need not happen.
EventFairness     == WF_consumerVars(Notify) /\ WF_consumerVars(TakeSignal)
ReconcileFairness == WF_consumerVars(Tick)

FairConsumerSpec ==
  ConsumerSpec /\ EngineFairness /\ (EventFairness \/ ReconcileFairness)

-----------------------------------------------------------------------------
(* Properties.                                                             *)

\* Every variable has its type; only views a topology was built from are loaded.
ConsumerTypeOK ==
  /\ active \in Views \cup {None}
  /\ changes \in 0 .. MaxChanges
  /\ event \in BOOLEAN
  /\ signal \in BOOLEAN
  /\ loop.state \in {"starting", "idle", "polling", "fetched", "stopped"}
  /\ loop.view \in Views \cup {None}
  /\ loaded \in (Views \ Unbuildable) \cup {None}
  /\ supervisor \in [status : {"alive", "dying", "stopped"}, generation : {0} \cup Generations,
                     ready : BOOLEAN, signature : Views \cup {None}]
  /\ \A g \in DOMAIN runtimes :
       runtimes[g] \in [view : Views \ Unbuildable, poisoned : BOOLEAN,
                        phase : {"starting", "consuming", "failed", "stopped"}]

\* What the supervisor reports as ready is so: the runtime of its generation has
\* started its topic consumers for the signature it reports and goes on, or the
\* message of its failure is on the way.  Late messages of replaced generations
\* change nothing.
ReadyMeansConsuming ==
  supervisor.ready =>
    LET g == supervisor.generation
    IN  /\ runtimes[g].view = supervisor.signature
        /\ \/ runtimes[g].phase = "consuming" /\ ~runtimes[g].poisoned
           \/ \E i \in 1 .. Len(mailbox) : mailbox[i] = Failed(g)

\* No two generations live on together: only the newest is not poisoned.
ReplacedIsPoisoned ==
  \A g, h \in DOMAIN runtimes : g < h => runtimes[g].poisoned

\* "No reload when the aggregate bootstrap is unchanged": a generation never has
\* the view of the generation it replaces, however events and ticks coincide.
ReloadMeansChange ==
  \A g \in DOMAIN runtimes :
    g + 1 \in DOMAIN runtimes => runtimes[g].view # runtimes[g + 1].view

\* "Runtime replacement when the active set changes": when nothing is active any
\* more, the consumer comes to consume nothing.
ClearedStopsConsuming ==
  <>[](active = None) =>
    <>[](\A g \in DOMAIN runtimes : runtimes[g].phase # "consuming")
==============================================================================
