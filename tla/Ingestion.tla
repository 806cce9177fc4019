------------------------------ MODULE Ingestion ------------------------------
(***************************************************************************)
(* The ingestion of one Kafka topic beside the replacement of runtimes: a  *)
(* topic consumer per generation fetches a record, has it routed to every  *)
(* binding of its view for the topic, one publication after the other, and *)
(* commits it.                                                             *)
(*                                                                         *)
(* The topic consumers of all generations are members of one group.  The   *)
(* group gives the partition to one of them, from the committed offset on, *)
(* but a member that loses it still ends what it has in hand, and may      *)
(* commit it late.  The stream holds a message once, by its id.            *)
(***************************************************************************)
EXTENDS ConsumerRuntime

CONSTANTS
  BindingsOf,      \* per view, its bindings for the topic, in their order
  MaxInputs        \* bound: changes of the active bindings, records and restarts of
                   \* the process, together

Bindings == UNION {{BindingsOf[view][i] : i \in DOMAIN BindingsOf[view]} : view \in Views}

ASSUME IngestionConstantsAssumption ==
  /\ BindingsOf \in [Views -> Seq(Bindings)]
  /\ \A view \in Views : BindingsOf[view] # <<>>
  /\ MaxInputs \in Nat

VARIABLES
  log,        \* the records of the partition: can a binding map them?
  committed,  \* the records the group has committed
  readers,    \* per generation: the position of its member (0: no partition), the
              \* record in hand (0: none) and the bindings it is not published to yet
  stream,     \* the published messages: {<<record, binding>>}
  restarts    \* restarts so far

ingestionVars == <<log, committed, readers, stream, restarts>>

NoReader == [position |-> 0, record |-> 0, left |-> <<>>]

-----------------------------------------------------------------------------
(* Kafka.                                                                  *)

InputsLeft == changes + Len(log) + restarts < MaxInputs

\* A producer appends a record.
Produce(mappable) ==
  /\ InputsLeft
  /\ log' = Append(log, mappable)
  /\ UNCHANGED <<committed, readers, stream, restarts, consumerVars>>

\* The group gives the partition to the member of g: it has joined last, or the one
\* that had the partition has left.  That is the same at any time before there is a
\* record to fetch.
Assign(g) ==
  /\ committed < Len(log)
  /\ runtimes[g].phase = "consuming"
  /\ \A h \in DOMAIN runtimes :
       readers[h].position # 0 => h < g
  /\ readers[g].position = 0
  /\ readers' = [h \in Generations |->
                   [readers[h] EXCEPT !.position = IF h = g THEN committed + 1 ELSE 0]]
  /\ UNCHANGED <<log, committed, stream, restarts, consumerVars>>

-----------------------------------------------------------------------------
(* TopicConsumer.Start: fetch, handle, commit.                             *)

Fetch(g) ==
  /\ readers[g].record = 0
  /\ readers[g].position \in 1 .. Len(log)
  /\ readers' = [readers EXCEPT ![g] = [position |-> @.position + 1, record |-> @.position,
                                       left |-> BindingsOf[runtimes[g].view]]]
  /\ UNCHANGED <<log, committed, stream, restarts, consumerVars>>

\* routeMessage, one binding: the record is mapped and published.
Publish(g) ==
  /\ readers[g].left # <<>>
  /\ log[readers[g].record]
  /\ stream' = stream \cup {<<readers[g].record, Head(readers[g].left)>>}
  /\ readers' = [readers EXCEPT ![g].left = Tail(@)]
  /\ UNCHANGED <<log, committed, restarts, consumerVars>>

\* The loop of the topic consumer ends with an error, its runtime fails.
EndReader(g) ==
  /\ readers' = [readers EXCEPT ![g] = NoReader]
  /\ IF runtimes[g].phase = "consuming" THEN Fail(g) ELSE UNCHANGED consumerVars
  /\ UNCHANGED <<log, committed, restarts>>

\* No binding can map the record.
Reject(g) ==
  /\ readers[g].record # 0
  /\ ~log[readers[g].record]
  /\ EndReader(g)
  /\ UNCHANGED stream

\* Mutant: a publication that fails is passed over.
PublishFailsOn(g) ==
  /\ MayFail
  /\ readers[g].left # <<>>
  /\ log[readers[g].record]
  /\ readers' = [readers EXCEPT ![g].left = Tail(@)]
  /\ UNCHANGED <<log, committed, stream, restarts, consumerVars>>

\* A publication, or the whole routing, fails or is not answered in time.  What
\* was asked of the router and the publisher may still be done, in its order.
PublishFails(g) ==
  /\ MayFail
  /\ readers[g].left # <<>>
  /\ log[readers[g].record]
  /\ \E n \in 0 .. Len(readers[g].left) :
       stream' = stream \cup {<<readers[g].record, readers[g].left[i]>> : i \in 1 .. n}
  /\ EndReader(g)

\* The record is committed.  The member may have lost the partition, or its
\* runtime may have stopped, while the record was in hand.
Commit(g) ==
  /\ readers[g].record # 0
  /\ readers[g].left = <<>>
  /\ committed' = readers[g].record
  /\ readers' = [readers EXCEPT ![g].record = 0]
  /\ UNCHANGED <<log, stream, restarts, consumerVars>>

CommitFails(g) ==
  /\ MayFail
  /\ readers[g].record # 0
  /\ readers[g].left = <<>>
  /\ EndReader(g)
  /\ UNCHANGED stream

\* KafkaTopicConsumerActor, Stopped: the reader is closed and the routing is given
\* up with its router.  A record that has been routed may still be committed.
CloseReaders ==
  readers' = [g \in Generations |->
                IF g \notin DOMAIN runtimes' \/ runtimes'[g].phase # "stopped" THEN readers[g]
                ELSE IF readers[g].left = <<>> THEN [readers[g] EXCEPT !.position = 0]
                ELSE NoReader]

-----------------------------------------------------------------------------
(* The process.                                                            *)

\* The process stops, in order or not, and starts again.
Restart ==
  /\ InputsLeft
  /\ restarts' = restarts + 1
  /\ signal' = FALSE
  /\ loop' = Loop("starting", None)
  /\ loaded' = None
  /\ supervisor' = NewSupervisor
  /\ mailbox' = <<>>
  /\ runtimes' = <<>>
  /\ readers' = [g \in Generations |-> NoReader]
  /\ UNCHANGED <<active, changes, event, log, committed, stream>>

IngestionInit ==
  /\ ConsumerInit
  /\ log = <<>>
  /\ committed = 0
  /\ readers = [g \in Generations |-> NoReader]
  /\ stream = {}
  /\ restarts = 0

ReaderStep(g) == Fetch(g) \/ Publish(g) \/ Reject(g) \/ Commit(g)

ReaderFailure(g) == PublishFails(g) \/ CommitFails(g)

IngestionNext ==
  \/ ConsumerStep /\ CloseReaders /\ UNCHANGED <<log, committed, stream, restarts>>
  \/ InputsLeft /\ BindingsChange /\ UNCHANGED ingestionVars
  \/ \E mappable \in BOOLEAN : Produce(mappable)
  \/ \E g \in DOMAIN runtimes : Assign(g) \/ ReaderStep(g) \/ ReaderFailure(g)
  \/ Restart

allVars == <<consumerVars, ingestionVars>>

\* The group assigns the partition while a member has joined, and the loops of the
\* topic consumers go on; failures and restarts need not happen.
FairIngestionSpec ==
  /\ IngestionInit
  /\ [][IngestionNext]_allVars
  /\ EngineFairness
  /\ EventFairness \/ ReconcileFairness
  /\ WF_allVars(\E g \in DOMAIN runtimes : Assign(g))
  /\ WF_allVars(\E g \in DOMAIN runtimes : ReaderStep(g))

-----------------------------------------------------------------------------
(* Properties.                                                             *)

\* Every binding of one view has the record.
Ingested(r) ==
  \E view \in Views \ Unbuildable :
    \A i \in 1 .. Len(BindingsOf[view]) : <<r, BindingsOf[view][i]>> \in stream

\* At least once: whatever is committed, by whichever generation and however late,
\* was published to every binding of the view it was routed with, and so was every
\* record before it.  A publication that fails for the second binding, a crash
\* before the commit and a rebalance with a record in hand skip nothing.
CommittedWasPublished ==
  /\ committed <= Len(log)
  /\ \A r \in 1 .. committed : log[r] /\ Ingested(r)

\* When the active bindings stay what they are, the consumer comes to consume them
\* and nothing else, says so, and publishes every record of the topic, by the events
\* or by the ticker alone and across replacements, rebalances and restarts; unless a
\* failure, such as a record that no binding can map, has stopped its supervisor.
ConsumerConverges ==
  \A x \in Views \ Unbuildable :
    <>[](active = x) =>
      <>[](\/ supervisor.status = "stopped"
           \/ /\ supervisor.ready
              /\ supervisor.signature = x
              /\ \A g \in DOMAIN runtimes : runtimes[g].phase = "consuming" => runtimes[g].view = x
              /\ \A r \in 1 .. Len(log) : Ingested(r))
==============================================================================
