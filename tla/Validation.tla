----------------------------- MODULE Validation -----------------------------
(***************************************************************************)
(* The validation of data plane messages of one scope: the JetStream        *)
(* durable, the delivery callback that asks the validation router and waits *)
(* with a timeout, the router with its pending requests, the worker pool    *)
(* and the results store.                                                   *)
(*                                                                         *)
(* The callback handles one message at a time, but a request that timed out *)
(* goes on inside the validator while the callback already delivers the     *)
(* next message, or the same one again.                                     *)
(***************************************************************************)
EXTENDS Naturals, Sequences, FiniteSets

CONSTANTS
  Messages,        \* stored data plane messages
  VersionOf,       \* the config version each message was bound to
  Undecodable,     \* the messages whose payload is not a JSON object
  MayBeGarbled,    \* the messages that may not decode as events at all
  Versions,        \* config versions
  None,            \* absence of a value
  Workers,         \* size of the worker pool
  Capacity,        \* results the store keeps
  MaxDeliver,      \* deliveries of one message before NATS gives it up
  MaxFaults        \* bound: changes of the loaded runtime and stops of the validator

\* What the callback waits for, and what a worker is given.
Callbacks  == [message : Messages, attempt : Nat]
RequestIDs == Messages \X Nat
WorkItems  == [request : RequestIDs, message : Messages, version : Versions]

ASSUME ValidationConstantsAssumption ==
  /\ VersionOf \in [Messages -> Versions]
  /\ Undecodable \subseteq Messages
  /\ MayBeGarbled \subseteq Messages
  /\ Workers \in Nat \ {0}
  /\ Capacity \in Nat \ {0}
  /\ MaxDeliver \in Nat \ {0}
  /\ MaxFaults \in Nat
  /\ None \notin Versions \cup Callbacks \cup WorkItems

WorkerIDs == 0 .. Workers - 1

VARIABLES
  garbled,     \* the messages that do not decode
  runtime,     \* version of the scope's runtime in the cache, or None
  deliveries,  \* per message, how often it was delivered
  settled,     \* per message: "no", "acked" or "terminated"
  callback,    \* the message and attempt the callback waits for, or None
  attempts,    \* attempts made so far; an attempt is the sender of one request
  routerBox,   \* mailbox of the router
  pending,     \* accepted requests that are not completed: {[request, attempt]}
  sequence,    \* the router's request counter
  nextWorker,  \* the worker that gets the next request
  works,       \* per worker, its mailbox
  waiting,     \* per worker, the work it waits for the store to record, or None
  storeBox,    \* mailbox of the store: [work, worker]
  results,     \* the stored results, newest first
  history,     \* resolved: the version the runtime had for an attempt;
               \* recorded: the messages recorded since the store started, in order;
               \* ever: the messages ever recorded
  faults       \* reloads and crashes so far

validationVars ==
  <<garbled, runtime, deliveries, settled, callback, attempts, routerBox, pending, sequence,
    nextWorker, works, waiting, storeBox, results, history, faults>>

-----------------------------------------------------------------------------
(* The durable and the callback.                                           *)

\* NATS delivers a message that is not settled; the callback decodes it, sends it
\* to the router and waits.
Deliver(m) ==
  /\ callback = None
  /\ m \notin garbled
  /\ settled[m] = "no"
  /\ deliveries[m] < MaxDeliver
  /\ deliveries' = [deliveries EXCEPT ![m] = @ + 1]
  /\ attempts' = attempts + 1
  /\ callback' = [message |-> m, attempt |-> attempts + 1]
  /\ routerBox' = Append(routerBox, [kind |-> "route", message |-> m, attempt |-> attempts + 1])
  /\ UNCHANGED <<garbled, runtime, settled, pending, sequence, nextWorker, works, waiting,
                 storeBox, results, history, faults>>

\* The callback terminates at once what does not decode, and asks nobody.  A term
\* that is lost leaves the message unsettled.
DeliverGarbled(m) ==
  /\ callback = None
  /\ m \in garbled
  /\ settled[m] = "no"
  /\ deliveries[m] < MaxDeliver
  /\ deliveries' = [deliveries EXCEPT ![m] = @ + 1]
  /\ settled' \in {settled, [settled EXCEPT ![m] = "terminated"]}
  /\ UNCHANGED <<garbled, runtime, callback, attempts, routerBox, pending, sequence,
                 nextWorker, works, waiting, storeBox, results, history, faults>>

\* The answer to an attempt.  Nobody listens any more when the callback has given
\* that attempt up; otherwise it acks, naks a retryable problem, terminates any
\* other.  An ack or term that is lost leaves the message unsettled.
Answer(attempt, problem) ==
  IF callback = None \/ callback.attempt # attempt
    THEN UNCHANGED <<callback, settled>>
    ELSE /\ callback' = None
         /\ \/ UNCHANGED settled
            \/ /\ problem # "retryable"
               /\ settled' = [settled EXCEPT ![callback.message] =
                                IF problem = "none" THEN "acked" ELSE "terminated"]

\* The callback's request times out: Unavailable, so the message is nak'ed.
CallbackTimeout ==
  /\ callback # None
  /\ callback' = None
  /\ UNCHANGED <<garbled, runtime, deliveries, settled, attempts, routerBox, pending, sequence,
                 nextWorker, works, waiting, storeBox, results, history, faults>>

-----------------------------------------------------------------------------
(* The router.                                                             *)

\* Mutant: a request is named by its message alone.
RequestIDOfMessage(m) == <<m, 0>>

\* nextRequestID
RequestID(m) == <<m, sequence + 1>>

\* route, when the cache does not answer in time or has no runtime for the scope.
RouteRefused ==
  LET head == Head(routerBox)
  IN  /\ routerBox # <<>>
      /\ head.kind = "route"
      /\ routerBox' = Tail(routerBox)
      /\ Answer(head.attempt, "retryable")
      /\ UNCHANGED <<garbled, runtime, deliveries, attempts, pending, sequence, nextWorker, works,
                     waiting, storeBox, results, history, faults>>

\* Mutant: the index runs past the pool.
NextWorkerUnwrapped == nextWorker + 1

\* nextWorkerPID: the workers take turns.
NextWorker == (nextWorker + 1) % Workers

\* route, with the runtime the cache holds now.
Route ==
  LET head == Head(routerBox)
      m    == head.message
  IN  /\ routerBox # <<>>
      /\ head.kind = "route"
      /\ runtime # None
      /\ routerBox' = Tail(routerBox)
      /\ sequence' = sequence + 1
      /\ pending' = {p \in pending : p.request # RequestID(m)}
                      \cup {[request |-> RequestID(m), attempt |-> head.attempt]}
      /\ works' = [works EXCEPT ![nextWorker] =
                     Append(@, [request |-> RequestID(m), message |-> m, version |-> runtime])]
      /\ nextWorker' = NextWorker
      /\ history' = [history EXCEPT !.resolved = @ \cup {<<head.attempt, runtime>>}]
      /\ UNCHANGED <<garbled, runtime, deliveries, settled, callback, attempts, waiting, storeBox,
                     results, faults>>

\* Mutant: the entry of a completed request stays.
CompleteKeepsPending ==
  LET head == Head(routerBox)
  IN  /\ routerBox # <<>>
      /\ head.kind = "completed"
      /\ routerBox' = Tail(routerBox)
      /\ UNCHANGED pending
      /\ \E p \in pending : p.request = head.request /\ Answer(p.attempt, head.problem)
      /\ UNCHANGED <<garbled, runtime, deliveries, attempts, sequence, nextWorker, works, waiting,
                     storeBox, results, history, faults>>

\* validationWorkCompletedMessage
Complete ==
  LET head    == Head(routerBox)
      senders == {p \in pending : p.request = head.request}
  IN  /\ routerBox # <<>>
      /\ head.kind = "completed"
      /\ routerBox' = Tail(routerBox)
      /\ pending' = pending \ senders
      /\ IF senders = {} THEN UNCHANGED <<callback, settled>>
         ELSE \E p \in senders : Answer(p.attempt, head.problem)
      /\ UNCHANGED <<garbled, runtime, deliveries, attempts, sequence, nextWorker, works, waiting,
                     storeBox, results, history, faults>>

-----------------------------------------------------------------------------
(* The workers and the store.                                              *)

\* Evaluate yields a result.  Otherwise it reports a conflict or an invalid
\* payload, neither of them retryable.  The third refusal, an operator the
\* artifact does not support, cannot arise: configctl compiles every artifact
\* with the operators of its own rules.
Evaluates(work) ==
  /\ work.version = VersionOf[work.message]
  /\ work.message \notin Undecodable

Completed(request, problem) ==
  [kind |-> "completed", request |-> request, problem |-> problem]

\* handleWork up to the request to the store.
Work(w) ==
  LET work == Head(works[w])
  IN  /\ works[w] # <<>>
      /\ waiting[w] = None
      /\ works' = [works EXCEPT ![w] = Tail(@)]
      /\ IF Evaluates(work)
           THEN /\ waiting' = [waiting EXCEPT ![w] = work]
                /\ storeBox' = Append(storeBox, [work |-> work, worker |-> w])
                /\ UNCHANGED routerBox
           ELSE /\ routerBox' = Append(routerBox, Completed(work.request, "final"))
                /\ UNCHANGED <<waiting, storeBox>>
      /\ UNCHANGED <<garbled, runtime, deliveries, settled, callback, attempts, pending, sequence,
                     nextWorker, results, history, faults>>

\* Mutant: a store that does not answer counts as recorded.
StoreTimeoutIgnored(w) ==
  /\ waiting[w] # None
  /\ routerBox' = Append(routerBox, Completed(waiting[w].request, "none"))
  /\ waiting' = [waiting EXCEPT ![w] = None]
  /\ UNCHANGED <<garbled, runtime, deliveries, settled, callback, attempts, pending, sequence,
                 nextWorker, works, storeBox, results, history, faults>>

\* The store does not answer in time; it may still record the result later.
StoreTimeout(w) ==
  /\ waiting[w] # None
  /\ routerBox' = Append(routerBox, Completed(waiting[w].request, "retryable"))
  /\ waiting' = [waiting EXCEPT ![w] = None]
  /\ UNCHANGED <<garbled, runtime, deliveries, settled, callback, attempts, pending, sequence,
                 nextWorker, works, storeBox, results, history, faults>>

\* The stored results without those of a message, in their order.
Without(stored, m) ==
  LET filtered[i \in Nat] == IF i = 0 THEN <<>>
                             ELSE IF stored[i] = m THEN filtered[i - 1]
                             ELSE Append(filtered[i - 1], stored[i])
  IN  filtered[Len(stored)]

\* Mutant: the cut at the capacity drops the newest instead of the oldest.
RecordedOldest(stored, m) ==
  LET kept == <<m>> \o Without(stored, m)
  IN  SubSeq(kept, IF Len(kept) > Capacity THEN Len(kept) - Capacity + 1 ELSE 1, Len(kept))

\* record: older results of the same message and config go, the new one comes
\* first, the oldest are cut.
Recorded(stored, m) ==
  LET kept == <<m>> \o Without(stored, m)
  IN  SubSeq(kept, 1, IF Len(kept) > Capacity THEN Capacity ELSE Len(kept))

\* The store records a result and answers; the worker, if it still waits for this
\* answer, reports the work as completed.
Record ==
  LET head == Head(storeBox)
      w    == head.worker
      m    == head.work.message
  IN  /\ storeBox # <<>>
      /\ storeBox' = Tail(storeBox)
      /\ results' = Recorded(results, m)
      /\ history' = [history EXCEPT !.recorded = Append(@, m), !.ever = @ \cup {m}]
      /\ IF waiting[w] = head.work
           THEN /\ routerBox' = Append(routerBox, Completed(head.work.request, "none"))
                /\ waiting' = [waiting EXCEPT ![w] = None]
           ELSE UNCHANGED <<routerBox, waiting>>
      /\ UNCHANGED <<garbled, runtime, deliveries, settled, callback, attempts, pending, sequence,
                     nextWorker, works, faults>>

-----------------------------------------------------------------------------
(* The environment.                                                        *)

\* The runtime cache applies an activation or evicts the scope.
Reload ==
  /\ faults < MaxFaults
  /\ runtime' \in (Versions \cup {None}) \ {runtime}
  /\ faults' = faults + 1
  /\ UNCHANGED <<garbled, deliveries, settled, callback, attempts, routerBox, pending, sequence,
                 nextWorker, works, waiting, storeBox, results, history>>

\* The validator stops and starts again: only the stream and the durable remain.
Crash ==
  /\ faults < MaxFaults
  /\ faults' = faults + 1
  /\ callback' = None
  /\ routerBox' = <<>>
  /\ pending' = {}
  /\ sequence' = 0
  /\ nextWorker' = 0
  /\ works' = [w \in WorkerIDs |-> <<>>]
  /\ waiting' = [w \in WorkerIDs |-> None]
  /\ storeBox' = <<>>
  /\ results' = <<>>
  /\ history' = [history EXCEPT !.recorded = <<>>]
  /\ UNCHANGED <<garbled, runtime, deliveries, settled, attempts>>

-----------------------------------------------------------------------------
ValidationInit ==
  /\ garbled \in SUBSET MayBeGarbled
  /\ runtime \in Versions \cup {None}
  /\ deliveries = [m \in Messages |-> 0]
  /\ settled = [m \in Messages |-> "no"]
  /\ callback = None
  /\ attempts = 0
  /\ routerBox = <<>>
  /\ pending = {}
  /\ sequence = 0
  /\ nextWorker = 0
  /\ works = [w \in WorkerIDs |-> <<>>]
  /\ waiting = [w \in WorkerIDs |-> None]
  /\ storeBox = <<>>
  /\ results = <<>>
  /\ history = [resolved |-> {}, recorded |-> <<>>, ever |-> {}]
  /\ faults = 0

ValidationNext ==
  \/ \E m \in Messages : Deliver(m) \/ DeliverGarbled(m)
  \/ CallbackTimeout
  \/ RouteRefused
  \/ Route
  \/ Complete
  \/ \E w \in WorkerIDs : Work(w)
  \/ \E w \in WorkerIDs : StoreTimeout(w)
  \/ Record
  \/ Reload
  \/ Crash

ValidationSpec == ValidationInit /\ [][ValidationNext]_validationVars

\* The engine runs every actor that has a message, and NATS delivers while the
\* callback is free.  Timeouts, reloads and crashes need not happen.
FairValidationSpec ==
  /\ ValidationSpec
  /\ WF_validationVars(\E m \in Messages : Deliver(m) \/ DeliverGarbled(m))
  /\ WF_validationVars(RouteRefused \/ Route)
  /\ WF_validationVars(Complete)
  /\ \A w \in WorkerIDs : WF_validationVars(Work(w))
  /\ WF_validationVars(Record)

-----------------------------------------------------------------------------
(* Properties.                                                             *)

\* Every variable has its type; no message is delivered more than MaxDeliver times
\* and every sender of a pending request is an attempt that was made.
ValidationTypeOK ==
  /\ garbled \subseteq MayBeGarbled
  /\ runtime \in Versions \cup {None}
  /\ deliveries \in [Messages -> 0 .. MaxDeliver]
  /\ settled \in [Messages -> {"no", "acked", "terminated"}]
  /\ callback = None \/ callback \in [message : Messages, attempt : 1 .. attempts]
  /\ attempts \in Nat
  /\ sequence \in Nat
  /\ nextWorker \in WorkerIDs
  /\ \A p \in pending : p \in [request : RequestIDs, attempt : 1 .. attempts]
  /\ \A w \in WorkerIDs :
       /\ \A i \in 1 .. Len(works[w]) : works[w][i] \in WorkItems
       /\ waiting[w] \in WorkItems \cup {None}
  /\ \A i \in 1 .. Len(storeBox) : storeBox[i] \in [work : WorkItems, worker : WorkerIDs]

\* A message is acked only after a result of it was recorded, whichever requests
\* timed out, were repeated or completed late.
AckedWasRecorded ==
  \A m \in Messages : settled[m] = "acked" => m \in history.ever

\* A message that decodes and whose payload can be read is terminated only when the attempt that the
\* callback waits for met a runtime of another version: the late completion of an
\* attempt that timed out is never taken for the answer to its repetition.
TerminatedForCause ==
  [][\A m \in Messages \ (Undecodable \cup garbled) :
       settled[m] = "no" /\ settled'[m] = "terminated" =>
         \E v \in Versions \ {VersionOf[m]} : <<callback.attempt, v>> \in history.resolved
    ]_validationVars

\* The places where the work of a pending request can be.
InFlight(request) ==
  \/ \E w \in WorkerIDs : \E i \in 1 .. Len(works[w]) : works[w][i].request = request
  \/ \E w \in WorkerIDs : waiting[w] # None /\ waiting[w].request = request
  \/ \E i \in 1 .. Len(routerBox) :
       routerBox[i].kind = "completed" /\ routerBox[i].request = request

\* The pending map never leaks: every entry still has its work or its completion on
\* the way, and no two entries have the same request.
PendingInFlight ==
  /\ \A p \in pending : InFlight(p.request)
  /\ \A p, q \in pending : p.request = q.request => p = q

\* The store holds at most Capacity results, exactly those of the messages recorded
\* last, each once, the last recorded first, however often redelivery recorded them.
StoreKeepsNewest ==
  LET log     == history.recorded
      last(m) == CHOOSE i \in 1 .. Len(log) :
                   log[i] = m /\ \A j \in i + 1 .. Len(log) : log[j] # m
      logged  == {log[i] : i \in 1 .. Len(log)}
      newer(m) == {n \in logged : last(n) > last(m)}
  IN  /\ Len(results) <= Capacity
      /\ \A i \in 1 .. Len(results) : results[i] \in Messages
      /\ \A m \in Messages, i \in 1 .. Capacity :
           (i <= Len(results) /\ results[i] = m) <=>
             (m \in logged /\ Cardinality(newer(m)) = i - 1)

\* The validator never wedges: every request the router accepted is completed and
\* leaves the pending map, and the callback is free again and again, with or
\* without timeouts.
RequestsComplete ==
  /\ \A n \in 1 .. Cardinality(Messages) * MaxDeliver :
       (\E p \in pending : p.request[2] = n) ~> (\A p \in pending : p.request[2] # n)
  /\ []<>(callback = None)

\* "The validator resolves the active runtime for the message scope, evaluates
\* rules, and stores the result": a message that decodes and whose payload can be
\* read has a result once the durable is done with it.
SettledHasResult ==
  \A m \in Messages \ (Undecodable \cup garbled) : settled[m] # "no" => m \in history.ever
==============================================================================
