--------------------------- MODULE ValidationProofs ---------------------------
(***************************************************************************)
(* Proofs about the validation of data plane messages, for every set of    *)
(* messages and versions, every pool of workers and every number of         *)
(* deliveries and faults.                                                   *)
(***************************************************************************)
EXTENDS Validation, Recursion, FiniteSetTheorems, SequenceTheorems, TLAPS

-----------------------------------------------------------------------------
(* The inductive invariant.                                                *)

\* The elements of a mailbox.
Elements(box) == {box[i] : i \in 1 .. Len(box)}

Routes      == [kind : {"route"}, message : Messages, attempt : Nat]
Completions == [kind : {"completed"}, request : RequestIDs,
                problem : {"none", "final", "retryable"}]
Records     == [work : WorkItems, worker : WorkerIDs]

Entries   == [request : RequestIDs, attempt : Nat]

ValidationTypes ==
  /\ runtime \in Versions \cup {None}
  /\ deliveries \in [Messages -> 0 .. MaxDeliver]
  /\ settled \in [Messages -> {"no", "acked", "terminated"}]
  /\ callback \in Callbacks \cup {None}
  /\ attempts \in Nat
  /\ routerBox \in Seq(Routes \cup Completions)
  /\ pending \subseteq Entries
  /\ sequence \in Nat
  /\ nextWorker \in WorkerIDs
  /\ works \in [WorkerIDs -> Seq(WorkItems)]
  /\ waiting \in [WorkerIDs -> WorkItems \cup {None}]
  /\ storeBox \in Seq(Records)
  /\ history \in [resolved : SUBSET (Nat \X Versions), recorded : Seq(Messages),
                  ever : SUBSET Messages]

\* Only attempts that were made have traces.
Attempted ==
  /\ callback # None => callback.attempt \in 1 .. attempts
  /\ \A msg \in Elements(routerBox) : msg.kind = "route" => msg.attempt \in 1 .. attempts
  /\ \A p \in pending : p.attempt \in 1 .. attempts

\* An attempt is about one message, wherever it has got to.
OneMessage ==
  callback # None =>
    /\ \A msg \in Elements(routerBox) :
         msg.kind = "route" /\ msg.attempt = callback.attempt => msg.message = callback.message
    /\ \A p \in pending :
         p.attempt = callback.attempt => p.request[1] = callback.message

\* A request is named by its message and the counter, and was given its name since
\* the router started.
Named(work, last) == work.request[1] = work.message /\ work.request[2] <= last

RequestsNamed ==
  /\ \A w \in WorkerIDs : \A work \in Elements(works[w]) : Named(work, sequence)
  /\ \A w \in WorkerIDs : waiting[w] # None => Named(waiting[w], sequence)
  /\ \A msg \in Elements(routerBox) : msg.kind = "completed" => msg.request[2] <= sequence

\* What is reported as recorded was recorded.
ReportedWasRecorded ==
  /\ \A msg \in Elements(routerBox) :
       msg.kind = "completed" /\ msg.problem = "none" => msg.request[1] \in history.ever
  /\ AckedWasRecorded

\* The runtime of another version was resolved for the attempt, or the payload
\* cannot be read.
Cause(request, attempt) ==
  \/ request[1] \in Undecodable
  \/ \E v \in Versions \ {VersionOf[request[1]]} : <<attempt, v>> \in history.resolved

\* A work has the version that was resolved for the attempt behind it; one that is
\* refused for good was refused for a cause.
Explained ==
  \A p \in pending :
    /\ \A w \in WorkerIDs : \A work \in Elements(works[w]) :
         work.request = p.request => <<p.attempt, work.version>> \in history.resolved
    /\ \A msg \in Elements(routerBox) :
         msg.kind = "completed" /\ msg.problem = "final" /\ msg.request = p.request =>
           Cause(p.request, p.attempt)

ValidationInv ==
  /\ ValidationTypes
  /\ Attempted
  /\ OneMessage
  /\ RequestsNamed
  /\ ReportedWasRecorded
  /\ Explained
  /\ PendingInFlight

-----------------------------------------------------------------------------
(* Mailboxes.                                                              *)

\* A message is sent.
LEMMA Sent ==
  ASSUME NEW S, NEW box \in Seq(S), NEW e \in S
  PROVE  /\ Append(box, e) \in Seq(S)
         /\ Elements(Append(box, e)) = Elements(box) \cup {e}
<1> DEFINE longer == Append(box, e)
<1>1. /\ longer \in Seq(S)
      /\ Len(longer) = Len(box) + 1
      /\ \A i \in 1 .. Len(box) : longer[i] = box[i]
      /\ longer[Len(box) + 1] = e
      /\ Len(box) \in Nat
  BY AppendProperties, LenProperties
<1> HIDE DEF longer
<1>2. Elements(longer) = Elements(box) \cup {e}
  <2>1. ASSUME NEW x \in Elements(longer)
        PROVE  x \in Elements(box) \cup {e}
    <3>1. PICK i \in 1 .. Len(longer) : x = longer[i]
      BY DEF Elements
    <3>2. i \in 1 .. Len(box) \/ i = Len(box) + 1
      BY <1>1
    <3>3. QED
      BY <1>1, <3>1, <3>2 DEF Elements
  <2>2. ASSUME NEW x \in Elements(box)
        PROVE  x \in Elements(longer)
    <3>1. PICK i \in 1 .. Len(box) : x = box[i]
      BY DEF Elements
    <3>2. i \in 1 .. Len(longer) /\ longer[i] = x
      BY <1>1, <3>1
    <3>3. QED
      BY <3>2 DEF Elements
  <2>3. Len(box) + 1 \in 1 .. Len(longer)
    BY <1>1
  <2>4. e \in Elements(longer)
    BY <1>1, <2>3 DEF Elements
  <2>5. QED
    BY <2>1, <2>2, <2>4
<1>3. QED
  BY <1>1, <1>2 DEF longer

\* The first message is taken.
LEMMA Taken ==
  ASSUME NEW S, NEW box \in Seq(S), box # <<>>
  PROVE  /\ Head(box) \in S
         /\ Tail(box) \in Seq(S)
         /\ Elements(box) = Elements(Tail(box)) \cup {Head(box)}
         /\ Elements(box) \subseteq S
<1> DEFINE rest == Tail(box)
<1>1. /\ Head(box) \in S
      /\ Head(box) = box[1]
      /\ rest \in Seq(S)
      /\ Len(box) \in Nat \ {0}
      /\ Len(rest) = Len(box) - 1
      /\ \A i \in 1 .. Len(box) - 1 : rest[i] = box[i + 1]
      /\ \A i \in 1 .. Len(box) : box[i] \in S
  BY HeadTailProperties, EmptySeq, LenProperties, ElementOfSeq
<1> HIDE DEF rest
<1>2. ASSUME NEW x \in Elements(box)
      PROVE  x \in Elements(rest) \cup {Head(box)}
  <2>1. PICK i \in 1 .. Len(box) : x = box[i]
    BY DEF Elements
  <2>2. CASE i = 1
    BY <1>1, <2>1, <2>2
  <2>3. CASE i # 1
    <3>1. i - 1 \in 1 .. Len(rest) /\ rest[i - 1] = x
      BY <1>1, <2>1, <2>3
    <3>2. QED
      BY <3>1 DEF Elements
  <2>4. QED
    BY <2>2, <2>3
<1>3. ASSUME NEW x \in Elements(rest)
      PROVE  x \in Elements(box)
  <2>1. PICK i \in 1 .. Len(rest) : x = rest[i]
    BY DEF Elements
  <2>2. i + 1 \in 1 .. Len(box) /\ box[i + 1] = x
    BY <1>1, <2>1
  <2>3. QED
    BY <2>2 DEF Elements
<1>4. Head(box) \in Elements(box)
  <2>1. 1 \in 1 .. Len(box)
    BY <1>1
  <2>2. QED
    BY <1>1, <2>1 DEF Elements
<1>5. Elements(box) \subseteq S
  BY <1>1 DEF Elements
<1>6. QED
  BY <1>1, <1>2, <1>3, <1>4, <1>5 DEF rest

\* The elements of a mailbox are what it may hold.
LEMMA ElementTypes ==
  ASSUME NEW S, NEW box \in Seq(S)
  PROVE  Elements(box) \subseteq S
BY LenProperties, ElementOfSeq DEF Elements

\* Where the work of a request can be, by the elements of the mailboxes.
InFlightIn(boxes, wait, box, request) ==
  \/ \E w \in WorkerIDs : \E work \in Elements(boxes[w]) : work.request = request
  \/ \E w \in WorkerIDs : wait[w] # None /\ wait[w].request = request
  \/ \E msg \in Elements(box) : msg.kind = "completed" /\ msg.request = request

\* It is the same place.
LEMMA InFlightElements ==
  ASSUME NEW request
  PROVE  /\ InFlight(request) <=> InFlightIn(works, waiting, routerBox, request)
         /\ InFlight(request)' <=> InFlightIn(works', waiting', routerBox', request)
BY DEF InFlight, InFlightIn, Elements

\* The pending requests are in flight after a step, and no two have the same name.
LEMMA PendingStays ==
  ASSUME \A p \in pending' : InFlightIn(works', waiting', routerBox', p.request),
         \A p, q \in pending' : p.request = q.request => p = q
  PROVE  PendingInFlight'
BY InFlightElements DEF PendingInFlight

\* Every work and every completion names a request.
LEMMA RequestTypes ==
  ASSUME ValidationTypes
  PROVE  /\ \A w \in WorkerIDs : \A work \in Elements(works[w]) :
              work \in WorkItems /\ work.request[2] \in Nat
         /\ \A w \in WorkerIDs : waiting[w] # None =>
              waiting[w] \in WorkItems /\ waiting[w].request[2] \in Nat
         /\ \A msg \in Elements(routerBox) : msg.kind = "completed" =>
              msg \in Completions /\ msg.request[2] \in Nat
<1>1. \A work \in WorkItems : work.request[2] \in Nat
  BY DEF WorkItems, RequestIDs
<1>2. ASSUME NEW w \in WorkerIDs
      PROVE  Elements(works[w]) \subseteq WorkItems
  BY ElementTypes DEF ValidationTypes
<1>3. \A w \in WorkerIDs : waiting[w] # None => waiting[w] \in WorkItems
  BY DEF ValidationTypes
<1>4. \A msg \in Elements(routerBox) : msg.kind = "completed" => msg \in Completions
  <2>1. Elements(routerBox) \subseteq Routes \cup Completions
    BY ElementTypes DEF ValidationTypes
  <2>2. \A msg \in Routes : msg.kind # "completed"
    BY DEF Routes
  <2>3. QED
    BY <2>1, <2>2
<1>5. \A msg \in Completions : msg.request[2] \in Nat
  BY DEF Completions, RequestIDs
<1>6. QED
  BY <1>1, <1>2, <1>3, <1>4, <1>5

-----------------------------------------------------------------------------
(* The durable and the callback.                                           *)

\* The numbers of an attempt and of the next one.
LEMMA AttemptNumbers ==
  ASSUME NEW n \in Nat
  PROVE  /\ n + 1 \in 1 .. n + 1
         /\ \A k \in 1 .. n : k \in 1 .. n + 1 /\ k # n + 1
OBVIOUS

\* A message is delivered.
LEMMA DeliverKeeps ==
  ASSUME ValidationInv, NEW m \in Messages, Deliver(m)
  PROVE  ValidationInv'
<1> DEFINE route == [kind |-> "route", message |-> m, attempt |-> attempts + 1]
<1>1. /\ routerBox \in Seq(Routes \cup Completions)
      /\ attempts \in Nat
      /\ attempts' = attempts + 1
      /\ callback' = [message |-> m, attempt |-> attempts + 1]
      /\ routerBox' = Append(routerBox, route)
      /\ UNCHANGED <<runtime, settled, pending, sequence, nextWorker, works, waiting, storeBox,
                     history>>
  BY DEF Deliver, ValidationInv, ValidationTypes
<1>2. /\ route \in Routes \cup Completions
      /\ route.kind = "route"
      /\ route.message = m
      /\ route.attempt = attempts + 1
  BY <1>1 DEF Routes
<1> HIDE DEF route
<1>3. /\ routerBox' \in Seq(Routes \cup Completions)
      /\ Elements(routerBox') = Elements(routerBox) \cup {route}
  BY <1>1, <1>2, Sent
<1>4. /\ callback'.message = m
      /\ callback'.attempt = attempts + 1
      /\ callback' \in Callbacks
  BY <1>1 DEF Callbacks
<1>5. ValidationTypes'
  <2>1. deliveries' \in [Messages -> 0 .. MaxDeliver]
    <3>1. /\ deliveries \in [Messages -> 0 .. MaxDeliver]
          /\ deliveries[m] < MaxDeliver
          /\ deliveries' = [deliveries EXCEPT ![m] = @ + 1]
      BY DEF Deliver, ValidationInv, ValidationTypes
    <3>2. deliveries[m] + 1 \in 0 .. MaxDeliver
      BY <3>1, ValidationConstantsAssumption
    <3>3. QED
      BY <3>1, <3>2
  <2>2. QED
    BY <1>1, <1>3, <1>4, <2>1 DEF ValidationInv, ValidationTypes
<1>6. Attempted'
  <2>1. \A msg \in Elements(routerBox') : msg.kind = "route" => msg.attempt \in 1 .. attempts'
    BY <1>1, <1>2, <1>3, AttemptNumbers DEF ValidationInv, Attempted
  <2>2. \A p \in pending' : p.attempt \in 1 .. attempts'
    BY <1>1, AttemptNumbers DEF ValidationInv, Attempted
  <2>3. callback'.attempt \in 1 .. attempts'
    BY <1>1, <1>4, AttemptNumbers
  <2>4. QED
    BY <2>1, <2>2, <2>3 DEF Attempted
<1>7. OneMessage'
  <2>1. \A msg \in Elements(routerBox') :
          msg.kind = "route" /\ msg.attempt = callback'.attempt => msg.message = callback'.message
    <3>1. \A msg \in Elements(routerBox) : msg.kind = "route" => msg.attempt # attempts + 1
      BY <1>1, AttemptNumbers DEF ValidationInv, Attempted
    <3>2. QED
      BY <1>2, <1>3, <1>4, <3>1
  <2>2. \A p \in pending' : p.attempt # callback'.attempt
    BY <1>1, <1>4, AttemptNumbers DEF ValidationInv, Attempted
  <2>3. QED
    BY <2>1, <2>2 DEF OneMessage
<1>8. RequestsNamed'
  BY <1>1, <1>2, <1>3 DEF ValidationInv, RequestsNamed, Named
<1>9. ReportedWasRecorded'
  BY <1>1, <1>2, <1>3 DEF ValidationInv, ReportedWasRecorded, AckedWasRecorded
<1>10. Explained'
  BY <1>1, <1>2, <1>3 DEF ValidationInv, Explained, Cause
<1>11. PendingInFlight'
  <2>1. \A p \in pending : InFlightIn(works, waiting, routerBox, p.request)
    BY InFlightElements DEF ValidationInv, PendingInFlight
  <2>2. \A p \in pending' : InFlightIn(works', waiting', routerBox', p.request)
    BY <1>1, <1>3, <2>1 DEF InFlightIn
  <2>3. QED
    BY <1>1, <2>2, PendingStays DEF ValidationInv, PendingInFlight
<1>12. QED
  BY <1>5, <1>6, <1>7, <1>8, <1>9, <1>10, <1>11 DEF ValidationInv

\* A message that does not decode is delivered: it alone can be settled, and not as
\* acked.
LEMMA GarbledKeeps ==
  ASSUME ValidationInv, NEW m \in Messages, DeliverGarbled(m)
  PROVE  /\ ValidationInv'
         /\ \A n \in Messages \ garbled : settled'[n] = settled[n]
<1>1. /\ settled' \in {settled, [settled EXCEPT ![m] = "terminated"]}
      /\ m \in garbled
      /\ UNCHANGED <<runtime, callback, attempts, routerBox, pending, sequence, nextWorker, works,
                     waiting, storeBox, history>>
  BY DEF DeliverGarbled
<1>2. /\ settled' \in [Messages -> {"no", "acked", "terminated"}]
      /\ \A n \in Messages : settled'[n] = settled[n] \/ (n = m /\ settled'[n] = "terminated")
  BY <1>1 DEF ValidationInv, ValidationTypes
<1>3. deliveries' \in [Messages -> 0 .. MaxDeliver]
  <2>1. /\ deliveries \in [Messages -> 0 .. MaxDeliver]
        /\ deliveries[m] < MaxDeliver
        /\ deliveries' = [deliveries EXCEPT ![m] = @ + 1]
    BY DEF DeliverGarbled, ValidationInv, ValidationTypes
  <2>2. deliveries[m] + 1 \in 0 .. MaxDeliver
    BY <2>1, ValidationConstantsAssumption
  <2>3. QED
    BY <2>1, <2>2
<1>4. ValidationTypes'
  BY <1>1, <1>2, <1>3 DEF ValidationInv, ValidationTypes
<1>5. Attempted' /\ OneMessage' /\ RequestsNamed'
  <2>1. Attempted' /\ OneMessage'
    BY <1>1 DEF ValidationInv, Attempted, OneMessage, Elements
  <2>2. RequestsNamed'
    BY <1>1 DEF ValidationInv, RequestsNamed, Named, Elements
  <2>3. QED
    BY <2>1, <2>2
<1>6. ReportedWasRecorded'
  <2>1. \A n \in Messages : settled'[n] = "acked" => settled[n] = "acked"
    BY <1>2
  <2>2. QED
    BY <1>1, <2>1 DEF ValidationInv, ReportedWasRecorded, AckedWasRecorded, Elements
<1>7. Explained' /\ PendingInFlight'
  <2>1. Explained'
    BY <1>1 DEF ValidationInv, Explained, Cause, Elements
  <2>2. PendingInFlight'
    BY <1>1 DEF ValidationInv, PendingInFlight, InFlight
  <2>3. QED
    BY <2>1, <2>2
<1>8. \A n \in Messages \ garbled : settled'[n] = settled[n]
  BY <1>1, <1>2
<1>9. QED
  BY <1>4, <1>5, <1>6, <1>7, <1>8 DEF ValidationInv

\* A step that takes the callback away and leaves the rest alone.
LEMMA CallbackTimeoutKeeps ==
  ASSUME ValidationInv, CallbackTimeout
  PROVE  ValidationInv'
<1>1. /\ callback' = None
      /\ UNCHANGED <<runtime, deliveries, settled, attempts, routerBox, pending, sequence,
                     nextWorker, works, waiting, storeBox, history>>
  BY DEF CallbackTimeout
<1>2. ValidationTypes'
  BY <1>1 DEF ValidationInv, ValidationTypes
<1>3. Attempted' /\ OneMessage'
  BY <1>1 DEF ValidationInv, Attempted, OneMessage
<1>4. RequestsNamed' /\ ReportedWasRecorded' /\ Explained'
  BY <1>1 DEF ValidationInv, RequestsNamed, Named, ReportedWasRecorded, AckedWasRecorded,
              Explained, Cause
<1>5. PendingInFlight'
  BY <1>1 DEF ValidationInv, PendingInFlight, InFlight
<1>6. QED
  BY <1>2, <1>3, <1>4, <1>5 DEF ValidationInv

-----------------------------------------------------------------------------
(* The router.                                                             *)

\* The answer to an attempt leaves the callback waiting or takes it away, and
\* settles no message but the one the callback waits for.
LEMMA AnswerTypes ==
  ASSUME ValidationTypes, NEW attempt, NEW problem, Answer(attempt, problem)
  PROVE  /\ callback' \in {callback, None}
         /\ settled' \in [Messages -> {"no", "acked", "terminated"}]
         /\ \A m \in Messages :
              settled'[m] # settled[m] =>
                /\ callback # None
                /\ callback.attempt = attempt
                /\ callback.message = m
                /\ problem # "retryable"
                /\ settled'[m] = IF problem = "none" THEN "acked" ELSE "terminated"
<1>1. settled \in [Messages -> {"no", "acked", "terminated"}]
  BY DEF ValidationTypes
<1>2. CASE UNCHANGED <<callback, settled>>
  BY <1>1, <1>2
<1>3. CASE callback' = None /\ UNCHANGED settled
  BY <1>1, <1>3
<1>4. CASE /\ callback # None
           /\ callback.attempt = attempt
           /\ callback' = None
           /\ problem # "retryable"
           /\ settled' = [settled EXCEPT ![callback.message] =
                            IF problem = "none" THEN "acked" ELSE "terminated"]
  <2>1. callback.message \in Messages
    BY <1>4 DEF ValidationTypes, Callbacks
  <2>2. (IF problem = "none" THEN "acked" ELSE "terminated") \in {"no", "acked", "terminated"}
    OBVIOUS
  <2>3. QED
    BY <1>1, <1>4, <2>1, <2>2
<1>5. QED
  BY <1>2, <1>3, <1>4 DEF Answer

\* The cache does not answer, or has no runtime.
LEMMA RouteRefusedKeeps ==
  ASSUME ValidationInv, RouteRefused
  PROVE  ValidationInv' /\ UNCHANGED settled
<1> DEFINE head == Head(routerBox)
<1>1. /\ routerBox \in Seq(Routes \cup Completions)
      /\ routerBox # <<>>
      /\ routerBox' = Tail(routerBox)
      /\ Answer(head.attempt, "retryable")
      /\ head.kind = "route"
      /\ UNCHANGED <<runtime, deliveries, attempts, pending, sequence, nextWorker, works,
                     waiting, storeBox, history>>
  BY DEF RouteRefused, ValidationInv, ValidationTypes
<1>2. /\ routerBox' \in Seq(Routes \cup Completions)
      /\ Elements(routerBox) = Elements(routerBox') \cup {head}
  BY <1>1, Taken
<1>3. /\ callback' \in {callback, None}
      /\ UNCHANGED settled
  <2>1. /\ callback' \in {callback, None}
        /\ settled' \in [Messages -> {"no", "acked", "terminated"}]
        /\ \A m \in Messages : settled'[m] = settled[m]
    BY <1>1, AnswerTypes DEF ValidationInv
  <2>2. settled \in [Messages -> {"no", "acked", "terminated"}]
    BY DEF ValidationInv, ValidationTypes
  <2>3. QED
    BY <2>1, <2>2
<1> HIDE DEF head
<1>4. ValidationTypes'
  BY <1>1, <1>2, <1>3 DEF ValidationInv, ValidationTypes
<1>5. Attempted' /\ OneMessage'
  BY <1>1, <1>2, <1>3 DEF ValidationInv, Attempted, OneMessage
<1>6. RequestsNamed'
  BY <1>1, <1>2 DEF ValidationInv, RequestsNamed, Named
<1>7. ReportedWasRecorded' /\ Explained'
  BY <1>1, <1>2, <1>3 DEF ValidationInv, ReportedWasRecorded, AckedWasRecorded, Explained, Cause
<1>8. PendingInFlight'
  <2>1. \A p \in pending : InFlightIn(works, waiting, routerBox, p.request)
    BY InFlightElements DEF ValidationInv, PendingInFlight
  <2>2. \A p \in pending' : InFlightIn(works', waiting', routerBox', p.request)
    BY <1>1, <1>2, <2>1 DEF InFlightIn
  <2>3. QED
    BY <1>1, <2>2, PendingStays DEF ValidationInv, PendingInFlight
<1>9. QED
  BY <1>3, <1>4, <1>5, <1>6, <1>7, <1>8 DEF ValidationInv

\* A request is accepted and given to a worker.
LEMMA RouteKeeps ==
  ASSUME ValidationInv, Route
  PROVE  ValidationInv' /\ UNCHANGED settled
<1> DEFINE head    == Head(routerBox)
           m       == head.message
           request == <<m, sequence + 1>>
           entry   == [request |-> request, attempt |-> head.attempt]
           work    == [request |-> request, message |-> m, version |-> runtime]
<1>1. /\ routerBox \in Seq(Routes \cup Completions)
      /\ routerBox # <<>>
      /\ routerBox' = Tail(routerBox)
      /\ head.kind = "route"
      /\ runtime # None /\ runtime \in Versions
      /\ sequence \in Nat /\ attempts \in Nat
      /\ sequence' = sequence + 1
      /\ pending' = {p \in pending : p.request # request} \cup {entry}
      /\ works' = [works EXCEPT ![nextWorker] = Append(@, work)]
      /\ history' = [history EXCEPT !.resolved = @ \cup {<<head.attempt, runtime>>}]
      /\ UNCHANGED <<runtime, deliveries, settled, callback, attempts, waiting, storeBox>>
  BY DEF Route, RequestID, ValidationInv, ValidationTypes
<1>2. /\ head \in Routes \cup Completions
      /\ routerBox' \in Seq(Routes \cup Completions)
      /\ Elements(routerBox) = Elements(routerBox') \cup {head}
  BY <1>1, Taken
<1>3. m \in Messages /\ head.attempt \in 1 .. attempts /\ head.attempt \in Nat
  <2>1. head \in Routes
    BY <1>1, <1>2 DEF Completions
  <2>2. head.attempt \in 1 .. attempts
    BY <1>1, <1>2 DEF ValidationInv, Attempted
  <2>3. QED
    BY <2>1, <2>2 DEF Routes
<1>4. /\ request \in RequestIDs
      /\ request[1] = m
      /\ request[2] = sequence + 1
      /\ entry \in Entries
      /\ entry.request = request
      /\ entry.attempt = head.attempt
      /\ work \in WorkItems
      /\ work.request = request
      /\ work.message = m
      /\ work.version = runtime
  BY <1>1, <1>3 DEF RequestIDs, Entries, WorkItems
<1> HIDE DEF entry, work, request
<1>5. /\ works \in [WorkerIDs -> Seq(WorkItems)]
      /\ nextWorker \in WorkerIDs
      /\ works' \in [WorkerIDs -> Seq(WorkItems)]
      /\ \A w \in WorkerIDs :
           Elements(works'[w]) = IF w = nextWorker THEN Elements(works[w]) \cup {work}
                                                   ELSE Elements(works[w])
  <2>1. works \in [WorkerIDs -> Seq(WorkItems)] /\ nextWorker \in WorkerIDs
    BY DEF ValidationInv, ValidationTypes
  <2>2. /\ Append(works[nextWorker], work) \in Seq(WorkItems)
        /\ Elements(Append(works[nextWorker], work)) = Elements(works[nextWorker]) \cup {work}
    BY <1>4, <2>1, Sent
  <2>3. /\ works' \in [WorkerIDs -> Seq(WorkItems)]
        /\ \A w \in WorkerIDs : works'[w] = IF w = nextWorker THEN Append(works[nextWorker], work)
                                                              ELSE works[w]
    BY <1>1, <2>1, <2>2
  <2>4. QED
    BY <2>1, <2>2, <2>3
<1>6. /\ history' \in [resolved : SUBSET (Nat \X Versions), recorded : Seq(Messages),
                       ever : SUBSET Messages]
      /\ history'.resolved = history.resolved \cup {<<head.attempt, runtime>>}
      /\ history'.ever = history.ever
  <2>1. history \in [resolved : SUBSET (Nat \X Versions), recorded : Seq(Messages),
                     ever : SUBSET Messages]
    BY DEF ValidationInv, ValidationTypes
  <2>2. <<head.attempt, runtime>> \in Nat \X Versions
    BY <1>1, <1>3
  <2> HIDE DEF head
  <2>3. QED
    BY <1>1, <2>1, <2>2
<1>7. nextWorker' \in WorkerIDs
  <2>1. nextWorker' = (nextWorker + 1) % Workers /\ nextWorker \in 0 .. Workers - 1
    BY <1>5 DEF Route, NextWorker, WorkerIDs
  <2>2. (nextWorker + 1) % Workers \in 0 .. Workers - 1
    BY <2>1, ValidationConstantsAssumption
  <2>3. QED
    BY <2>1, <2>2 DEF WorkerIDs
<1>8. pending' \subseteq Entries
  BY <1>1, <1>4 DEF ValidationInv, ValidationTypes
<1> HIDE DEF head, m
<1>9. ValidationTypes'
  <2>1. sequence' \in Nat
    BY <1>1
  <2>2. /\ UNCHANGED <<runtime, deliveries, settled, callback, attempts, waiting, storeBox>>
        /\ routerBox' \in Seq(Routes \cup Completions)
        /\ works' \in [WorkerIDs -> Seq(WorkItems)]
    BY <1>1, <1>2, <1>5
  <2>3. QED
    BY <1>6, <1>7, <1>8, <2>1, <2>2 DEF ValidationInv, ValidationTypes
<1>10. Attempted'
  BY <1>1, <1>2, <1>3, <1>4 DEF ValidationInv, Attempted
<1>11. OneMessage'
  <2>1. callback # None /\ head.attempt = callback.attempt => m = callback.message
    BY <1>1, <1>2 DEF ValidationInv, OneMessage, m
  <2>2. QED
    BY <1>1, <1>2, <1>4, <2>1 DEF ValidationInv, OneMessage
<1>12. RequestsNamed'
  <2>1. \A n \in Nat : n <= sequence => n <= sequence'
    BY <1>1
  <2>2. \A w \in WorkerIDs : \A x \in Elements(works[w]) : Named(x, sequence) => Named(x, sequence')
    BY <2>1, RequestTypes DEF ValidationInv, Named
  <2>3. Named(work, sequence')
    BY <1>1, <1>4 DEF Named
  <2>4. ASSUME NEW w \in WorkerIDs, NEW x \in Elements(works'[w])
        PROVE  Named(x, sequence')
    <3>1. x \in Elements(works[w]) \/ x = work
      BY <1>5
    <3>2. QED
      BY <2>2, <2>3, <3>1 DEF ValidationInv, RequestsNamed
  <2>5. \A w \in WorkerIDs : waiting'[w] # None => Named(waiting'[w], sequence')
    BY <1>1, <2>1, RequestTypes DEF ValidationInv, RequestsNamed, Named
  <2>6. \A msg \in Elements(routerBox') : msg.kind = "completed" => msg.request[2] <= sequence'
    BY <1>2, <2>1, RequestTypes DEF ValidationInv, RequestsNamed
  <2>7. QED
    BY <2>4, <2>5, <2>6 DEF RequestsNamed
<1>13. ReportedWasRecorded'
  BY <1>1, <1>2, <1>6 DEF ValidationInv, ReportedWasRecorded, AckedWasRecorded
<1>14. Explained'
  <2> SUFFICES ASSUME NEW p \in pending'
               PROVE  /\ \A w \in WorkerIDs : \A x \in Elements(works'[w]) :
                           x.request = p.request => <<p.attempt, x.version>> \in history'.resolved
                      /\ \A msg \in Elements(routerBox') :
                           /\ msg.kind = "completed"
                           /\ msg.problem = "final"
                           /\ msg.request = p.request
                           => Cause(p.request, p.attempt)'
    BY DEF Explained
  <2>1. CASE p \in pending /\ p.request # request
    <3>1. Cause(p.request, p.attempt) => Cause(p.request, p.attempt)'
      BY <1>6 DEF Cause
    <3>2. ASSUME NEW w \in WorkerIDs, NEW x \in Elements(works'[w]), x.request = p.request
          PROVE  <<p.attempt, x.version>> \in history'.resolved
      <4>1. x \in Elements(works[w])
        BY <1>4, <1>5, <2>1, <3>2
      <4>2. <<p.attempt, x.version>> \in history.resolved
        BY <2>1, <3>2, <4>1 DEF ValidationInv, Explained
      <4>3. QED
        BY <1>6, <4>2
    <3>3. ASSUME NEW msg \in Elements(routerBox'), msg.kind = "completed", msg.problem = "final",
                 msg.request = p.request
          PROVE  Cause(p.request, p.attempt)'
      BY <1>2, <2>1, <3>1, <3>3 DEF ValidationInv, Explained
    <3>4. QED
      BY <3>2, <3>3
  <2>2. CASE p = entry
    <3>1. \A w \in WorkerIDs : \A x \in Elements(works[w]) : x.request # request
      <4>1. \A w \in WorkerIDs : \A x \in Elements(works[w]) :
              x.request[2] <= sequence /\ x.request[2] \in Nat
        BY RequestTypes DEF ValidationInv, RequestsNamed, Named
      <4>2. QED
        BY <1>1, <1>4, <4>1
    <3>2. \A msg \in Elements(routerBox') : msg.kind = "completed" => msg.request # request
      <4>1. \A msg \in Elements(routerBox') : msg.kind = "completed" =>
              msg.request[2] <= sequence /\ msg.request[2] \in Nat
        BY <1>2, RequestTypes DEF ValidationInv, RequestsNamed
      <4>2. QED
        BY <1>1, <1>4, <4>1
    <3>3. QED
      BY <1>4, <1>5, <1>6, <2>2, <3>1, <3>2
  <2>3. QED
    BY <1>1, <2>1, <2>2
<1>15. PendingInFlight'
  <2>1. \A p \in pending : InFlightIn(works, waiting, routerBox, p.request)
    BY InFlightElements DEF ValidationInv, PendingInFlight
  <2>2. ASSUME NEW p \in pending'
        PROVE  InFlightIn(works', waiting', routerBox', p.request)
    <3>1. CASE p \in pending
      BY <1>1, <1>2, <1>5, <2>1, <3>1 DEF InFlightIn
    <3>2. CASE p = entry
      BY <1>4, <1>5, <3>2 DEF InFlightIn
    <3>3. QED
      BY <1>1, <3>1, <3>2
  <2>3. \A p, q \in pending' : p.request = q.request => p = q
    BY <1>1, <1>4 DEF ValidationInv, PendingInFlight
  <2>4. QED
    BY <2>2, <2>3, PendingStays
<1>16. QED
  BY <1>1, <1>9, <1>10, <1>11, <1>12, <1>13, <1>14, <1>15 DEF ValidationInv

\* What a step that terminates a message has as its cause.
TerminationCaused ==
  \A m \in Messages \ (Undecodable \cup garbled) :
    settled[m] = "no" /\ settled'[m] = "terminated" =>
      \E v \in Versions \ {VersionOf[m]} : <<callback.attempt, v>> \in history.resolved

\* A completion: the sender of its request, if there is one, has its answer.
LEMMA CompleteKeeps ==
  ASSUME ValidationInv, Complete
  PROVE  ValidationInv' /\ TerminationCaused
<1> DEFINE head    == Head(routerBox)
           senders == {p \in pending : p.request = head.request}
<1>1. /\ routerBox \in Seq(Routes \cup Completions)
      /\ routerBox # <<>>
      /\ routerBox' = Tail(routerBox)
      /\ head.kind = "completed"
      /\ pending' = pending \ senders
      /\ \/ UNCHANGED <<callback, settled>>
         \/ \E p \in senders : Answer(p.attempt, head.problem)
      /\ UNCHANGED <<runtime, deliveries, attempts, sequence, nextWorker, works, waiting,
                     storeBox, history>>
  BY DEF Complete, ValidationInv, ValidationTypes
<1>2. /\ head \in Routes \cup Completions
      /\ routerBox' \in Seq(Routes \cup Completions)
      /\ Elements(routerBox) = Elements(routerBox') \cup {head}
  BY <1>1, Taken
<1> HIDE DEF head
<1>3. /\ settled \in [Messages -> {"no", "acked", "terminated"}]
      /\ callback' \in {callback, None}
      /\ settled' \in [Messages -> {"no", "acked", "terminated"}]
      /\ \A m \in Messages :
           settled'[m] # settled[m] =>
             \E p \in pending :
               /\ p.request = head.request
               /\ callback # None
               /\ callback.attempt = p.attempt
               /\ callback.message = m
               /\ head.problem # "retryable"
               /\ settled'[m] = IF head.problem = "none" THEN "acked" ELSE "terminated"
  <2>1. settled \in [Messages -> {"no", "acked", "terminated"}]
    BY DEF ValidationInv, ValidationTypes
  <2>2. CASE UNCHANGED <<callback, settled>>
    BY <2>1, <2>2
  <2>3. CASE \E p \in senders : Answer(p.attempt, head.problem)
    <3>1. PICK p \in pending : p.request = head.request /\ Answer(p.attempt, head.problem)
      BY <2>3
    <3>2. /\ callback' \in {callback, None}
          /\ settled' \in [Messages -> {"no", "acked", "terminated"}]
          /\ \A m \in Messages :
               settled'[m] # settled[m] =>
                 /\ callback # None
                 /\ callback.attempt = p.attempt
                 /\ callback.message = m
                 /\ head.problem # "retryable"
                 /\ settled'[m] = IF head.problem = "none" THEN "acked" ELSE "terminated"
      BY <3>1, AnswerTypes DEF ValidationInv
    <3>3. QED
      BY <2>1, <3>1, <3>2
  <2>4. QED
    BY <1>1, <2>2, <2>3
<1>4. ValidationTypes'
  <2>1. pending' \subseteq Entries
    BY <1>1 DEF ValidationInv, ValidationTypes
  <2>2. callback' \in Callbacks \cup {None}
    BY <1>3 DEF ValidationInv, ValidationTypes
  <2>3. QED
    BY <1>1, <1>2, <1>3, <2>1, <2>2 DEF ValidationInv, ValidationTypes
<1>5. Attempted'
  BY <1>1, <1>2, <1>3 DEF ValidationInv, Attempted
<1>6. OneMessage'
  BY <1>1, <1>2, <1>3 DEF ValidationInv, OneMessage
<1>7. RequestsNamed'
  BY <1>1, <1>2 DEF ValidationInv, RequestsNamed
<1>8. ReportedWasRecorded'
  <2>1. \A msg \in Elements(routerBox') :
          msg.kind = "completed" /\ msg.problem = "none" => msg.request[1] \in history'.ever
    BY <1>1, <1>2 DEF ValidationInv, ReportedWasRecorded
  <2>2. ASSUME NEW m \in Messages, settled'[m] = "acked"
        PROVE  m \in history.ever
    <3>1. CASE settled[m] = "acked"
      BY <3>1 DEF ValidationInv, ReportedWasRecorded, AckedWasRecorded
    <3>2. CASE settled[m] # "acked"
      <4>1. PICK p \in pending :
              /\ p.request = head.request
              /\ callback # None
              /\ callback.attempt = p.attempt
              /\ callback.message = m
              /\ settled'[m] = IF head.problem = "none" THEN "acked" ELSE "terminated"
        BY <1>3, <2>2, <3>2
      <4>2. head.problem = "none"
        BY <2>2, <4>1
      <4>3. head.request[1] \in history.ever
        BY <1>1, <1>2, <4>2 DEF ValidationInv, ReportedWasRecorded
      <4>4. p.request[1] = m
        BY <4>1 DEF ValidationInv, OneMessage
      <4>5. QED
        BY <4>1, <4>3, <4>4
    <3>3. QED
      BY <3>1, <3>2
  <2>3. QED
    BY <1>1, <2>1, <2>2 DEF ReportedWasRecorded, AckedWasRecorded
<1>9. Explained'
  <2>1. \A p \in pending' : Cause(p.request, p.attempt) => Cause(p.request, p.attempt)'
    BY <1>1 DEF Cause
  <2>2. QED
    BY <1>1, <1>2, <2>1 DEF ValidationInv, Explained
<1>10. PendingInFlight'
  <2>1. ASSUME NEW p \in pending'
        PROVE  InFlightIn(works', waiting', routerBox', p.request)
    <3>1. InFlightIn(works, waiting, routerBox, p.request) /\ p.request # head.request
      BY <1>1, InFlightElements DEF ValidationInv, PendingInFlight
    <3>2. QED
      BY <1>1, <1>2, <3>1 DEF InFlightIn
  <2>2. \A p, q \in pending' : p.request = q.request => p = q
    BY <1>1 DEF ValidationInv, PendingInFlight
  <2>3. QED
    BY <2>1, <2>2, PendingStays
<1>11. TerminationCaused
  <2> SUFFICES ASSUME NEW m \in Messages \ (Undecodable \cup garbled), settled[m] = "no", settled'[m] = "terminated"
               PROVE  \E v \in Versions \ {VersionOf[m]} : <<callback.attempt, v>> \in history.resolved
    BY DEF TerminationCaused
  <2>1. PICK p \in pending :
          /\ p.request = head.request
          /\ callback # None
          /\ callback.attempt = p.attempt
          /\ callback.message = m
          /\ head.problem # "retryable"
          /\ settled'[m] = IF head.problem = "none" THEN "acked" ELSE "terminated"
    BY <1>3
  <2>2. head.problem = "final"
    <3>1. head \in Completions
      BY <1>1, <1>2 DEF Routes
    <3>2. head.problem # "none"
      BY <2>1
    <3>3. QED
      BY <2>1, <3>1, <3>2 DEF Completions
  <2>3. Cause(p.request, p.attempt)
    BY <1>1, <1>2, <2>1, <2>2 DEF ValidationInv, Explained
  <2>4. p.request[1] = m
    BY <2>1 DEF ValidationInv, OneMessage
  <2>5. QED
    BY <2>1, <2>3, <2>4 DEF Cause
<1>12. QED
  BY <1>4, <1>5, <1>6, <1>7, <1>8, <1>9, <1>10, <1>11 DEF ValidationInv

-----------------------------------------------------------------------------
(* The workers and the store.                                              *)

\* A completion is sent to the router for a work that has its name; the rest but
\* works, waiting, storeBox and history stays.
LEMMA CompletionSent ==
  ASSUME ValidationInv, NEW request \in RequestIDs, request[2] <= sequence,
         NEW problem \in {"none", "final", "retryable"},
         routerBox' = Append(routerBox, Completed(request, problem)),
         UNCHANGED <<settled, callback, attempts, pending, sequence>>,
         history.resolved \subseteq history'.resolved, history.ever \subseteq history'.ever,
         problem = "none" => request[1] \in history'.ever,
         problem = "final" =>
           \A p \in pending : p.request = request => Cause(request, p.attempt)
  PROVE  /\ routerBox' \in Seq(Routes \cup Completions)
         /\ Elements(routerBox') = Elements(routerBox) \cup {Completed(request, problem)}
         /\ Completed(request, problem).kind = "completed"
         /\ Completed(request, problem).request = request
         /\ Attempted'
         /\ OneMessage'
         /\ ReportedWasRecorded'
         /\ \A msg \in Elements(routerBox') : msg.kind = "completed" => msg.request[2] <= sequence'
         /\ \A p \in pending' : \A msg \in Elements(routerBox') :
              msg.kind = "completed" /\ msg.problem = "final" /\ msg.request = p.request =>
                Cause(p.request, p.attempt)'
<1> DEFINE new == Completed(request, problem)
<1>1. routerBox \in Seq(Routes \cup Completions)
  BY DEF ValidationInv, ValidationTypes
<1>2. /\ new \in Routes \cup Completions
      /\ new.kind = "completed"
      /\ new.request = request
      /\ new.problem = problem
  BY DEF Completed, Completions
<1> HIDE DEF new
<1>3. /\ routerBox' \in Seq(Routes \cup Completions)
      /\ Elements(routerBox') = Elements(routerBox) \cup {new}
  BY <1>1, <1>2, Sent DEF new
<1>4. Attempted' /\ OneMessage'
  BY <1>2, <1>3 DEF ValidationInv, Attempted, OneMessage
<1>5. ReportedWasRecorded'
  BY <1>2, <1>3 DEF ValidationInv, ReportedWasRecorded, AckedWasRecorded
<1>6. \A msg \in Elements(routerBox') : msg.kind = "completed" => msg.request[2] <= sequence'
  BY <1>2, <1>3 DEF ValidationInv, RequestsNamed
<1>7. ASSUME NEW p \in pending', NEW msg \in Elements(routerBox'), msg.kind = "completed",
             msg.problem = "final", msg.request = p.request
      PROVE  Cause(p.request, p.attempt)'
  <2>1. Cause(p.request, p.attempt)
    <3>1. CASE msg \in Elements(routerBox)
      BY <1>7, <3>1 DEF ValidationInv, Explained
    <3>2. CASE msg = new
      BY <1>2, <1>7, <3>2
    <3>3. QED
      BY <1>3, <1>7, <3>1, <3>2
  <2>2. QED
    BY <2>1 DEF Cause
<1>8. QED
  BY <1>2, <1>3, <1>4, <1>5, <1>6, <1>7 DEF new

\* A worker evaluates its first work.
LEMMA WorkKeeps ==
  ASSUME ValidationInv, NEW w \in WorkerIDs, Work(w)
  PROVE  ValidationInv' /\ UNCHANGED settled
<1> DEFINE work == Head(works[w])
<1>1. /\ works \in [WorkerIDs -> Seq(WorkItems)]
      /\ works[w] \in Seq(WorkItems)
      /\ works[w] # <<>>
      /\ waiting \in [WorkerIDs -> WorkItems \cup {None}]
      /\ waiting[w] = None
      /\ works' = [works EXCEPT ![w] = Tail(works[w])]
      /\ UNCHANGED <<runtime, deliveries, settled, callback, attempts, pending, sequence,
                     nextWorker, history>>
  BY DEF Work, ValidationInv, ValidationTypes
<1>2. /\ work \in WorkItems
      /\ Tail(works[w]) \in Seq(WorkItems)
      /\ Elements(works[w]) = Elements(Tail(works[w])) \cup {work}
  BY <1>1, Taken
<1>3. /\ works' \in [WorkerIDs -> Seq(WorkItems)]
      /\ \A x \in WorkerIDs : IF x = w THEN Elements(works[w]) = Elements(works'[w]) \cup {work}
                                       ELSE works'[x] = works[x]
  BY <1>1, <1>2
<1>4. Named(work, sequence)
  BY <1>2 DEF ValidationInv, RequestsNamed
<1>5. ASSUME NEW x \in WorkerIDs
      PROVE  Elements(works'[x]) \subseteq Elements(works[x])
  BY <1>3
<1>6. /\ \A x \in WorkerIDs : \A y \in Elements(works'[x]) : Named(y, sequence')
      /\ \A p \in pending' : \A x \in WorkerIDs : \A y \in Elements(works'[x]) :
           y.request = p.request => <<p.attempt, y.version>> \in history'.resolved
  BY <1>1, <1>5 DEF ValidationInv, RequestsNamed, Explained
<1>7. CASE Evaluates(work)
  <2> DEFINE record == [work |-> work, worker |-> w]
  <2>1. /\ waiting' = [waiting EXCEPT ![w] = work]
        /\ storeBox' = Append(storeBox, record)
        /\ UNCHANGED routerBox
    BY <1>7 DEF Work
  <2>2. storeBox \in Seq(Records) /\ record \in Records
    BY <1>2 DEF ValidationInv, ValidationTypes, Records
  <2> HIDE DEF work, record
  <2>3. storeBox' \in Seq(Records)
    BY <2>1, <2>2, Sent
  <2>4. /\ waiting' \in [WorkerIDs -> WorkItems \cup {None}]
        /\ waiting'[w] = work
        /\ \A x \in WorkerIDs : x # w => waiting'[x] = waiting[x]
    BY <1>1, <1>2, <2>1
  <2>5. ValidationTypes'
    BY <1>1, <1>3, <2>1, <2>3, <2>4 DEF ValidationInv, ValidationTypes
  <2>6. Attempted' /\ OneMessage' /\ ReportedWasRecorded'
    BY <1>1, <2>1 DEF ValidationInv, Attempted, OneMessage, ReportedWasRecorded, AckedWasRecorded
  <2>7. RequestsNamed'
    BY <1>1, <1>4, <1>6, <2>1, <2>4 DEF ValidationInv, RequestsNamed
  <2>8. Explained'
    <3>1. \A p \in pending' : Cause(p.request, p.attempt) => Cause(p.request, p.attempt)'
      BY <1>1 DEF Cause
    <3>2. QED
      BY <1>1, <1>6, <2>1, <3>1 DEF ValidationInv, Explained
  <2>9. PendingInFlight'
    <3>1. work # None
      BY <1>2, ValidationConstantsAssumption
    <3>2. ASSUME NEW p \in pending'
          PROVE  InFlightIn(works', waiting', routerBox', p.request)
      <4>1. InFlightIn(works, waiting, routerBox, p.request)
        BY <1>1, InFlightElements DEF ValidationInv, PendingInFlight
      <4>2. CASE p.request = work.request
        BY <2>4, <3>1, <4>2 DEF InFlightIn
      <4>3. ASSUME NEW x \in WorkerIDs, NEW y \in Elements(works[x]), y.request = p.request,
                   p.request # work.request
            PROVE  y \in Elements(works'[x])
        BY <1>3, <4>3
      <4>4. ASSUME NEW x \in WorkerIDs, waiting[x] # None
            PROVE  waiting'[x] = waiting[x]
        BY <1>1, <2>4, <4>4
      <4>5. QED
        BY <2>1, <4>1, <4>2, <4>3, <4>4 DEF InFlightIn
    <3>3. QED
      BY <1>1, <3>2, PendingStays DEF ValidationInv, PendingInFlight
  <2>10. QED
    BY <1>1, <2>5, <2>6, <2>7, <2>8, <2>9 DEF ValidationInv
<1>8. CASE ~Evaluates(work)
  <2>1. /\ routerBox' = Append(routerBox, Completed(work.request, "final"))
        /\ UNCHANGED <<waiting, storeBox>>
    BY <1>8 DEF Work
  <2> HIDE DEF work
  <2>2. work.request \in RequestIDs /\ work.request[2] <= sequence
    BY <1>2, <1>4 DEF WorkItems, Named
  <2>3. ASSUME NEW p \in pending, p.request = work.request
        PROVE  Cause(work.request, p.attempt)
    <3>1. <<p.attempt, work.version>> \in history.resolved
      BY <1>2, <2>3 DEF ValidationInv, Explained
    <3>2. /\ work.version \in Versions
          /\ work.request[1] = work.message
          /\ \/ work.version # VersionOf[work.message]
             \/ work.message \in Undecodable
      BY <1>2, <1>4, <1>8 DEF Evaluates, Named, WorkItems
    <3>3. QED
      BY <3>1, <3>2 DEF Cause
  <2>4. /\ routerBox' \in Seq(Routes \cup Completions)
        /\ Elements(routerBox') = Elements(routerBox) \cup {Completed(work.request, "final")}
        /\ Completed(work.request, "final").kind = "completed"
        /\ Completed(work.request, "final").request = work.request
        /\ Attempted'
        /\ OneMessage'
        /\ ReportedWasRecorded'
        /\ \A msg \in Elements(routerBox') : msg.kind = "completed" => msg.request[2] <= sequence'
        /\ \A p \in pending' : \A msg \in Elements(routerBox') :
             msg.kind = "completed" /\ msg.problem = "final" /\ msg.request = p.request =>
               Cause(p.request, p.attempt)'
    BY <1>1, <2>1, <2>2, <2>3, CompletionSent
  <2>5. ValidationTypes'
    BY <1>1, <1>3, <2>1, <2>4 DEF ValidationInv, ValidationTypes
  <2>6. RequestsNamed' /\ Explained'
    BY <1>1, <1>6, <2>1, <2>4 DEF ValidationInv, RequestsNamed, Explained
  <2>7. PendingInFlight'
    <3>1. ASSUME NEW p \in pending'
          PROVE  InFlightIn(works', waiting', routerBox', p.request)
      <4>1. InFlightIn(works, waiting, routerBox, p.request)
        BY <1>1, InFlightElements DEF ValidationInv, PendingInFlight
      <4>2. CASE p.request = work.request
        BY <2>4, <4>2 DEF InFlightIn
      <4>3. CASE p.request # work.request
        BY <1>1, <1>3, <2>1, <2>4, <4>1, <4>3 DEF InFlightIn
      <4>4. QED
        BY <4>2, <4>3
    <3>2. QED
      BY <1>1, <3>1, PendingStays DEF ValidationInv, PendingInFlight
  <2>8. QED
    BY <1>1, <2>4, <2>5, <2>6, <2>7 DEF ValidationInv
<1>9. QED
  BY <1>7, <1>8

\* The store does not answer a worker in time.
LEMMA StoreTimeoutKeeps ==
  ASSUME ValidationInv, NEW w \in WorkerIDs, StoreTimeout(w)
  PROVE  ValidationInv' /\ UNCHANGED settled
<1> DEFINE work == waiting[w]
<1>1. /\ waiting \in [WorkerIDs -> WorkItems \cup {None}]
      /\ work # None
      /\ work \in WorkItems
      /\ routerBox' = Append(routerBox, Completed(work.request, "retryable"))
      /\ waiting' = [waiting EXCEPT ![w] = None]
      /\ UNCHANGED <<runtime, deliveries, settled, callback, attempts, pending, sequence,
                     nextWorker, works, storeBox, history>>
  BY DEF StoreTimeout, ValidationInv, ValidationTypes
<1>2. work.request \in RequestIDs /\ work.request[2] <= sequence
  BY <1>1 DEF ValidationInv, RequestsNamed, Named, WorkItems
<1>3. /\ routerBox' \in Seq(Routes \cup Completions)
      /\ Elements(routerBox') = Elements(routerBox) \cup {Completed(work.request, "retryable")}
      /\ Completed(work.request, "retryable").kind = "completed"
      /\ Completed(work.request, "retryable").request = work.request
      /\ Attempted'
      /\ OneMessage'
      /\ ReportedWasRecorded'
      /\ \A msg \in Elements(routerBox') : msg.kind = "completed" => msg.request[2] <= sequence'
      /\ \A p \in pending' : \A msg \in Elements(routerBox') :
           msg.kind = "completed" /\ msg.problem = "final" /\ msg.request = p.request =>
             Cause(p.request, p.attempt)'
  BY <1>1, <1>2, CompletionSent
<1>4. /\ waiting' \in [WorkerIDs -> WorkItems \cup {None}]
      /\ waiting'[w] = None
      /\ \A x \in WorkerIDs : x # w => waiting'[x] = waiting[x]
  BY <1>1
<1>5. ValidationTypes'
  BY <1>1, <1>3, <1>4 DEF ValidationInv, ValidationTypes
<1>6. RequestsNamed' /\ Explained'
  BY <1>1, <1>3, <1>4 DEF ValidationInv, RequestsNamed, Explained
<1>7. PendingInFlight'
  <2>1. ASSUME NEW p \in pending'
        PROVE  InFlightIn(works', waiting', routerBox', p.request)
    <3>1. InFlightIn(works, waiting, routerBox, p.request)
      BY <1>1, InFlightElements DEF ValidationInv, PendingInFlight
    <3>2. CASE p.request = work.request
      BY <1>3, <3>2 DEF InFlightIn
    <3>3. CASE p.request # work.request
      <4>1. \A x \in WorkerIDs : waiting[x].request = p.request => waiting'[x] = waiting[x]
        BY <1>4, <3>3
      <4>2. QED
        BY <1>1, <1>3, <3>1, <4>1 DEF InFlightIn
    <3>4. QED
      BY <3>2, <3>3
  <2>2. QED
    BY <1>1, <2>1, PendingStays DEF ValidationInv, PendingInFlight
<1>8. QED
  BY <1>1, <1>3, <1>5, <1>6, <1>7 DEF ValidationInv

\* The store records a result.
LEMMA RecordKeeps ==
  ASSUME ValidationInv, Record
  PROVE  ValidationInv' /\ UNCHANGED settled
<1> DEFINE head == Head(storeBox)
           w    == head.worker
           work == head.work
<1>1. /\ storeBox \in Seq(Records)
      /\ storeBox # <<>>
      /\ storeBox' = Tail(storeBox)
      /\ history' = [history EXCEPT !.recorded = Append(@, work.message), !.ever = @ \cup {work.message}]
      /\ UNCHANGED <<runtime, deliveries, settled, callback, attempts, pending, sequence,
                     nextWorker, works>>
  BY DEF Record, ValidationInv, ValidationTypes
<1>2. /\ storeBox' \in Seq(Records)
      /\ w \in WorkerIDs
      /\ work \in WorkItems
      /\ work.message \in Messages
      /\ work # None
  <2>1. storeBox' \in Seq(Records) /\ head \in Records
    BY <1>1, Taken
  <2>2. work \in WorkItems /\ w \in WorkerIDs
    BY <2>1 DEF Records
  <2>3. work.message \in Messages
    BY <2>2 DEF WorkItems
  <2>4. work # None
    BY <2>2, ValidationConstantsAssumption
  <2>5. QED
    BY <2>1, <2>2, <2>3, <2>4
<1>3. IF waiting[w] = work
        THEN /\ routerBox' = Append(routerBox, Completed(work.request, "none"))
             /\ waiting' = [waiting EXCEPT ![w] = None]
        ELSE UNCHANGED <<routerBox, waiting>>
  BY DEF Record
<1> HIDE DEF head, w, work
<1>4. /\ history' \in [resolved : SUBSET (Nat \X Versions), recorded : Seq(Messages),
                       ever : SUBSET Messages]
      /\ history'.resolved = history.resolved
      /\ history'.ever = history.ever \cup {work.message}
  <2>1. history \in [resolved : SUBSET (Nat \X Versions), recorded : Seq(Messages),
                     ever : SUBSET Messages]
    BY DEF ValidationInv, ValidationTypes
  <2>2. Append(history.recorded, work.message) \in Seq(Messages)
    BY <1>2, <2>1, AppendProperties
  <2>3. QED
    BY <1>1, <1>2, <2>1, <2>2
<1>5. CASE waiting[w] = work
  <2>1. /\ routerBox' = Append(routerBox, Completed(work.request, "none"))
        /\ waiting' = [waiting EXCEPT ![w] = None]
        /\ waiting \in [WorkerIDs -> WorkItems \cup {None}]
    BY <1>3, <1>5 DEF ValidationInv, ValidationTypes
  <2>2. /\ work.request \in RequestIDs
        /\ work.request[2] <= sequence
        /\ work.request[1] = work.message
    BY <1>2, <1>5 DEF ValidationInv, RequestsNamed, Named, WorkItems
  <2>3. /\ routerBox' \in Seq(Routes \cup Completions)
        /\ Elements(routerBox') = Elements(routerBox) \cup {Completed(work.request, "none")}
        /\ Completed(work.request, "none").kind = "completed"
        /\ Completed(work.request, "none").request = work.request
        /\ Attempted'
        /\ OneMessage'
        /\ ReportedWasRecorded'
        /\ \A msg \in Elements(routerBox') : msg.kind = "completed" => msg.request[2] <= sequence'
        /\ \A p \in pending' : \A msg \in Elements(routerBox') :
             msg.kind = "completed" /\ msg.problem = "final" /\ msg.request = p.request =>
               Cause(p.request, p.attempt)'
    BY <1>1, <1>4, <2>1, <2>2, CompletionSent
  <2>4. /\ waiting' \in [WorkerIDs -> WorkItems \cup {None}]
        /\ waiting'[w] = None
        /\ \A x \in WorkerIDs : x # w => waiting'[x] = waiting[x]
    BY <1>2, <2>1
  <2>5. ValidationTypes'
    BY <1>1, <1>2, <1>4, <2>3, <2>4 DEF ValidationInv, ValidationTypes
  <2>6. RequestsNamed'
    BY <1>1, <2>3, <2>4 DEF ValidationInv, RequestsNamed
  <2>7. Explained'
    BY <1>1, <1>4, <2>3 DEF ValidationInv, Explained
  <2>8. PendingInFlight'
    <3>1. ASSUME NEW p \in pending'
          PROVE  InFlightIn(works', waiting', routerBox', p.request)
      <4>1. InFlightIn(works, waiting, routerBox, p.request)
        BY <1>1, InFlightElements DEF ValidationInv, PendingInFlight
      <4>2. CASE p.request = work.request
        BY <2>3, <4>2 DEF InFlightIn
      <4>3. CASE p.request # work.request
        <5>1. \A x \in WorkerIDs : waiting[x].request = p.request => waiting'[x] = waiting[x]
          BY <1>5, <2>4, <4>3
        <5>2. QED
          BY <1>1, <2>3, <4>1, <5>1 DEF InFlightIn
      <4>4. QED
        BY <4>2, <4>3
    <3>2. QED
      BY <1>1, <3>1, PendingStays DEF ValidationInv, PendingInFlight
  <2>9. QED
    BY <1>1, <2>3, <2>5, <2>6, <2>7, <2>8 DEF ValidationInv
<1>6. CASE waiting[w] # work
  <2>1. UNCHANGED <<routerBox, waiting>>
    BY <1>3, <1>6
  <2>2. ValidationTypes'
    BY <1>1, <1>2, <1>4, <2>1 DEF ValidationInv, ValidationTypes
  <2>3. Attempted' /\ OneMessage' /\ RequestsNamed'
    BY <1>1, <2>1 DEF ValidationInv, Attempted, OneMessage, RequestsNamed
  <2>4. ReportedWasRecorded'
    BY <1>1, <1>4, <2>1 DEF ValidationInv, ReportedWasRecorded, AckedWasRecorded
  <2>5. Explained'
    <3>1. \A p \in pending' : Cause(p.request, p.attempt) => Cause(p.request, p.attempt)'
      BY <1>4 DEF Cause
    <3>2. QED
      BY <1>1, <1>4, <2>1, <3>1 DEF ValidationInv, Explained
  <2>6. PendingInFlight'
    BY <1>1, <2>1 DEF ValidationInv, PendingInFlight, InFlight
  <2>7. QED
    BY <1>1, <2>2, <2>3, <2>4, <2>5, <2>6 DEF ValidationInv
<1>7. QED
  BY <1>5, <1>6

-----------------------------------------------------------------------------
(* The environment.                                                        *)

\* The loaded runtime changes.
LEMMA ReloadKeeps ==
  ASSUME ValidationInv, Reload
  PROVE  ValidationInv' /\ UNCHANGED settled
<1>1. /\ runtime' \in Versions \cup {None}
      /\ UNCHANGED <<deliveries, settled, callback, attempts, routerBox, pending, sequence,
                     nextWorker, works, waiting, storeBox, history>>
  BY DEF Reload
<1>2. ValidationTypes'
  BY <1>1 DEF ValidationInv, ValidationTypes
<1>3. Attempted' /\ OneMessage' /\ RequestsNamed'
  BY <1>1 DEF ValidationInv, Attempted, OneMessage, RequestsNamed
<1>4. ReportedWasRecorded' /\ Explained'
  BY <1>1 DEF ValidationInv, ReportedWasRecorded, AckedWasRecorded, Explained, Cause
<1>5. PendingInFlight'
  BY <1>1 DEF ValidationInv, PendingInFlight, InFlight
<1>6. QED
  BY <1>1, <1>2, <1>3, <1>4, <1>5 DEF ValidationInv

\* The validator stops and starts again.
LEMMA CrashKeeps ==
  ASSUME ValidationInv, Crash
  PROVE  ValidationInv' /\ UNCHANGED settled
<1>1. /\ callback' = None
      /\ routerBox' = <<>>
      /\ pending' = {}
      /\ sequence' = 0
      /\ nextWorker' = 0
      /\ works' = [w \in WorkerIDs |-> <<>>]
      /\ waiting' = [w \in WorkerIDs |-> None]
      /\ storeBox' = <<>>
      /\ history' = [history EXCEPT !.recorded = <<>>]
      /\ UNCHANGED <<runtime, deliveries, settled, attempts>>
  BY DEF Crash
<1>2. /\ Elements(routerBox') = {}
      /\ \A w \in WorkerIDs : Elements(works'[w]) = {}
  BY <1>1 DEF Elements
<1>3. /\ history' \in [resolved : SUBSET (Nat \X Versions), recorded : Seq(Messages),
                       ever : SUBSET Messages]
      /\ history'.ever = history.ever
  <2>1. history \in [resolved : SUBSET (Nat \X Versions), recorded : Seq(Messages),
                     ever : SUBSET Messages]
    BY DEF ValidationInv, ValidationTypes
  <2>2. <<>> \in Seq(Messages)
    OBVIOUS
  <2>3. QED
    BY <1>1, <2>1, <2>2
<1>4. ValidationTypes'
  <2>1. nextWorker' \in WorkerIDs
    BY <1>1, ValidationConstantsAssumption DEF WorkerIDs
  <2>2. /\ routerBox' \in Seq(Routes \cup Completions)
        /\ storeBox' \in Seq(Records)
        /\ works' \in [WorkerIDs -> Seq(WorkItems)]
        /\ waiting' \in [WorkerIDs -> WorkItems \cup {None}]
    BY <1>1
  <2>3. QED
    BY <1>1, <1>3, <2>1, <2>2 DEF ValidationInv, ValidationTypes
<1>5. Attempted' /\ OneMessage' /\ RequestsNamed' /\ Explained'
  BY <1>1, <1>2 DEF Attempted, OneMessage, RequestsNamed, Explained
<1>6. ReportedWasRecorded'
  BY <1>1, <1>2, <1>3 DEF ValidationInv, ReportedWasRecorded, AckedWasRecorded
<1>7. PendingInFlight'
  BY <1>1 DEF PendingInFlight
<1>8. QED
  BY <1>1, <1>4, <1>5, <1>6, <1>7 DEF ValidationInv

-----------------------------------------------------------------------------
(* The theorems.                                                           *)

\* The invariant holds at first.
LEMMA InitEstablishes ==
  ASSUME ValidationInit
  PROVE  ValidationInv
<1>1. /\ Elements(routerBox) = {}
      /\ \A w \in WorkerIDs : Elements(works[w]) = {}
  BY DEF ValidationInit, Elements
<1>2. ValidationTypes
  <2>1. 0 \in 0 .. MaxDeliver /\ 0 \in WorkerIDs
    BY ValidationConstantsAssumption DEF WorkerIDs
  <2>2. /\ routerBox \in Seq(Routes \cup Completions)
        /\ storeBox \in Seq(Records)
        /\ works \in [WorkerIDs -> Seq(WorkItems)]
        /\ waiting \in [WorkerIDs -> WorkItems \cup {None}]
    BY DEF ValidationInit
  <2>3. history \in [resolved : SUBSET (Nat \X Versions), recorded : Seq(Messages),
                     ever : SUBSET Messages]
    BY DEF ValidationInit
  <2>4. QED
    BY <2>1, <2>2, <2>3 DEF ValidationInit, ValidationTypes
<1>3. Attempted /\ OneMessage /\ RequestsNamed /\ Explained
  BY <1>1 DEF ValidationInit, Attempted, OneMessage, RequestsNamed, Explained
<1>4. ReportedWasRecorded /\ PendingInFlight
  BY <1>1 DEF ValidationInit, ReportedWasRecorded, AckedWasRecorded, PendingInFlight
<1>5. QED
  BY <1>2, <1>3, <1>4 DEF ValidationInv

\* A step that settles nothing terminates nothing.
LEMMA NothingTerminated ==
  ASSUME UNCHANGED settled
  PROVE  TerminationCaused
BY DEF TerminationCaused

\* Every step keeps the invariant, and terminates a message for a cause only.
LEMMA NextKeeps ==
  ASSUME ValidationInv, [ValidationNext]_validationVars
  PROVE  ValidationInv' /\ TerminationCaused
<1>1. ASSUME NEW m \in Messages, Deliver(m)
      PROVE  ValidationInv' /\ TerminationCaused
  <2>1. UNCHANGED settled
    BY <1>1 DEF Deliver
  <2>2. QED
    BY <1>1, <2>1, DeliverKeeps, NothingTerminated
<1>2. CASE CallbackTimeout
  <2>1. UNCHANGED settled
    BY <1>2 DEF CallbackTimeout
  <2>2. QED
    BY <1>2, <2>1, CallbackTimeoutKeeps, NothingTerminated
<1>3. CASE RouteRefused \/ Route \/ Record \/ Reload \/ Crash
  BY <1>3, RouteRefusedKeeps, RouteKeeps, RecordKeeps, ReloadKeeps, CrashKeeps, NothingTerminated
<1>4. CASE Complete
  BY <1>4, CompleteKeeps
<1>5. ASSUME NEW w \in WorkerIDs, Work(w) \/ StoreTimeout(w)
      PROVE  ValidationInv' /\ TerminationCaused
  BY <1>5, WorkKeeps, StoreTimeoutKeeps, NothingTerminated
<1>6. CASE UNCHANGED validationVars
  <2>1. UNCHANGED <<runtime, deliveries, settled, callback, attempts, routerBox, pending, sequence,
                    nextWorker, works, waiting, storeBox, history>>
    BY <1>6 DEF validationVars
  <2>2. ValidationTypes' /\ Attempted' /\ OneMessage' /\ RequestsNamed'
    <3>1. ValidationTypes'
      BY <2>1 DEF ValidationInv, ValidationTypes
    <3>2. Attempted' /\ OneMessage'
      BY <2>1 DEF ValidationInv, Attempted, OneMessage, Elements
    <3>3. RequestsNamed'
      BY <2>1 DEF ValidationInv, RequestsNamed, Named, Elements
    <3>4. QED
      BY <3>1, <3>2, <3>3
  <2>3. ReportedWasRecorded' /\ Explained' /\ PendingInFlight'
    <3>1. ReportedWasRecorded'
      BY <2>1 DEF ValidationInv, ReportedWasRecorded, AckedWasRecorded, Elements
    <3>2. Explained'
      BY <2>1 DEF ValidationInv, Explained, Cause, Elements
    <3>3. PendingInFlight'
      BY <2>1 DEF ValidationInv, PendingInFlight, InFlight
    <3>4. QED
      BY <3>1, <3>2, <3>3
  <2>4. QED
    BY <2>1, <2>2, <2>3, NothingTerminated DEF ValidationInv
<1>7. ASSUME NEW m \in Messages, DeliverGarbled(m)
      PROVE  ValidationInv' /\ TerminationCaused
  <2>1. /\ ValidationInv'
        /\ \A n \in Messages \ garbled : settled'[n] = settled[n]
    BY <1>7, GarbledKeeps
  <2>2. TerminationCaused
    BY <2>1 DEF TerminationCaused
  <2>3. QED
    BY <2>1, <2>2
<1>8. QED
  BY <1>1, <1>2, <1>3, <1>4, <1>5, <1>6, <1>7 DEF ValidationNext

\* The invariant holds throughout.
LEMMA InvariantHolds == ValidationSpec => []ValidationInv
<1>1. ValidationInit => ValidationInv
  BY InitEstablishes
<1>2. ValidationInv /\ [ValidationNext]_validationVars => ValidationInv'
  BY NextKeeps
<1>3. QED
  BY <1>1, <1>2, PTL DEF ValidationSpec

\* What does not decode stays what it is.
LEMMA GarbledStays == ValidationSpec => [](garbled \subseteq MayBeGarbled)
<1>1. ValidationInit => garbled \subseteq MayBeGarbled
  BY DEF ValidationInit
<1>2. garbled \subseteq MayBeGarbled /\ [ValidationNext]_validationVars
        => (garbled \subseteq MayBeGarbled)'
  <2> SUFFICES ASSUME [ValidationNext]_validationVars
               PROVE  UNCHANGED garbled
    OBVIOUS
  <2>1. CASE \E m \in Messages : Deliver(m) \/ DeliverGarbled(m)
    BY <2>1 DEF Deliver, DeliverGarbled
  <2>2. CASE CallbackTimeout \/ RouteRefused \/ Route \/ Complete
    BY <2>2 DEF CallbackTimeout, RouteRefused, Route, Complete
  <2>3. CASE \E w \in WorkerIDs : Work(w) \/ StoreTimeout(w)
    BY <2>3 DEF Work, StoreTimeout
  <2>4. CASE Record \/ Reload \/ Crash \/ UNCHANGED validationVars
    BY <2>4 DEF Record, Reload, Crash, validationVars
  <2>5. QED
    BY <2>1, <2>2, <2>3, <2>4 DEF ValidationNext
<1>3. QED
  BY <1>1, <1>2, PTL DEF ValidationSpec

\* Every variable of the validator keeps its type, for any number of workers: the
\* round robin never leaves the pool, and every sender of a pending request is an
\* attempt that was made.
THEOREM ValidationTypeCorrect == ValidationSpec => []ValidationTypeOK
<1>1. ValidationInv /\ garbled \subseteq MayBeGarbled => ValidationTypeOK
  <2> SUFFICES ASSUME ValidationInv, garbled \subseteq MayBeGarbled
               PROVE  ValidationTypeOK
    OBVIOUS
  <2>1. callback = None \/ callback \in [message : Messages, attempt : 1 .. attempts]
    BY DEF ValidationInv, ValidationTypes, Attempted, Callbacks
  <2>2. \A p \in pending : p \in [request : RequestIDs, attempt : 1 .. attempts]
    BY DEF ValidationInv, ValidationTypes, Attempted, Entries
  <2>3. ASSUME NEW w \in WorkerIDs
        PROVE  /\ \A i \in 1 .. Len(works[w]) : works[w][i] \in WorkItems
               /\ waiting[w] \in WorkItems \cup {None}
    <3>1. works[w] \in Seq(WorkItems) /\ waiting[w] \in WorkItems \cup {None}
      BY DEF ValidationInv, ValidationTypes
    <3>2. QED
      BY <3>1, ElementOfSeq
  <2>4. \A i \in 1 .. Len(storeBox) : storeBox[i] \in [work : WorkItems, worker : WorkerIDs]
    <3>1. storeBox \in Seq(Records)
      BY DEF ValidationInv, ValidationTypes
    <3>2. QED
      BY <3>1, ElementOfSeq DEF Records
  <2>5. QED
    BY <2>1, <2>2, <2>3, <2>4 DEF ValidationInv, ValidationTypes, ValidationTypeOK
<1>2. QED
  BY <1>1, InvariantHolds, GarbledStays, PTL

\* A message is acked only after a result of it was recorded, for any number of
\* workers, timeouts, repeated deliveries and crashes.
THEOREM AckAfterRecord == ValidationSpec => []AckedWasRecorded
<1>1. ValidationInv => AckedWasRecorded
  BY DEF ValidationInv, ReportedWasRecorded
<1>2. QED
  BY <1>1, InvariantHolds, PTL

\* No entry of the pending map is without its work or its completion on the way.
THEOREM PendingNeverLeaks == ValidationSpec => []PendingInFlight
<1>1. ValidationInv => PendingInFlight
  BY DEF ValidationInv
<1>2. QED
  BY <1>1, InvariantHolds, PTL

\* A readable message is terminated only when the attempt that the callback waits
\* for met a runtime of another version, however late completions arrive.
THEOREM TerminationHasCause == ValidationSpec => TerminatedForCause
<1>1. ValidationInv /\ [ValidationNext]_validationVars => [TerminationCaused]_validationVars
  BY NextKeeps
<1>2. ValidationSpec => [][TerminationCaused]_validationVars
  BY <1>1, InvariantHolds, PTL DEF ValidationSpec
<1>3. QED
  BY <1>2 DEF TerminatedForCause, TerminationCaused
-----------------------------------------------------------------------------
(* The filter of the store.                                                *)

\* f[i] is what is left of the first i results.
Filters(f, stored, m) ==
  /\ Without(stored, m) = f[Len(stored)]
  /\ f[0] = <<>>
  /\ \A i \in Nat \ {0} :
       f[i] = IF stored[i] = m THEN f[i - 1] ELSE Append(f[i - 1], stored[i])

\* The filter of the store meets the results one after the other.
LEMMA FilterUnfolds ==
  ASSUME NEW stored, NEW m
  PROVE  \E f : Filters(f, stored, m)
<1> DEFINE filtered[i \in Nat] == IF i = 0 THEN <<>>
                                  ELSE IF stored[i] = m THEN filtered[i - 1]
                                  ELSE Append(filtered[i - 1], stored[i])
           E == {stored[i] : i \in Nat}
           F == [i \in Nat |-> [s \in Seq(E) |-> IF stored[i] = m THEN s
                                                 ELSE Append(s, stored[i])]]
           A == Seq(E)
           base == <<>>
<1>1. Without(stored, m) = filtered[Len(stored)]
  BY DEF Without
<1>2. base \in A /\ F \in [Nat -> [A -> A]]
  OBVIOUS
<1>3. \E f \in [Nat -> A] : Recursive(f, base, F)
  <2> HIDE DEF F, A, base
  <2>1. QED
    BY <1>2, RecursionExists
<1>4. \E f : f = [i \in Nat |-> IF i = 0 THEN <<>>
                                ELSE IF stored[i] = m THEN f[i - 1]
                                ELSE Append(f[i - 1], stored[i])]
  <2>1. PICK f \in [Nat -> A] : Recursive(f, base, F)
    BY <1>3
  <2>2. f[0] = base /\ \A i \in Nat \ {0} : i - 1 \in Nat /\ f[i - 1] \in A /\ f[i] = F[i][f[i - 1]]
    <3>1. f[0] = base /\ \A i \in Nat \ {0} : f[i] = F[i][f[i - 1]]
      BY <2>1 DEF Recursive
    <3> HIDE DEF F, A
    <3>2. QED
      BY <2>1, <3>1
  <2>3. ASSUME NEW i \in Nat \ {0}
        PROVE  f[i] = IF stored[i] = m THEN f[i - 1] ELSE Append(f[i - 1], stored[i])
    BY <2>2
  <2>4. \A i \in Nat : f[i] = IF i = 0 THEN <<>>
                              ELSE IF stored[i] = m THEN f[i - 1]
                              ELSE Append(f[i - 1], stored[i])
    BY <2>2, <2>3
  <2>5. f = [i \in Nat |-> f[i]]
    BY <2>1
  <2>6. QED
    BY <2>4, <2>5
<1>5. filtered = [i \in Nat |-> IF i = 0 THEN <<>>
                                ELSE IF stored[i] = m THEN filtered[i - 1]
                                ELSE Append(filtered[i - 1], stored[i])]
  BY <1>4
<1> HIDE DEF filtered
<1>6. Filters(filtered, stored, m)
  BY <1>1, <1>5 DEF Filters
<1>7. QED
  BY <1>6

\* A message that is stored once, at p, is taken out; one that is not stored (p is
\* past the end) changes nothing.
LEMMA FilterTakesOut ==
  ASSUME NEW M, NEW stored \in Seq(M), NEW m, NEW p \in 1 .. Len(stored) + 1,
         \A i \in 1 .. Len(stored) : stored[i] = m <=> i = p
  PROVE  /\ Without(stored, m) \in Seq(M)
         /\ Len(Without(stored, m)) = IF p <= Len(stored) THEN Len(stored) - 1 ELSE Len(stored)
         /\ \A i \in 1 .. Len(Without(stored, m)) :
              Without(stored, m)[i] = stored[IF i < p THEN i ELSE i + 1]
<1>0. PICK f : Filters(f, stored, m)
  BY FilterUnfolds
<1>1. /\ Without(stored, m) = f[Len(stored)]
      /\ f[0] = <<>>
      /\ \A i \in Nat \ {0} :
           f[i] = IF stored[i] = m THEN f[i - 1] ELSE Append(f[i - 1], stored[i])
  BY <1>0 DEF Filters
<1> DEFINE T == {n \in Nat : n <= Len(stored) =>
                   /\ f[n] \in Seq(M)
                   /\ Len(f[n]) = IF p <= n THEN n - 1 ELSE n
                   /\ \A i \in 1 .. Len(f[n]) : f[n][i] = stored[IF i < p THEN i ELSE i + 1]}
<1>2. 0 \in T
  <2>1. f[0] \in Seq(M) /\ Len(f[0]) = 0
    BY <1>1
  <2>2. QED
    BY <2>1
<1>3. ASSUME NEW n \in Nat, n \in T PROVE n + 1 \in T
  <2> SUFFICES ASSUME n + 1 <= Len(stored)
               PROVE  /\ f[n + 1] \in Seq(M)
                      /\ Len(f[n + 1]) = IF p <= n + 1 THEN (n + 1) - 1 ELSE n + 1
                      /\ \A i \in 1 .. Len(f[n + 1]) :
                           f[n + 1][i] = stored[IF i < p THEN i ELSE i + 1]
    OBVIOUS
  <2>1. /\ f[n] \in Seq(M)
        /\ Len(f[n]) = IF p <= n THEN n - 1 ELSE n
        /\ \A i \in 1 .. Len(f[n]) : f[n][i] = stored[IF i < p THEN i ELSE i + 1]
    BY <1>3
  <2>2. f[n + 1] = IF stored[n + 1] = m THEN f[n] ELSE Append(f[n], stored[n + 1])
    BY <1>1
  <2>3. n + 1 \in 1 .. Len(stored) /\ stored[n + 1] \in M
    OBVIOUS
  <2>4. CASE n + 1 = p
    <3>1. f[n + 1] = f[n]
      BY <2>2, <2>3, <2>4
    <3>2. QED
      BY <2>1, <2>4, <3>1
  <2>5. CASE n + 1 # p
    <3>1. f[n + 1] = Append(f[n], stored[n + 1])
      BY <2>2, <2>3, <2>5
    <3>2. /\ f[n + 1] \in Seq(M)
          /\ Len(f[n + 1]) = Len(f[n]) + 1
          /\ \A i \in 1 .. Len(f[n]) : f[n + 1][i] = f[n][i]
          /\ f[n + 1][Len(f[n]) + 1] = stored[n + 1]
      BY <2>1, <2>3, <3>1, AppendProperties
    <3>3. Len(f[n + 1]) = IF p <= n + 1 THEN (n + 1) - 1 ELSE n + 1
      BY <2>1, <2>5, <3>2
    <3>4. ASSUME NEW i \in 1 .. Len(f[n + 1])
          PROVE  f[n + 1][i] = stored[IF i < p THEN i ELSE i + 1]
      <4>1. CASE i \in 1 .. Len(f[n])
        BY <2>1, <3>2, <4>1
      <4>2. CASE i = Len(f[n]) + 1
        <5>1. n + 1 = IF i < p THEN i ELSE i + 1
          BY <2>1, <2>5, <4>2
        <5>2. QED
          BY <3>2, <4>2, <5>1
      <4>3. i \in 1 .. Len(f[n]) \/ i = Len(f[n]) + 1
        BY <2>1, <3>2
      <4>4. QED
        BY <4>1, <4>2, <4>3
    <3>5. QED
      BY <3>2, <3>3, <3>4
  <2>6. QED
    BY <2>4, <2>5
<1>4. Nat \subseteq T
  <2> HIDE DEF T
  <2>1. QED
    BY <1>2, <1>3, SetInduction
<1>5. Len(stored) \in Nat /\ Len(stored) \in T
  BY <1>4
<1>6. QED
  BY <1>1, <1>5
-----------------------------------------------------------------------------
(* The log of what was recorded.                                           *)

\* The messages of a log, where each was recorded last, and those recorded after it.
Logged(log)    == {log[i] : i \in 1 .. Len(log)}
LastOf(log, m) == CHOOSE i \in 1 .. Len(log) :
                    log[i] = m /\ \A j \in i + 1 .. Len(log) : log[j] # m
Newer(log, m)  == {n \in Logged(log) : LastOf(log, n) > LastOf(log, m)}
Rank(log, m)   == Cardinality(Newer(log, m))

\* A logged message was recorded a last time.
LEMMA LastExists ==
  ASSUME NEW S, NEW log \in Seq(S), NEW m \in Logged(log)
  PROVE  /\ LastOf(log, m) \in 1 .. Len(log)
         /\ log[LastOf(log, m)] = m
         /\ \A j \in LastOf(log, m) + 1 .. Len(log) : log[j] # m
<1> DEFINE D == {d \in Nat : d < Len(log) /\ log[Len(log) - d] = m}
<1>1. D \subseteq Nat /\ D # {}
  <2>1. PICK i \in 1 .. Len(log) : log[i] = m
    BY DEF Logged
  <2>2. Len(log) - i \in D
    <3>1. Len(log) \in Nat /\ Len(log) - (Len(log) - i) = i
      OBVIOUS
    <3>2. QED
      BY <2>1, <3>1
  <2>3. QED
    BY <2>2
<1>2. PICK d \in D : \A e \in D : d <= e
  <2> HIDE DEF D
  <2>1. QED
    BY <1>1, LeastOf
<1> DEFINE k == Len(log) - d
<1>3. k \in 1 .. Len(log) /\ log[k] = m
  OBVIOUS
<1>4. ASSUME NEW j \in k + 1 .. Len(log) PROVE log[j] # m
  <2>1. Len(log) - j \in Nat /\ Len(log) - j < d /\ Len(log) - (Len(log) - j) = j
    BY <1>3
  <2>2. Len(log) - j \notin D
    BY <1>2, <2>1
  <2>3. QED
    BY <1>3, <2>1, <2>2
<1>5. \E i \in 1 .. Len(log) : log[i] = m /\ \A j \in i + 1 .. Len(log) : log[j] # m
  BY <1>3, <1>4
<1>6. QED
  BY <1>5 DEF LastOf

\* Nothing but its last index has those properties.
LEMMA LastIsUnique ==
  ASSUME NEW S, NEW log \in Seq(S), NEW i \in 1 .. Len(log),
         \A j \in i + 1 .. Len(log) : log[j] # log[i]
  PROVE  LastOf(log, log[i]) = i
<1>1. log[i] \in Logged(log)
  BY DEF Logged
<1> DEFINE k == LastOf(log, log[i])
<1>2. /\ k \in 1 .. Len(log)
      /\ log[k] = log[i]
      /\ \A j \in k + 1 .. Len(log) : log[j] # log[i]
  BY <1>1, LastExists
<1> HIDE DEF k
<1>3. ~ (k < i) /\ ~ (i < k)
  BY <1>2
<1>4. k = i
  BY <1>2, <1>3
<1>5. QED
  BY <1>4 DEF k

\* What recording one more message does to the log.
LEMMA LogGrows ==
  ASSUME NEW S, NEW log \in Seq(S), NEW x \in S
  PROVE  /\ Append(log, x) \in Seq(S)
         /\ Logged(Append(log, x)) = Logged(log) \cup {x}
         /\ LastOf(Append(log, x), x) = Len(log) + 1
         /\ \A m \in Logged(log) \ {x} : LastOf(Append(log, x), m) = LastOf(log, m)
<1> DEFINE longer == Append(log, x)
<1>1. /\ longer \in Seq(S)
      /\ Len(longer) = Len(log) + 1
      /\ \A i \in 1 .. Len(log) : longer[i] = log[i]
      /\ longer[Len(log) + 1] = x
      /\ Len(log) \in Nat
  BY AppendProperties, LenProperties
<1> HIDE DEF longer
<1>2. Logged(longer) = Logged(log) \cup {x}
  <2>1. ASSUME NEW m \in Logged(longer)
        PROVE  m \in Logged(log) \cup {x}
    <3>1. PICK i \in 1 .. Len(longer) : m = longer[i]
      BY DEF Logged
    <3>2. i \in 1 .. Len(log) \/ i = Len(log) + 1
      BY <1>1
    <3>3. QED
      BY <1>1, <3>1, <3>2 DEF Logged
  <2>2. ASSUME NEW m \in Logged(log)
        PROVE  m \in Logged(longer)
    <3>1. PICK i \in 1 .. Len(log) : m = log[i]
      BY DEF Logged
    <3>2. i \in 1 .. Len(longer) /\ m = longer[i]
      BY <1>1, <3>1
    <3>3. QED
      BY <3>2 DEF Logged
  <2>3. x \in Logged(longer)
    <3>1. Len(log) + 1 \in 1 .. Len(longer)
      BY <1>1
    <3>2. QED
      BY <1>1, <3>1 DEF Logged
  <2>4. QED
    BY <2>1, <2>2, <2>3
<1>3. LastOf(longer, x) = Len(log) + 1
  <2>1. Len(log) + 1 \in 1 .. Len(longer) /\ (Len(log) + 1) + 1 .. Len(longer) = {}
    BY <1>1
  <2>2. LastOf(longer, longer[Len(log) + 1]) = Len(log) + 1
    BY <1>1, <2>1, LastIsUnique
  <2>3. QED
    BY <1>1, <2>2
<1>4. ASSUME NEW m \in Logged(log) \ {x}
      PROVE  LastOf(longer, m) = LastOf(log, m)
  <2> DEFINE k == LastOf(log, m)
  <2>1. k \in 1 .. Len(log) /\ log[k] = m /\ \A j \in k + 1 .. Len(log) : log[j] # m
    BY LastExists
  <2> HIDE DEF k
  <2>2. k \in 1 .. Len(longer) /\ longer[k] = m
    BY <1>1, <2>1
  <2>3. ASSUME NEW j \in k + 1 .. Len(longer)
        PROVE  longer[j] # longer[k]
    <3>1. j \in k + 1 .. Len(log) \/ j = Len(log) + 1
      BY <1>1, <2>1
    <3>2. CASE j \in k + 1 .. Len(log)
      BY <1>1, <2>1, <2>2, <3>2
    <3>3. CASE j = Len(log) + 1
      BY <1>1, <2>2, <3>3
    <3>4. QED
      BY <3>1, <3>2, <3>3
  <2>4. LastOf(longer, longer[k]) = k
    BY <1>1, <2>2, <2>3, LastIsUnique
  <2>5. QED
    BY <2>2, <2>4 DEF k
<1>5. QED
  BY <1>1, <1>2, <1>3, <1>4 DEF longer

\* The messages recorded after one are finitely many.
LEMMA NewerIsFinite ==
  ASSUME NEW S, NEW log \in Seq(S), NEW m
  PROVE  IsFiniteSet(Newer(log, m)) /\ Rank(log, m) \in Nat
<1>1. IsFiniteSet(1 .. Len(log))
  BY FS_Interval, Len(log) \in Int, 1 \in Int
<1> DEFINE f == [i \in 1 .. Len(log) |-> log[i]]
<1>2. f \in Surjection(1 .. Len(log), Logged(log))
  BY DEF Surjection, Logged
<1> HIDE DEF f
<1>3. IsFiniteSet(Logged(log))
  BY <1>1, <1>2, FS_Surjection
<1>4. Newer(log, m) \in SUBSET Logged(log)
  BY DEF Newer
<1>5. IsFiniteSet(Newer(log, m))
  BY <1>3, <1>4, FS_Subset
<1>6. QED
  BY <1>5, FS_CardinalityType DEF Rank

\* The ranks order the messages by their last indexes.
LEMMA RanksFollowLast ==
  ASSUME NEW S, NEW log \in Seq(S), NEW m \in Logged(log), NEW n \in Logged(log),
         LastOf(log, n) > LastOf(log, m)
  PROVE  Rank(log, n) < Rank(log, m)
<1>1. LastOf(log, n) \in Int /\ LastOf(log, m) \in Int
  BY LastExists
<1>2. Newer(log, n) \in SUBSET Newer(log, m)
  <2>1. \A o \in Logged(log) : LastOf(log, o) \in Int
    BY LastExists
  <2>2. QED
    BY <1>1, <2>1 DEF Newer
<1>3. n \in Newer(log, m) /\ n \notin Newer(log, n)
  BY <1>1 DEF Newer
<1>4. IsFiniteSet(Newer(log, m)) /\ Rank(log, m) \in Nat /\ Rank(log, n) \in Nat
  BY NewerIsFinite
<1>5. /\ Cardinality(Newer(log, n)) <= Cardinality(Newer(log, m))
      /\ Cardinality(Newer(log, m)) = Cardinality(Newer(log, n)) => Newer(log, m) = Newer(log, n)
  BY <1>2, <1>4, FS_Subset
<1>6. QED
  BY <1>3, <1>4, <1>5 DEF Rank

\* Two messages are never recorded last at the same index.
LEMMA LastsDiffer ==
  ASSUME NEW S, NEW log \in Seq(S), NEW m \in Logged(log), NEW n \in Logged(log), m # n
  PROVE  LastOf(log, n) > LastOf(log, m) \/ LastOf(log, m) > LastOf(log, n)
<1>1. /\ LastOf(log, n) \in Int /\ LastOf(log, m) \in Int
      /\ log[LastOf(log, n)] = n /\ log[LastOf(log, m)] = m
  BY LastExists
<1>2. QED
  BY <1>1
\* What recording one more message does to the ranks.
LEMMA RanksGrow ==
  ASSUME NEW S, NEW log \in Seq(S), NEW x \in S
  PROVE  /\ Rank(Append(log, x), x) = 0
         /\ \A m \in Logged(log) \ {x} :
              Rank(Append(log, x), m) =
                IF x \in Logged(log) /\ LastOf(log, x) > LastOf(log, m)
                  THEN Rank(log, m) ELSE Rank(log, m) + 1
<1> DEFINE longer == Append(log, x)
<1>1. /\ longer \in Seq(S)
      /\ Logged(longer) = Logged(log) \cup {x}
      /\ LastOf(longer, x) = Len(log) + 1
      /\ \A m \in Logged(log) \ {x} : LastOf(longer, m) = LastOf(log, m)
  BY LogGrows
<1>2. Len(log) \in Nat /\ \A m \in Logged(log) : LastOf(log, m) \in 1 .. Len(log)
  BY LastExists
<1> HIDE DEF longer
<1>3. \A m \in Logged(longer) : ~ (LastOf(longer, m) > LastOf(longer, x))
  BY <1>1, <1>2
<1>4. Rank(longer, x) = 0
  <2>1. Newer(longer, x) = {}
    BY <1>3 DEF Newer
  <2>2. QED
    BY <2>1, FS_EmptySet DEF Rank
<1>5. ASSUME NEW m \in Logged(log) \ {x}
      PROVE  Rank(longer, m) = IF x \in Logged(log) /\ LastOf(log, x) > LastOf(log, m)
                                 THEN Rank(log, m) ELSE Rank(log, m) + 1
  <2>1. Newer(longer, m) = Newer(log, m) \cup {x}
    <3>1. x \in Newer(longer, m)
      BY <1>1, <1>2 DEF Newer
    <3>2. ASSUME NEW n, n # x
          PROVE  n \in Newer(longer, m) <=> n \in Newer(log, m)
      BY <1>1, <3>2 DEF Newer
    <3>3. ASSUME NEW n \in Newer(longer, m)
          PROVE  n \in Newer(log, m) \cup {x}
      BY <3>2
    <3>4. ASSUME NEW n \in Newer(log, m) \cup {x}
          PROVE  n \in Newer(longer, m)
      BY <3>1, <3>2
    <3>5. QED
      BY <3>3, <3>4
  <2>2. IsFiniteSet(Newer(log, m)) /\ Rank(log, m) \in Nat
    BY NewerIsFinite
  <2>3. Cardinality(Newer(log, m) \cup {x}) =
          IF x \in Newer(log, m) THEN Cardinality(Newer(log, m)) ELSE Cardinality(Newer(log, m)) + 1
    BY <2>2, FS_AddElement
  <2>4. x \in Newer(log, m) <=> x \in Logged(log) /\ LastOf(log, x) > LastOf(log, m)
    BY DEF Newer
  <2>5. QED
    BY <2>1, <2>3, <2>4 DEF Rank
<1>6. QED
  BY <1>4, <1>5 DEF longer

-----------------------------------------------------------------------------
(* The store.                                                              *)

\* A sequence of results holds the newest of a log.
Holds(stored, log) ==
  /\ stored \in Seq(Messages)
  /\ Len(stored) <= Capacity
  /\ \A m \in Messages, i \in 1 .. Capacity :
       (i <= Len(stored) /\ stored[i] = m) <=> (m \in Logged(log) /\ Rank(log, m) = i - 1)

\* A message is stored at most once, and where its rank says.
LEMMA StoredOnce ==
  ASSUME NEW log, NEW stored, Holds(stored, log), NEW x \in Messages
  PROVE  \E p \in 1 .. Len(stored) + 1 : \A i \in 1 .. Len(stored) : stored[i] = x <=> i = p
<1>1. Len(stored) \in Nat /\ Capacity \in Nat /\ Len(stored) <= Capacity
  BY ValidationConstantsAssumption DEF Holds
<1>2. CASE \E p \in 1 .. Len(stored) : stored[p] = x
  <2>1. PICK p \in 1 .. Len(stored) : stored[p] = x
    BY <1>2
  <2>2. ASSUME NEW i \in 1 .. Len(stored), stored[i] = x
        PROVE  i = p
    <3>1. i \in 1 .. Capacity /\ p \in 1 .. Capacity
      BY <1>1
    <3>2. Rank(log, x) = i - 1 /\ Rank(log, x) = p - 1
      BY <1>1, <2>1, <2>2, <3>1 DEF Holds
    <3>3. QED
      BY <3>2
  <2>3. p \in 1 .. Len(stored) + 1
    BY <1>1
  <2>4. QED
    BY <2>1, <2>2, <2>3
<1>3. CASE ~ \E p \in 1 .. Len(stored) : stored[p] = x
  <2>1. Len(stored) + 1 \in 1 .. Len(stored) + 1
    BY <1>1
  <2>2. \A i \in 1 .. Len(stored) : stored[i] = x <=> i = Len(stored) + 1
    BY <1>1, <1>3
  <2>3. QED
    BY <2>1, <2>2
<1>4. QED
  BY <1>2, <1>3

\* What the store holds after it recorded a message: the message, and behind it the
\* others up to the capacity.
LEMMA RecordedIs ==
  ASSUME NEW stored \in Seq(Messages), NEW x \in Messages, NEW p \in 1 .. Len(stored) + 1,
         \A i \in 1 .. Len(stored) : stored[i] = x <=> i = p
  PROVE  LET others == IF p <= Len(stored) THEN Len(stored) - 1 ELSE Len(stored)
         IN  /\ Recorded(stored, x) \in Seq(Messages)
             /\ Len(Recorded(stored, x)) = IF others + 1 > Capacity THEN Capacity ELSE others + 1
             /\ Recorded(stored, x)[1] = x
             /\ \A i \in 2 .. Len(Recorded(stored, x)) :
                  Recorded(stored, x)[i] = stored[IF i - 1 < p THEN i - 1 ELSE i]
<1> DEFINE rest   == Without(stored, x)
           kept   == <<x>> \o rest
           others == IF p <= Len(stored) THEN Len(stored) - 1 ELSE Len(stored)
           cut    == IF Len(kept) > Capacity THEN Capacity ELSE Len(kept)
<1>1. /\ rest \in Seq(Messages)
      /\ Len(rest) = others
      /\ \A i \in 1 .. Len(rest) : rest[i] = stored[IF i < p THEN i ELSE i + 1]
  BY FilterTakesOut
<1>2. Recorded(stored, x) = SubSeq(kept, 1, cut)
  BY DEF Recorded
<1> HIDE DEF rest
<1>3. /\ kept \in Seq(Messages)
      /\ Len(kept) = others + 1
      /\ kept[1] = x
      /\ \A i \in 2 .. Len(kept) : kept[i] = rest[i - 1]
  <2>1. <<x>> \in Seq(Messages) /\ Len(<<x>>) = 1 /\ <<x>>[1] = x
    OBVIOUS
  <2>2. /\ kept \in Seq(Messages)
        /\ Len(kept) = 1 + Len(rest)
        /\ \A i \in 1 .. Len(kept) : kept[i] = IF i <= 1 THEN <<x>>[i] ELSE rest[i - 1]
    BY <1>1, <2>1, ConcatProperties
  <2>3. Len(rest) \in Nat
    BY <1>1
  <2> HIDE DEF kept, others
  <2>4. QED
    BY <1>1, <2>1, <2>2, <2>3
<1>4. Len(stored) \in Nat /\ others \in Nat /\ Capacity \in Nat /\ Capacity > 0
  BY ValidationConstantsAssumption
<1> HIDE DEF kept, others
<1>5. cut \in 1 .. Len(kept)
  BY <1>3, <1>4
<1>6. /\ SubSeq(kept, 1, cut) \in Seq(Messages)
      /\ Len(SubSeq(kept, 1, cut)) = cut
      /\ \A i \in 1 .. cut : SubSeq(kept, 1, cut)[i] = kept[i]
  <2> HIDE DEF cut
  <2>1. \A i \in 1 .. cut : kept[i] \in Messages
    BY <1>3, <1>5
  <2>2. QED
    BY <1>3, <1>5, <2>1, SubSeqProperties
<1>7. ASSUME NEW i \in 2 .. cut
      PROVE  SubSeq(kept, 1, cut)[i] = stored[IF i - 1 < p THEN i - 1 ELSE i]
  <2>1. i \in 1 .. cut /\ i \in 2 .. Len(kept) /\ i - 1 \in 1 .. Len(rest) /\ (i - 1) + 1 = i
    BY <1>1, <1>3, <1>4, <1>5
  <2>2. SubSeq(kept, 1, cut)[i] = rest[i - 1]
    BY <1>3, <1>6, <2>1
  <2>3. QED
    BY <1>1, <2>1, <2>2
<1>8. 1 \in 1 .. cut
  BY <1>3, <1>5
<1> HIDE DEF cut
<1>9. /\ Recorded(stored, x) \in Seq(Messages)
      /\ Len(Recorded(stored, x)) = cut
      /\ Recorded(stored, x)[1] = x
      /\ \A i \in 2 .. cut : Recorded(stored, x)[i] = stored[IF i - 1 < p THEN i - 1 ELSE i]
  BY <1>2, <1>3, <1>6, <1>7, <1>8
<1>10. cut = IF others + 1 > Capacity THEN Capacity ELSE others + 1
  BY <1>3 DEF cut
<1>11. QED
  BY <1>9, <1>10 DEF others
\* Recording one more message keeps the store at the newest of the log.
LEMMA RecordedHolds ==
  ASSUME NEW log \in Seq(Messages), NEW stored, Holds(stored, log), NEW x \in Messages
  PROVE  Holds(Recorded(stored, x), Append(log, x))
<1> DEFINE longer == Append(log, x)
           now    == Recorded(stored, x)
<1>1. PICK p \in 1 .. Len(stored) + 1 : \A i \in 1 .. Len(stored) : stored[i] = x <=> i = p
  BY StoredOnce
<1>2. stored \in Seq(Messages) /\ Len(stored) \in Nat /\ Len(stored) <= Capacity
  BY DEF Holds
<1> DEFINE others == IF p <= Len(stored) THEN Len(stored) - 1 ELSE Len(stored)
<1>3. /\ now \in Seq(Messages)
      /\ Len(now) = IF others + 1 > Capacity THEN Capacity ELSE others + 1
      /\ now[1] = x
      /\ \A i \in 2 .. Len(now) : now[i] = stored[IF i - 1 < p THEN i - 1 ELSE i]
  BY <1>1, <1>2, RecordedIs
<1>4. /\ Logged(longer) = Logged(log) \cup {x}
      /\ Rank(longer, x) = 0
      /\ \A m \in Logged(log) \ {x} :
           Rank(longer, m) = IF x \in Logged(log) /\ LastOf(log, x) > LastOf(log, m)
                               THEN Rank(log, m) ELSE Rank(log, m) + 1
  BY LogGrows, RanksGrow
<1>5. Capacity \in Nat /\ Capacity > 0
  BY ValidationConstantsAssumption
<1>6. \A m \in Messages : Rank(log, m) \in Nat
  BY NewerIsFinite
<1>7. \A m \in Messages, i \in 1 .. Capacity :
        (i <= Len(stored) /\ stored[i] = m) <=> (m \in Logged(log) /\ Rank(log, m) = i - 1)
  BY DEF Holds
<1> HIDE DEF now, longer
\* Another message moves down by one exactly when the recorded one was not above it.
<1>8. ASSUME NEW m \in Logged(log) \ {x}, m \in Messages
      PROVE  /\ p <= Len(stored) /\ Rank(log, m) >= p => Rank(longer, m) = Rank(log, m)
             /\ p <= Len(stored) /\ Rank(log, m) < p => Rank(longer, m) = Rank(log, m) + 1
             /\ p > Len(stored) =>
                  \/ Rank(longer, m) = Rank(log, m) + 1
                  \/ Rank(longer, m) = Rank(log, m) /\ Rank(log, m) >= Capacity
  <2>1. CASE p <= Len(stored)
    <3>1. x \in Logged(log) /\ Rank(log, x) = p - 1
      <4>1. p \in 1 .. Capacity /\ p \in 1 .. Len(stored) /\ stored[p] = x
        BY <1>1, <1>2, <1>5, <2>1
      <4>2. QED
        BY <1>2, <1>7, <4>1
    <3>2. \/ LastOf(log, x) > LastOf(log, m) /\ Rank(log, x) < Rank(log, m)
          \/ ~ (LastOf(log, x) > LastOf(log, m)) /\ Rank(log, m) < Rank(log, x)
      <4>1. LastOf(log, x) > LastOf(log, m) \/ LastOf(log, m) > LastOf(log, x)
        BY <3>1, LastsDiffer
      <4>2. LastOf(log, x) \in Int /\ LastOf(log, m) \in Int
        BY <3>1, LastExists
      <4>3. QED
        BY <3>1, <4>1, <4>2, RanksFollowLast
    <3>3. QED
      BY <1>2, <1>4, <1>6, <1>8, <2>1, <3>1, <3>2
  <2>2. CASE p > Len(stored)
    <3>1. CASE x \in Logged(log) /\ LastOf(log, x) > LastOf(log, m)
      <4>1. Rank(log, x) < Rank(log, m)
        BY <3>1, RanksFollowLast
      <4>2. ~ (Rank(log, x) < Capacity)
        <5>1. SUFFICES ASSUME Rank(log, x) < Capacity
                       PROVE  FALSE
          OBVIOUS
        <5>2. Rank(log, x) + 1 \in 1 .. Capacity /\ Rank(log, x) = (Rank(log, x) + 1) - 1
          BY <1>5, <1>6, <5>1
        <5>3. Rank(log, x) + 1 <= Len(stored) /\ stored[Rank(log, x) + 1] = x
          BY <1>7, <3>1, <5>2
        <5>4. Rank(log, x) + 1 = p
          BY <1>1, <1>2, <1>6, <5>3
        <5>5. QED
          BY <2>2, <5>3, <5>4
      <4>3. QED
        BY <1>2, <1>4, <1>5, <1>6, <1>8, <2>2, <3>1, <4>1, <4>2
    <3>2. CASE ~ (x \in Logged(log) /\ LastOf(log, x) > LastOf(log, m))
      BY <1>2, <1>4, <1>6, <2>2, <3>2
    <3>3. QED
      BY <3>1, <3>2
  <2>3. QED
    BY <1>2, <2>1, <2>2
<1>9. ASSUME NEW m \in Messages, NEW i \in 1 .. Capacity
      PROVE  (i <= Len(now) /\ now[i] = m) <=> (m \in Logged(longer) /\ Rank(longer, m) = i - 1)
  <2>1. CASE i = 1
    <3>1. i <= Len(now) /\ now[i] = x
      BY <1>2, <1>3, <1>5, <2>1
    <3>2. CASE m = x
      BY <1>4, <2>1, <3>1, <3>2
    <3>3. CASE m # x
      <4>1. ASSUME m \in Logged(longer), Rank(longer, m) = 0
            PROVE  FALSE
        <5>1. m \in Logged(log) \ {x} /\ m \in Messages
          BY <1>4, <3>3, <4>1
        <5>2. Rank(log, m) >= p \/ Rank(log, m) < p
          BY <1>6
        <5>3. Rank(log, m) \in Nat /\ Rank(longer, m) = 0
          BY <1>6, <4>1
        <5>4. Rank(longer, m) = Rank(log, m) /\ (Rank(log, m) >= p \/ Rank(log, m) >= Capacity)
          BY <1>2, <1>8, <5>1, <5>2, <5>3
        <5>5. QED
          BY <1>5, <5>3, <5>4
      <4>2. QED
        BY <2>1, <3>1, <3>3, <4>1
    <3>4. QED
      BY <3>2, <3>3
  <2>2. CASE i # 1 /\ m = x
    <3>1. ASSUME i <= Len(now) PROVE now[i] # x
      <4>1. i \in 2 .. Len(now)
        BY <1>3, <2>2, <3>1
      <4>2. now[i] = stored[IF i - 1 < p THEN i - 1 ELSE i]
        BY <1>3, <4>1
      <4>3. /\ (IF i - 1 < p THEN i - 1 ELSE i) \in 1 .. Len(stored)
            /\ (IF i - 1 < p THEN i - 1 ELSE i) # p
        BY <1>2, <1>3, <1>5, <4>1
      <4>4. QED
        BY <1>1, <4>2, <4>3
    <3>2. QED
      BY <1>4, <2>2, <3>1
  <2>3. CASE i # 1 /\ m # x
    <3>1. m \in Logged(longer) <=> m \in Logged(log)
      BY <1>4, <2>3
    <3>2. CASE i - 1 < p \/ p > Len(stored)
      <4>1. i - 1 \in 1 .. Capacity /\ i \in 2 .. Capacity
        BY <1>5, <2>3
      <4>2. (i - 1 <= Len(stored) /\ stored[i - 1] = m) <=> (m \in Logged(log) /\ Rank(log, m) = (i - 1) - 1)
        BY <1>7, <4>1
      <4>3. (i <= Len(now) /\ now[i] = m) <=> (i - 1 <= Len(stored) /\ stored[i - 1] = m)
        <5>1. ASSUME i <= Len(now)
              PROVE  i - 1 <= Len(stored) /\ now[i] = stored[i - 1]
          BY <1>2, <1>3, <1>5, <3>2, <4>1, <5>1
        <5>2. ASSUME i - 1 <= Len(stored), stored[i - 1] = m
              PROVE  i <= Len(now)
          <6>1. i - 1 # p
            BY <1>1, <2>3, <4>1, <5>2
          <6>2. QED
            BY <1>2, <1>3, <1>5, <3>2, <4>1, <5>2, <6>1
        <5>3. QED
          BY <5>1, <5>2
      <4>4. m \in Logged(log) => (Rank(log, m) = (i - 1) - 1 <=> Rank(longer, m) = i - 1)
        <5>1. SUFFICES ASSUME m \in Logged(log)
                       PROVE  Rank(log, m) = (i - 1) - 1 <=> Rank(longer, m) = i - 1
          OBVIOUS
        <5>2. m \in Logged(log) \ {x} /\ m \in Messages /\ Rank(log, m) \in Nat
          BY <1>6, <2>3, <5>1
        <5>3. /\ p <= Len(stored) /\ Rank(log, m) >= p => Rank(longer, m) = Rank(log, m)
              /\ p <= Len(stored) /\ Rank(log, m) < p => Rank(longer, m) = Rank(log, m) + 1
              /\ p > Len(stored) =>
                   \/ Rank(longer, m) = Rank(log, m) + 1
                   \/ Rank(longer, m) = Rank(log, m) /\ Rank(log, m) >= Capacity
          BY <1>8, <5>2
        <5>4. QED
          BY <1>2, <1>5, <3>2, <4>1, <5>2, <5>3
      <4>5. QED
        BY <3>1, <4>2, <4>3, <4>4
    <3>3. CASE ~ (i - 1 < p) /\ ~ (p > Len(stored))
      <4>1. i \in 2 .. Capacity /\ p <= Len(stored)
        BY <1>2, <1>5, <2>3, <3>3
      <4>2. (i <= Len(stored) /\ stored[i] = m) <=> (m \in Logged(log) /\ Rank(log, m) = i - 1)
        BY <1>7
      <4>3. (i <= Len(now) /\ now[i] = m) <=> (i <= Len(stored) /\ stored[i] = m)
        <5>1. i <= Len(now) <=> i <= Len(stored)
          BY <1>2, <1>3, <1>5, <4>1
        <5>2. i <= Len(now) => now[i] = stored[i]
          BY <1>2, <1>3, <1>5, <3>3, <4>1
        <5>3. QED
          BY <5>1, <5>2
      <4>4. m \in Logged(log) => (Rank(log, m) = i - 1 <=> Rank(longer, m) = i - 1)
        <5>1. SUFFICES ASSUME m \in Logged(log)
                       PROVE  Rank(log, m) = i - 1 <=> Rank(longer, m) = i - 1
          OBVIOUS
        <5>2. m \in Logged(log) \ {x} /\ m \in Messages /\ Rank(log, m) \in Nat
          BY <1>6, <2>3, <5>1
        <5>3. /\ Rank(log, m) >= p => Rank(longer, m) = Rank(log, m)
              /\ Rank(log, m) < p => Rank(longer, m) = Rank(log, m) + 1
          BY <1>8, <4>1, <5>2
        <5>4. Rank(log, m) # p - 1
          <6>1. p \in 1 .. Capacity /\ stored[p] = x
            BY <1>1, <1>2, <1>5, <4>1
          <6>2. ~ (m \in Logged(log) /\ Rank(log, m) = p - 1)
            BY <1>7, <2>3, <4>1, <6>1
          <6>3. QED
            BY <5>1, <6>2
        <5>5. QED
          BY <1>2, <1>5, <3>3, <4>1, <5>2, <5>3, <5>4
      <4>5. QED
        BY <3>1, <4>2, <4>3, <4>4
    <3>4. QED
      BY <3>2, <3>3
  <2>4. QED
    BY <2>1, <2>2, <2>3
<1>10. Len(now) <= Capacity
  BY <1>2, <1>3, <1>5
<1>11. QED
  BY <1>3, <1>9, <1>10 DEF Holds, now, longer
-----------------------------------------------------------------------------
(* The store throughout.                                                   *)

StoreInv == Holds(results, history.recorded)

\* The store is empty at first.
LEMMA InitStores ==
  ASSUME ValidationInit
  PROVE  StoreInv
<1>1. results = <<>> /\ history.recorded = <<>>
  BY DEF ValidationInit
<1>2. Logged(<<>>) = {}
  BY DEF Logged
<1>3. QED
  BY <1>1, <1>2, ValidationConstantsAssumption DEF StoreInv, Holds

\* Recording keeps the newest.
LEMMA RecordStores ==
  ASSUME ValidationInv, StoreInv, Record
  PROVE  StoreInv'
<1> DEFINE m == Head(storeBox).work.message
<1>1. m \in Messages /\ history.recorded \in Seq(Messages)
  <2>1. storeBox \in Seq(Records) /\ storeBox # <<>>
    BY DEF ValidationInv, ValidationTypes, Record
  <2>2. Head(storeBox) \in Records
    BY <2>1, HeadTailProperties
  <2>3. QED
    BY <2>2 DEF ValidationInv, ValidationTypes, Records, WorkItems
<1>2. /\ results' = Recorded(results, m)
      /\ history' = [history EXCEPT !.recorded = Append(@, m), !.ever = @ \cup {m}]
  BY DEF Record
<1> HIDE DEF m
<1>3. history'.recorded = Append(history.recorded, m)
  BY <1>2 DEF ValidationInv, ValidationTypes
<1>4. Holds(Recorded(results, m), Append(history.recorded, m))
  BY <1>1, RecordedHolds DEF StoreInv
<1>5. QED
  BY <1>2, <1>3, <1>4 DEF StoreInv

\* A restarted store is empty, and so is its log.
LEMMA CrashStores ==
  ASSUME ValidationInv, Crash
  PROVE  StoreInv'
<1>1. results' = <<>> /\ history'.recorded = <<>>
  BY DEF Crash, ValidationInv, ValidationTypes
<1>2. Logged(<<>>) = {}
  BY DEF Logged
<1>3. QED
  BY <1>1, <1>2, ValidationConstantsAssumption DEF StoreInv, Holds

\* Every step keeps it.
LEMMA NextStores ==
  ASSUME ValidationInv, StoreInv, [ValidationNext]_validationVars
  PROVE  StoreInv'
<1>1. CASE Record
  BY <1>1, RecordStores
<1>2. CASE Crash
  BY <1>2, CrashStores
<1>3. CASE ~ Record /\ ~ Crash
  <2>1. results' = results /\ history'.recorded = history.recorded
    <3>1. CASE \E m \in Messages : Deliver(m) \/ DeliverGarbled(m)
      BY <3>1 DEF Deliver, DeliverGarbled
    <3>2. CASE CallbackTimeout \/ RouteRefused
      BY <3>2 DEF CallbackTimeout, RouteRefused
    <3>3. CASE Route
      BY <3>3 DEF Route, ValidationInv, ValidationTypes
    <3>4. CASE Complete
      BY <3>4 DEF Complete
    <3>5. CASE \E w \in WorkerIDs : Work(w) \/ StoreTimeout(w)
      BY <3>5 DEF Work, StoreTimeout
    <3>6. CASE Reload \/ UNCHANGED validationVars
      BY <3>6 DEF Reload, validationVars
    <3>7. QED
      BY <1>3, <3>1, <3>2, <3>3, <3>4, <3>5, <3>6 DEF ValidationNext
  <2>2. QED
    BY <2>1 DEF StoreInv
<1>4. QED
  BY <1>1, <1>2, <1>3

\* The store holds the results of the messages recorded last, each once, the last
\* recorded first, for every capacity and however often redelivery, repetition after
\* a timeout and crashes make it record them (results_store.go record).
THEOREM NewestAreKept == ValidationSpec => []StoreKeepsNewest
<1>1. StoreInv => StoreKeepsNewest
  <2> SUFFICES ASSUME StoreInv
               PROVE  StoreKeepsNewest
    OBVIOUS
  <2> DEFINE log == history.recorded
  <2>1. /\ results \in Seq(Messages)
        /\ Len(results) <= Capacity
        /\ \A m \in Messages, i \in 1 .. Capacity :
             (i <= Len(results) /\ results[i] = m) <=> (m \in Logged(log) /\ Rank(log, m) = i - 1)
    BY DEF StoreInv, Holds
  <2>2. \A i \in 1 .. Len(results) : results[i] \in Messages
    BY <2>1
  <2>3. QED
    BY <2>1, <2>2 DEF StoreKeepsNewest, Rank, Newer, LastOf, Logged
<1>2. ValidationInit => StoreInv
  BY InitStores
<1>3. ValidationInv /\ StoreInv /\ [ValidationNext]_validationVars => StoreInv'
  BY NextStores
<1>4. QED
  BY <1>1, <1>2, <1>3, InvariantHolds, PTL DEF ValidationSpec

===============================================================================
