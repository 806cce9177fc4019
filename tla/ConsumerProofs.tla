---------------------------- MODULE ConsumerProofs ----------------------------
(***************************************************************************)
(* Proofs about the consumer, its runtimes and the ingestion of a topic,   *)
(* for every set of views and bindings and every bound.                    *)
(***************************************************************************)
EXTENDS Ingestion, SequenceTheorems, FiniteSetTheorems, TLAPS

-----------------------------------------------------------------------------
(* The inductive invariant of bootstrap, supervisor and runtimes.          *)

SupervisorMessages ==
  [kind : {"loaded", "bootstrap_failed", "ready", "failed", "poison"},
   view : Views \cup {None}, generation : Nat]

RuntimeStates ==
  [view : Views \ Unbuildable, poisoned : BOOLEAN,
   phase : {"starting", "consuming", "failed", "stopped"}]

ConsumerTypes ==
  /\ active \in Views \cup {None}
  /\ changes \in 0 .. MaxChanges
  /\ event \in BOOLEAN
  /\ signal \in BOOLEAN
  /\ loop \in [state : {"starting", "idle", "polling", "fetched", "stopped"},
               view : Views \cup {None}]
  /\ loaded \in (Views \ Unbuildable) \cup {None}
  /\ supervisor \in [status : {"alive", "dying", "stopped"}, generation : Nat,
                     ready : BOOLEAN, signature : Views \cup {None}]
  /\ mailbox \in Seq(SupervisorMessages)
  /\ runtimes \in Seq(RuntimeStates)

\* The generation counts the runtimes; a stopped supervisor has nothing left to do.
Linked ==
  /\ supervisor.generation = Len(runtimes)
  /\ supervisor.status = "stopped" =>
       mailbox = <<>> /\ loop.state = "stopped" /\ ~supervisor.ready
  /\ loop.state = "fetched" => loop.view \in Views

\* The loads a mailbox holds, and the view the newest runtime has.
LoadsIn(box) == {i \in 1 .. Len(box) : box[i].kind = "loaded"}

LastView(rts) == IF rts = <<>> THEN None ELSE rts[Len(rts)].view

\* From the view last started, over the loads on their way, to the view last
\* loaded: each differs from the one before it.
Chained(last, box, final) ==
  /\ \A i \in LoadsIn(box) : (\A j \in LoadsIn(box) : i <= j) => box[i].view # last
  /\ \A i, j \in LoadsIn(box) :
       i < j /\ (\A k \in LoadsIn(box) : k <= i \/ j <= k) => box[i].view # box[j].view
  /\ \A i \in LoadsIn(box) : (\A j \in LoadsIn(box) : j <= i) => box[i].view = final
  /\ LoadsIn(box) = {} => last = final

LoadsChained ==
  supervisor.status # "stopped" => Chained(LastView(runtimes), mailbox, loaded)

\* The loads still to come: the view the loop has in hand, and the view it would
\* fetch next.
Differs(x, y) == IF x = y THEN 0 ELSE 1

DueFor(now, refresh, last) ==
  IF refresh.state = "fetched" THEN Differs(refresh.view, last) + Differs(now, refresh.view)
                               ELSE Differs(now, last)

\* A change of the bindings brings one more generation at most.
Counted ==
  supervisor.generation + Cardinality(LoadsIn(mailbox)) + DueFor(active, loop, loaded) <= changes + 1

\* A runtime that goes on.
GoesOn(g) == runtimes[g].phase = "consuming" /\ ~runtimes[g].poisoned

\* The failure of the newest runtime is on its way, from a place of the mailbox on.
FailureFrom(i) == \E j \in i .. Len(mailbox) : mailbox[j] = Failed(Len(runtimes))

\* What the messages say is so; a ready of the newest runtime is followed by the
\* message of its failure when it does not go on.
MessagesTrue ==
  \A i \in 1 .. Len(mailbox) :
    /\ mailbox[i].kind = "loaded" => mailbox[i].view \in Views \ Unbuildable
    /\ mailbox[i].kind = "ready" =>
         /\ mailbox[i].generation \in 1 .. Len(runtimes)
         /\ mailbox[i].view = runtimes[mailbox[i].generation].view
         /\ mailbox[i].generation = Len(runtimes) => GoesOn(Len(runtimes)) \/ FailureFrom(i + 1)

\* So is what the supervisor reports.
ReadyTrue ==
  supervisor.ready =>
    /\ Len(runtimes) # 0
    /\ runtimes[Len(runtimes)].view = supervisor.signature
    /\ GoesOn(Len(runtimes)) \/ FailureFrom(1)

\* The newest runtime is poisoned by its failure or with the supervisor alone.
NewestLives ==
  /\ supervisor.status # "stopped"
  /\ Len(runtimes) # 0
  /\ runtimes[Len(runtimes)].phase \in {"starting", "consuming"}
  => ~runtimes[Len(runtimes)].poisoned

ConsumerInv ==
  /\ ConsumerTypes
  /\ Linked
  /\ LoadsChained
  /\ Counted
  /\ MessagesTrue
  /\ ReadyTrue
  /\ NewestLives
  /\ ReplacedIsPoisoned
  /\ ReloadMeansChange

-----------------------------------------------------------------------------
(* The inductive invariant of the ingestion.                               *)

\* The record is mapped and published with some view.
Done(r) == log[r] /\ Ingested(r)

\* What the member of g has in hand: the bindings it has not published the record
\* to are the last ones of its view.
InHand(g) ==
  LET reader == readers[g]
      all    == BindingsOf[runtimes[g].view]
  IN  /\ g \in DOMAIN runtimes
      /\ reader.record <= Len(log)
      /\ \A r \in 1 .. reader.record - 1 : Done(r)
      /\ Len(reader.left) <= Len(all)
      /\ \A i \in 1 .. Len(reader.left) : reader.left[i] = all[Len(all) - Len(reader.left) + i]
      /\ \A i \in 1 .. Len(all) - Len(reader.left) : <<reader.record, all[i]>> \in stream
      /\ Len(reader.left) < Len(all) => log[reader.record]

ReaderInv(g) ==
  /\ readers[g].record # 0 => InHand(g)
  /\ readers[g].record = 0 => readers[g].left = <<>>
  /\ readers[g].position # 0 =>
       \A r \in 1 .. readers[g].position - 1 : r <= Len(log) /\ (Done(r) \/ r = readers[g].record)

ReaderStates == [position : Nat, record : Nat, left : Seq(Bindings)]

IngestionTypes ==
  /\ log \in Seq(BOOLEAN)
  /\ committed \in Nat
  /\ readers \in [Generations -> ReaderStates]
  /\ restarts \in Nat

IngestionInv ==
  /\ IngestionTypes
  /\ \A g \in Generations : ReaderInv(g)
  /\ CommittedWasPublished

-----------------------------------------------------------------------------
(* Mailboxes.                                                              *)

\* The loads of a mailbox are finitely many.
LEMMA LoadsFinite ==
  ASSUME NEW box \in Seq(SupervisorMessages)
  PROVE  /\ IsFiniteSet(LoadsIn(box))
         /\ Cardinality(LoadsIn(box)) \in Nat
         /\ LoadsIn(box) \subseteq 1 .. Len(box)
<1>1. Len(box) \in Nat
  BY LenProperties
<1>2. IsFiniteSet(1 .. Len(box))
  BY <1>1, FS_Interval
<1>3. LoadsIn(box) \in SUBSET (1 .. Len(box))
  BY DEF LoadsIn
<1>4. QED
  BY <1>2, <1>3, FS_Subset, FS_CardinalityType

\* A message is sent.
LEMMA Sent ==
  ASSUME NEW box \in Seq(SupervisorMessages), NEW message \in SupervisorMessages
  PROVE  /\ Append(box, message) \in Seq(SupervisorMessages)
         /\ Len(box) \in Nat
         /\ Len(Append(box, message)) = Len(box) + 1
         /\ \A i \in 1 .. Len(box) : Append(box, message)[i] = box[i]
         /\ Append(box, message)[Len(box) + 1] = message
         /\ LoadsIn(Append(box, message)) =
              LoadsIn(box) \cup (IF message.kind = "loaded" THEN {Len(box) + 1} ELSE {})
         /\ Cardinality(LoadsIn(Append(box, message))) =
              Cardinality(LoadsIn(box)) + (IF message.kind = "loaded" THEN 1 ELSE 0)
<1> DEFINE longer == Append(box, message)
<1>1. /\ longer \in Seq(SupervisorMessages)
      /\ Len(longer) = Len(box) + 1
      /\ \A i \in 1 .. Len(box) : longer[i] = box[i]
      /\ longer[Len(box) + 1] = message
  BY AppendProperties
<1>2. Len(box) \in Nat
  BY LenProperties
<1> HIDE DEF longer
<1>3. LoadsIn(longer) =
        LoadsIn(box) \cup (IF message.kind = "loaded" THEN {Len(box) + 1} ELSE {})
  BY <1>1, <1>2 DEF LoadsIn
<1>4. Len(box) + 1 \notin LoadsIn(box)
  BY <1>2 DEF LoadsIn
<1>5. Cardinality(LoadsIn(longer)) =
        Cardinality(LoadsIn(box)) + (IF message.kind = "loaded" THEN 1 ELSE 0)
  <2>1. /\ IsFiniteSet(LoadsIn(box))
        /\ Cardinality(LoadsIn(box)) \in Nat
    BY LoadsFinite
  <2>2. Cardinality(LoadsIn(box) \cup {Len(box) + 1}) = Cardinality(LoadsIn(box)) + 1
    BY <2>1, <1>4, FS_AddElement
  <2>3. CASE message.kind = "loaded"
    <3>1. LoadsIn(longer) = LoadsIn(box) \cup {Len(box) + 1}
      BY <1>3, <2>3
    <3>2. QED
      BY <2>1, <2>2, <2>3, <3>1
  <2>4. CASE message.kind # "loaded"
    <3>1. LoadsIn(longer) = LoadsIn(box)
      BY <1>3, <2>4
    <3>2. QED
      BY <2>1, <2>4, <3>1
  <2>5. QED
    BY <2>3, <2>4
<1>6. QED
  BY <1>1, <1>2, <1>3, <1>5 DEF longer

\* The first message is taken.
LEMMA Taken ==
  ASSUME NEW box \in Seq(SupervisorMessages), box # <<>>
  PROVE  /\ Head(box) \in SupervisorMessages
         /\ Head(box) = box[1]
         /\ Tail(box) \in Seq(SupervisorMessages)
         /\ Len(box) \in Nat \ {0}
         /\ Len(Tail(box)) = Len(box) - 1
         /\ \A i \in 1 .. Len(box) - 1 : Tail(box)[i] = box[i + 1]
         /\ \A i \in Int : i \in LoadsIn(Tail(box)) <=> i >= 1 /\ i + 1 \in LoadsIn(box)
         /\ 1 \in LoadsIn(box) <=> Head(box).kind = "loaded"
         /\ Cardinality(LoadsIn(Tail(box))) =
              Cardinality(LoadsIn(box)) - (IF Head(box).kind = "loaded" THEN 1 ELSE 0)
<1> DEFINE rest == Tail(box)
<1>1. /\ Head(box) \in SupervisorMessages
      /\ Head(box) = box[1]
      /\ rest \in Seq(SupervisorMessages)
      /\ Len(box) \in Nat \ {0}
      /\ Len(rest) = Len(box) - 1
      /\ \A i \in 1 .. Len(box) - 1 : rest[i] = box[i + 1]
  BY HeadTailProperties, EmptySeq, LenProperties
<1> HIDE DEF rest
<1>2. \A i \in Int : i \in LoadsIn(rest) <=> i >= 1 /\ i + 1 \in LoadsIn(box)
  BY <1>1 DEF LoadsIn
<1>3. 1 \in LoadsIn(box) <=> Head(box).kind = "loaded"
  BY <1>1 DEF LoadsIn
<1> DEFINE later == LoadsIn(box) \ {1}
           shift == [i \in later |-> i - 1]
<1>4. shift \in Bijection(later, LoadsIn(rest))
  <2>1. \A i \in later : i \in Nat /\ i >= 2
    BY LoadsFinite, <1>1
  <2>2. \A i \in later : i - 1 \in LoadsIn(rest)
    BY <2>1, <1>2
  <2>3. \A i \in LoadsIn(rest) : i + 1 \in later /\ i \in Nat
    BY <1>1, <1>2, LoadsFinite
  <2>4. shift \in Injection(later, LoadsIn(rest))
    BY <2>1, <2>2 DEF Injection, IsInjective
  <2>5. shift \in Surjection(later, LoadsIn(rest))
    BY <2>1, <2>2, <2>3 DEF Surjection
  <2>6. QED
    BY <2>4, <2>5 DEF Bijection
<1>5. IsFiniteSet(later) /\ Cardinality(later) =
        Cardinality(LoadsIn(box)) - (IF Head(box).kind = "loaded" THEN 1 ELSE 0)
  <2>1. /\ IsFiniteSet(LoadsIn(box))
        /\ Cardinality(LoadsIn(box)) \in Nat
    BY LoadsFinite
  <2>2. CASE Head(box).kind = "loaded"
    <3>1. IsFiniteSet(later) /\ Cardinality(later) = Cardinality(LoadsIn(box)) - 1
      BY <2>1, <1>3, <2>2, FS_RemoveElement
    <3>2. QED
      BY <2>2, <3>1
  <2>3. CASE Head(box).kind # "loaded"
    <3>1. later = LoadsIn(box)
      BY <1>3, <2>3
    <3>2. IsFiniteSet(later) /\ Cardinality(later) = Cardinality(LoadsIn(box))
      BY <2>1, <3>1
    <3> HIDE DEF later
    <3>3. QED
      BY <2>1, <2>3, <3>2
  <2>4. QED
    BY <2>2, <2>3
<1>6. Cardinality(LoadsIn(rest)) = Cardinality(later)
  BY <1>4, <1>5, FS_Bijection DEF ExistsBijection
<1>7. QED
  BY <1>1, <1>2, <1>3, <1>5, <1>6 DEF rest

\* A load that differs from the view last loaded lengthens the chain.
LEMMA ChainSentLoaded ==
  ASSUME NEW box \in Seq(SupervisorMessages), NEW message \in SupervisorMessages,
         NEW last, NEW final, Chained(last, box, final),
         message.kind = "loaded", message.view # final
  PROVE  Chained(last, Append(box, message), message.view)
<1> DEFINE longer == Append(box, message)
           end    == Len(box) + 1
<1>1. /\ end \in Nat
      /\ LoadsIn(longer) = LoadsIn(box) \cup {end}
      /\ longer[end] = message
      /\ \A i \in LoadsIn(box) : i \in Nat /\ i < end /\ longer[i] = box[i]
  BY Sent, LoadsFinite
<1> HIDE DEF longer, end
<1>2. \A i \in LoadsIn(longer) : (\A j \in LoadsIn(longer) : i <= j) => longer[i].view # last
  BY <1>1 DEF Chained
<1>3. \A i, j \in LoadsIn(longer) :
        i < j /\ (\A k \in LoadsIn(longer) : k <= i \/ j <= k) => longer[i].view # longer[j].view
  BY <1>1 DEF Chained
<1>4. \A i \in LoadsIn(longer) :
        (\A j \in LoadsIn(longer) : j <= i) => longer[i].view = message.view
  BY <1>1
<1>5. LoadsIn(longer) # {}
  BY <1>1
<1>6. QED
  BY <1>2, <1>3, <1>4, <1>5 DEF Chained, longer

\* Any other message leaves it.
LEMMA ChainSentOther ==
  ASSUME NEW box \in Seq(SupervisorMessages), NEW message \in SupervisorMessages,
         NEW last, NEW final, Chained(last, box, final),
         message.kind # "loaded"
  PROVE  Chained(last, Append(box, message), final)
<1> DEFINE longer == Append(box, message)
<1>1. /\ LoadsIn(longer) = LoadsIn(box)
      /\ \A i \in LoadsIn(box) : longer[i] = box[i]
  <2>1. LoadsIn(longer) =
          LoadsIn(box) \cup (IF message.kind = "loaded" THEN {Len(box) + 1} ELSE {})
    BY Sent
  <2>2. \A i \in 1 .. Len(box) : longer[i] = box[i]
    BY Sent
  <2>3. QED
    BY <2>1, <2>2, LoadsFinite
<1> HIDE DEF longer
<1>2. Chained(last, longer, final)
  BY <1>1 DEF Chained
<1>3. QED
  BY <1>2 DEF longer

\* The chain goes on from the load that is taken.
LEMMA ChainTakenLoaded ==
  ASSUME NEW box \in Seq(SupervisorMessages), box # <<>>,
         NEW last, NEW final, Chained(last, box, final),
         Head(box).kind = "loaded"
  PROVE  Head(box).view # last /\ Chained(Head(box).view, Tail(box), final)
<1> DEFINE rest == Tail(box)
<1>1. /\ 1 \in LoadsIn(box)
      /\ Head(box) = box[1]
      /\ \A i \in LoadsIn(box) : i \in Nat /\ i >= 1
      /\ \A i \in LoadsIn(box) : i # 1 => i - 1 \in LoadsIn(rest)
      /\ \A i \in LoadsIn(rest) : /\ i \in Nat /\ i >= 1 /\ i + 1 \in LoadsIn(box)
                                  /\ rest[i] = box[i + 1]
  <2>1. rest \in Seq(SupervisorMessages)
    BY Taken
  <2>2. LoadsIn(rest) \subseteq 1 .. Len(rest) /\ LoadsIn(box) \subseteq 1 .. Len(box)
    BY <2>1, LoadsFinite
  <2> HIDE DEF rest
  <2>3. /\ Len(box) \in Nat
        /\ Len(rest) = Len(box) - 1
        /\ \A i \in 1 .. Len(box) - 1 : rest[i] = box[i + 1]
        /\ \A i \in Int : i \in LoadsIn(rest) <=> i >= 1 /\ i + 1 \in LoadsIn(box)
        /\ 1 \in LoadsIn(box)
        /\ Head(box) = box[1]
    BY Taken DEF rest
  <2>4. QED
    BY <2>2, <2>3
<1> HIDE DEF rest
<1>2. box[1].view # last
  BY <1>1 DEF Chained
<1>3. \A i \in LoadsIn(rest) : (\A j \in LoadsIn(rest) : i <= j) => rest[i].view # box[1].view
  <2> SUFFICES ASSUME NEW i \in LoadsIn(rest), \A j \in LoadsIn(rest) : i <= j
               PROVE  rest[i].view # box[1].view
    OBVIOUS
  <2>1. \A k \in LoadsIn(box) : k <= 1 \/ i + 1 <= k
    BY <1>1
  <2>2. QED
    BY <1>1, <2>1 DEF Chained
<1>4. \A i, j \in LoadsIn(rest) :
        i < j /\ (\A k \in LoadsIn(rest) : k <= i \/ j <= k) => rest[i].view # rest[j].view
  <2> SUFFICES ASSUME NEW i \in LoadsIn(rest), NEW j \in LoadsIn(rest), i < j,
                      \A k \in LoadsIn(rest) : k <= i \/ j <= k
               PROVE  rest[i].view # rest[j].view
    OBVIOUS
  <2>1. ASSUME NEW k \in LoadsIn(box)
        PROVE  k <= i + 1 \/ j + 1 <= k
    <3>1. CASE k = 1
      BY <1>1, <3>1
    <3>2. CASE k # 1
      <4>1. k - 1 \in LoadsIn(rest) /\ k \in Nat /\ i \in Nat /\ j \in Nat
        BY <1>1, <3>2
      <4>2. k - 1 <= i \/ j <= k - 1
        BY <4>1
      <4>3. QED
        BY <4>1, <4>2
    <3>3. QED
      BY <3>1, <3>2
  <2>2. /\ i + 1 \in LoadsIn(box)
        /\ j + 1 \in LoadsIn(box)
        /\ i + 1 < j + 1
        /\ rest[i] = box[i + 1]
        /\ rest[j] = box[j + 1]
    BY <1>1
  <2>3. box[i + 1].view # box[j + 1].view
    BY <2>1, <2>2 DEF Chained
  <2>4. QED
    BY <2>2, <2>3
<1>5. \A i \in LoadsIn(rest) : (\A j \in LoadsIn(rest) : j <= i) => rest[i].view = final
  <2> SUFFICES ASSUME NEW i \in LoadsIn(rest), \A j \in LoadsIn(rest) : j <= i
               PROVE  rest[i].view = final
    OBVIOUS
  <2>1. \A k \in LoadsIn(box) : k <= i + 1
    BY <1>1
  <2>2. QED
    BY <1>1, <2>1 DEF Chained
<1>6. LoadsIn(rest) = {} => box[1].view = final
  <2> SUFFICES ASSUME LoadsIn(rest) = {}
               PROVE  box[1].view = final
    OBVIOUS
  <2>1. \A k \in LoadsIn(box) : k <= 1
    BY <1>1
  <2>2. QED
    BY <1>1, <2>1 DEF Chained
<1>7. QED
  BY <1>1, <1>2, <1>3, <1>4, <1>5, <1>6 DEF Chained, rest

\* Another message that is taken leaves it.
LEMMA ChainTakenOther ==
  ASSUME NEW box \in Seq(SupervisorMessages), box # <<>>,
         NEW last, NEW final, Chained(last, box, final),
         Head(box).kind # "loaded"
  PROVE  Chained(last, Tail(box), final)
<1> DEFINE rest == Tail(box)
<1>1. /\ \A i \in LoadsIn(box) : i \in Nat /\ i - 1 \in LoadsIn(rest)
      /\ \A i \in LoadsIn(rest) : i \in Nat /\ i + 1 \in LoadsIn(box) /\ rest[i] = box[i + 1]
  <2>1. rest \in Seq(SupervisorMessages)
    BY Taken
  <2>2. LoadsIn(rest) \subseteq 1 .. Len(rest) /\ LoadsIn(box) \subseteq 1 .. Len(box)
    BY <2>1, LoadsFinite
  <2> HIDE DEF rest
  <2>3. /\ Len(box) \in Nat
        /\ Len(rest) = Len(box) - 1
        /\ \A i \in 1 .. Len(box) - 1 : rest[i] = box[i + 1]
        /\ \A i \in Int : i \in LoadsIn(rest) <=> i >= 1 /\ i + 1 \in LoadsIn(box)
        /\ 1 \notin LoadsIn(box)
    BY Taken DEF rest
  <2>4. ASSUME NEW i \in LoadsIn(box)
        PROVE  i \in Nat /\ i - 1 \in LoadsIn(rest)
    <3>1. i \in 1 .. Len(box) /\ i # 1
      BY <2>2, <2>3
    <3>2. i \in Nat /\ i - 1 \in Int /\ i - 1 >= 1 /\ (i - 1) + 1 = i
      BY <2>3, <3>1
    <3>3. QED
      BY <2>3, <3>2
  <2>5. ASSUME NEW i \in LoadsIn(rest)
        PROVE  i \in Nat /\ i + 1 \in LoadsIn(box) /\ rest[i] = box[i + 1]
    <3>1. i \in 1 .. Len(box) - 1
      BY <2>2, <2>3
    <3>2. i \in Nat /\ i \in Int
      BY <2>3, <3>1
    <3>3. QED
      BY <2>3, <3>1, <3>2
  <2>6. QED
    BY <2>4, <2>5
<1> HIDE DEF rest
<1>2. \A i \in LoadsIn(rest) : (\A j \in LoadsIn(rest) : i <= j) => rest[i].view # last
  <2> SUFFICES ASSUME NEW i \in LoadsIn(rest), \A j \in LoadsIn(rest) : i <= j
               PROVE  rest[i].view # last
    OBVIOUS
  <2>1. \A k \in LoadsIn(box) : i + 1 <= k
    BY <1>1
  <2>2. QED
    BY <1>1, <2>1 DEF Chained
<1>3. \A i, j \in LoadsIn(rest) :
        i < j /\ (\A k \in LoadsIn(rest) : k <= i \/ j <= k) => rest[i].view # rest[j].view
  <2> SUFFICES ASSUME NEW i \in LoadsIn(rest), NEW j \in LoadsIn(rest), i < j,
                      \A k \in LoadsIn(rest) : k <= i \/ j <= k
               PROVE  rest[i].view # rest[j].view
    OBVIOUS
  <2>1. ASSUME NEW k \in LoadsIn(box)
        PROVE  k <= i + 1 \/ j + 1 <= k
    <3>1. CASE k = 1
      BY <1>1, <3>1
    <3>2. CASE k # 1
      <4>1. k - 1 \in LoadsIn(rest) /\ k \in Nat /\ i \in Nat /\ j \in Nat
        BY <1>1, <3>2
      <4>2. k - 1 <= i \/ j <= k - 1
        BY <4>1
      <4>3. QED
        BY <4>1, <4>2
    <3>3. QED
      BY <3>1, <3>2
  <2>2. /\ i + 1 \in LoadsIn(box)
        /\ j + 1 \in LoadsIn(box)
        /\ i + 1 < j + 1
        /\ rest[i] = box[i + 1]
        /\ rest[j] = box[j + 1]
    BY <1>1
  <2>3. box[i + 1].view # box[j + 1].view
    BY <2>1, <2>2 DEF Chained
  <2>4. QED
    BY <2>2, <2>3
<1>4. \A i \in LoadsIn(rest) : (\A j \in LoadsIn(rest) : j <= i) => rest[i].view = final
  <2> SUFFICES ASSUME NEW i \in LoadsIn(rest), \A j \in LoadsIn(rest) : j <= i
               PROVE  rest[i].view = final
    OBVIOUS
  <2>1. \A k \in LoadsIn(box) : k <= i + 1
    BY <1>1
  <2>2. QED
    BY <1>1, <2>1 DEF Chained
<1>5. LoadsIn(rest) = {} => last = final
  BY <1>1 DEF Chained
<1>6. QED
  BY <1>2, <1>3, <1>4, <1>5 DEF Chained, rest

-----------------------------------------------------------------------------
(* The steps that leave supervisor and runtimes alone.                     *)

\* A step of configctl or of the loop that loads nothing and makes no load due
\* that no change pays for.
LEMMA QuietStep ==
  ASSUME ConsumerInv, ConsumerTypes', Linked',
         UNCHANGED <<loaded, supervisor, mailbox, runtimes>>,
         DueFor(active', loop', loaded') + changes <= DueFor(active, loop, loaded) + changes'
  PROVE  ConsumerInv'
<1>1. LoadsChained'
  BY DEF ConsumerInv, LoadsChained
<1>2. Counted'
  <2>1. Cardinality(LoadsIn(mailbox)) \in Nat
    BY LoadsFinite DEF ConsumerInv, ConsumerTypes
  <2>2. supervisor.generation \in Nat /\ changes \in Nat /\ changes' \in Nat
    BY ConsumerConstantsAssumption DEF ConsumerInv, ConsumerTypes
  <2>3. DueFor(active, loop, loaded) \in Nat /\ DueFor(active', loop', loaded') \in Nat
    BY DEF DueFor, Differs
  <2>4. supervisor.generation + Cardinality(LoadsIn(mailbox)) + DueFor(active, loop, loaded) <= changes + 1
    BY DEF ConsumerInv, Counted
  <2>5. supervisor.generation + Cardinality(LoadsIn(mailbox)) + DueFor(active', loop', loaded') <= changes' + 1
    BY <2>1, <2>2, <2>3, <2>4
  <2>6. QED
    BY <2>5 DEF Counted
<1>3. MessagesTrue' /\ ReadyTrue' /\ NewestLives'
  BY DEF ConsumerInv, MessagesTrue, ReadyTrue, NewestLives, FailureFrom, GoesOn, Failed
<1>4. ReplacedIsPoisoned' /\ ReloadMeansChange'
  BY DEF ConsumerInv, ReplacedIsPoisoned, ReloadMeansChange
<1>5. QED
  BY <1>1, <1>2, <1>3, <1>4 DEF ConsumerInv

\* No step changes the view of a runtime.
ViewsKept ==
  /\ Len(runtimes) <= Len(runtimes')
  /\ \A g \in 1 .. Len(runtimes) : runtimes'[g].view = runtimes[g].view

\* The steps of configctl.
LEMMA BindingsChangeKeeps ==
  ASSUME ConsumerInv, BindingsChange
  PROVE  ConsumerInv'
<1>1. ASSUME NEW view \in Views, Activate(view)
      PROVE  ConsumerInv'
  <2>1. ConsumerTypes'
    BY <1>1, ConsumerConstantsAssumption DEF Activate, ConsumerInv, ConsumerTypes
  <2>2. Linked'
    BY <1>1 DEF Activate, ConsumerInv, Linked
  <2>3. changes \in Nat /\ changes' = changes + 1
    BY <1>1, ConsumerConstantsAssumption DEF Activate, ConsumerInv, ConsumerTypes
  <2>4. /\ DueFor(active, loop, loaded) \in Nat
        /\ DueFor(active', loop', loaded') \in Nat
        /\ DueFor(active', loop', loaded') <= DueFor(active, loop, loaded) + 1
    BY <1>1 DEF Activate, DueFor, Differs
  <2>5. DueFor(active', loop', loaded') + changes <= DueFor(active, loop, loaded) + changes'
    BY <2>3, <2>4
  <2>6. QED
    BY <1>1, <2>1, <2>2, <2>5, QuietStep DEF Activate
<1>2. ASSUME Clear
      PROVE  ConsumerInv'
  <2>1. ConsumerTypes'
    <3>1. event' \in BOOLEAN
      BY <1>2 DEF Clear, ConsumerInv, ConsumerTypes
    <3>2. active' \in Views \cup {None} /\ changes' \in 0 .. MaxChanges
      BY <1>2, ConsumerConstantsAssumption DEF Clear, ConsumerInv, ConsumerTypes
    <3>3. QED
      BY <1>2, <3>1, <3>2 DEF Clear, ConsumerInv, ConsumerTypes
  <2>2. Linked'
    BY <1>2 DEF Clear, ConsumerInv, Linked
  <2>3. changes \in Nat /\ changes' = changes + 1
    BY <1>2, ConsumerConstantsAssumption DEF Clear, ConsumerInv, ConsumerTypes
  <2>4. /\ DueFor(active, loop, loaded) \in Nat
        /\ DueFor(active', loop', loaded') \in Nat
        /\ DueFor(active', loop', loaded') <= DueFor(active, loop, loaded) + 1
    BY <1>2 DEF Clear, DueFor, Differs
  <2>5. DueFor(active', loop', loaded') + changes <= DueFor(active, loop, loaded) + changes'
    BY <2>3, <2>4
  <2>6. QED
    BY <1>2, <2>1, <2>2, <2>5, QuietStep DEF Clear
<1>3. QED
  BY <1>1, <1>2 DEF BindingsChange

\* A message the supervisor may get that loads nothing; one of the messages that
\* are no report of a runtime.
LEMMA SendPlain ==
  ASSUME ConsumerInv, ConsumerTypes', Linked',
         NEW message \in SupervisorMessages, message.kind \in {"bootstrap_failed", "poison"},
         mailbox' = Append(mailbox, message),
         UNCHANGED <<active, changes, loaded, supervisor, runtimes>>,
         DueFor(active', loop', loaded') <= DueFor(active, loop, loaded)
  PROVE  ConsumerInv'
<1>1. mailbox \in Seq(SupervisorMessages)
  BY DEF ConsumerInv, ConsumerTypes
<1>2. LoadsChained'
  <2>1. supervisor.status # "stopped" => Chained(LastView(runtimes), mailbox', loaded)
    BY <1>1, ChainSentOther DEF ConsumerInv, LoadsChained
  <2>2. QED
    BY <2>1 DEF LoadsChained
<1>3. Counted'
  <2>1. /\ Cardinality(LoadsIn(mailbox')) = Cardinality(LoadsIn(mailbox)) + 0
        /\ Cardinality(LoadsIn(mailbox)) \in Nat
    BY <1>1, Sent, LoadsFinite
  <2>2. supervisor.generation \in Nat /\ changes \in Nat
    BY ConsumerConstantsAssumption DEF ConsumerInv, ConsumerTypes
  <2>3. DueFor(active, loop, loaded) \in Nat /\ DueFor(active', loop', loaded') \in Nat
    BY DEF DueFor, Differs
  <2>4. supervisor.generation + Cardinality(LoadsIn(mailbox)) + DueFor(active, loop, loaded) <= changes + 1
    BY DEF ConsumerInv, Counted
  <2>5. supervisor.generation + Cardinality(LoadsIn(mailbox')) + DueFor(active', loop', loaded') <= changes + 1
    BY <2>1, <2>2, <2>3, <2>4
  <2>6. QED
    BY <2>5 DEF Counted
<1>4. MessagesTrue' /\ ReadyTrue' /\ NewestLives'
  <2>1. /\ Len(mailbox) \in Nat
        /\ Len(mailbox') = Len(mailbox) + 1
        /\ \A i \in 1 .. Len(mailbox) : mailbox'[i] = mailbox[i]
        /\ mailbox'[Len(mailbox) + 1] = message
    BY <1>1, Sent
  <2>2. QED
    BY <2>1 DEF ConsumerInv, MessagesTrue, ReadyTrue, NewestLives, FailureFrom, GoesOn, Failed
<1>5. ReplacedIsPoisoned' /\ ReloadMeansChange'
  BY DEF ConsumerInv, ReplacedIsPoisoned, ReloadMeansChange
<1>6. QED
  BY <1>2, <1>3, <1>4, <1>5 DEF ConsumerInv

\* The messages are messages.
LEMMA MessageTypes ==
  /\ BootstrapFailed \in SupervisorMessages
  /\ Poison \in SupervisorMessages
  /\ \A view \in Views : Loaded(view) \in SupervisorMessages
  /\ \A g \in Nat : Failed(g) \in SupervisorMessages
BY DEF BootstrapFailed, Poison, Loaded, Failed, SupervisorMessages

\* The bootstrap actor, but for the end of a refresh.
LEMMA LoopKeeps ==
  ASSUME ConsumerInv, Subscribe \/ Notify \/ TakeSignal \/ Tick \/ Poll
  PROVE  ConsumerInv'
<1>1. CASE Subscribe
  <2>1. Linked'
    BY <1>1 DEF Subscribe, Loop, Send, ConsumerInv, Linked
  <2>2. DueFor(active', loop', loaded') = DueFor(active, loop, loaded)
    BY <1>1 DEF Subscribe, Loop, DueFor
  <2>3. DueFor(active, loop, loaded) \in Nat /\ changes \in Nat /\ changes' = changes
    BY <1>1, ConsumerConstantsAssumption DEF Subscribe, DueFor, Differs, ConsumerInv, ConsumerTypes
  <2>4. CASE UNCHANGED mailbox
    <3>1. ConsumerTypes'
      BY <1>1, <2>4 DEF Subscribe, Loop, ConsumerInv, ConsumerTypes
    <3>2. QED
      BY <1>1, <2>1, <2>2, <2>3, <2>4, <3>1, QuietStep DEF Subscribe
  <2>5. CASE mailbox' = Append(mailbox, BootstrapFailed)
    <3>1. ConsumerTypes'
      BY <1>1, <2>5, Sent, MessageTypes DEF Subscribe, Loop, ConsumerInv, ConsumerTypes
    <3>2. QED
      BY <1>1, <2>1, <2>2, <2>3, <2>5, <3>1, SendPlain, MessageTypes DEF Subscribe, BootstrapFailed
  <2>6. QED
    BY <1>1, <2>4, <2>5 DEF Subscribe, Send
<1>2. CASE Notify \/ TakeSignal \/ Tick
  <2>1. ConsumerTypes'
    <3>1. event' \in BOOLEAN /\ signal' \in BOOLEAN
      BY <1>2 DEF Notify, TakeSignal, Tick, ConsumerInv, ConsumerTypes
    <3>2. loop' \in [state : {"starting", "idle", "polling", "fetched", "stopped"},
                     view : Views \cup {None}]
      BY <1>2 DEF Notify, TakeSignal, Tick, Loop, ConsumerInv, ConsumerTypes
    <3>3. QED
      BY <1>2, <3>1, <3>2 DEF Notify, TakeSignal, Tick, ConsumerInv, ConsumerTypes
  <2>2. Linked'
    BY <1>2 DEF Notify, TakeSignal, Tick, Loop, ConsumerInv, Linked
  <2>3. DueFor(active', loop', loaded') = DueFor(active, loop, loaded)
    BY <1>2 DEF Notify, TakeSignal, Tick, Loop, DueFor
  <2>4. DueFor(active, loop, loaded) \in Nat /\ changes \in Nat /\ changes' = changes
    BY <1>2, ConsumerConstantsAssumption
    DEF Notify, TakeSignal, Tick, DueFor, Differs, ConsumerInv, ConsumerTypes
  <2>5. QED
    BY <1>2, <2>1, <2>2, <2>3, <2>4, QuietStep DEF Notify, TakeSignal, Tick
<1>3. CASE Poll
  <2>1. ConsumerTypes'
    BY <1>3 DEF Poll, Loop, ConsumerInv, ConsumerTypes
  <2>2. Linked'
    BY <1>3 DEF Poll, Loop, ConsumerInv, ConsumerTypes, Linked
  <2>3. DueFor(active', loop', loaded') = DueFor(active, loop, loaded)
    BY <1>3 DEF Poll, Loop, DueFor, Differs
  <2>4. DueFor(active, loop, loaded) \in Nat /\ changes \in Nat /\ changes' = changes
    BY <1>3, ConsumerConstantsAssumption DEF Poll, DueFor, Differs, ConsumerInv, ConsumerTypes
  <2>5. QED
    BY <1>3, <2>1, <2>2, <2>3, <2>4, QuietStep DEF Poll
<1>4. QED
  BY <1>1, <1>2, <1>3

\* The end of a refresh.
LEMMA RefreshKeeps ==
  ASSUME ConsumerInv, Refresh
  PROVE  ConsumerInv'
<1>1. /\ mailbox \in Seq(SupervisorMessages)
      /\ supervisor.status # "stopped"
      /\ supervisor.generation \in Nat
      /\ changes \in Nat
      /\ loop.view \in Views
  BY ConsumerConstantsAssumption DEF Refresh, ConsumerInv, ConsumerTypes, Linked
<1>2. Linked'
  BY <1>1 DEF Refresh, Loop, ConsumerInv, Linked
<1>3. DueFor(active, loop, loaded) \in Nat /\ DueFor(active', loop', loaded') \in Nat
  BY DEF DueFor, Differs
<1>4. CASE loop.view \in Unbuildable \/ loop.view = loaded
  <2>1. DueFor(active', loop', loaded') <= DueFor(active, loop, loaded) /\ UNCHANGED loaded
    BY <1>4 DEF Refresh, Loop, DueFor, Differs
  <2>2. CASE UNCHANGED mailbox
    <3>1. ConsumerTypes'
      BY <1>1, <2>1, <2>2 DEF Refresh, Loop, ConsumerInv, ConsumerTypes
    <3>2. DueFor(active', loop', loaded') + changes <= DueFor(active, loop, loaded) + changes' /\ UNCHANGED <<supervisor, runtimes>>
      BY <1>1, <1>3, <2>1 DEF Refresh
    <3>3. QED
      BY <1>2, <2>1, <2>2, <3>1, <3>2, QuietStep
  <2>3. CASE mailbox' = Append(mailbox, BootstrapFailed)
    <3>1. mailbox' \in Seq(SupervisorMessages)
      BY <1>1, <2>3, Sent, MessageTypes
    <3>2. ConsumerTypes'
      BY <1>1, <2>1, <3>1 DEF Refresh, Loop, ConsumerInv, ConsumerTypes
    <3>3. UNCHANGED <<active, changes, supervisor, runtimes>>
      BY DEF Refresh
    <3>4. BootstrapFailed.kind = "bootstrap_failed"
      BY DEF BootstrapFailed
    <3>5. QED
      BY <1>2, <2>1, <2>3, <3>2, <3>3, <3>4, SendPlain, MessageTypes
  <2>4. QED
    BY <1>1, <1>4, <2>2, <2>3 DEF Refresh, Send
<1>5. CASE loop.view \notin Unbuildable /\ loop.view # loaded
  <2> DEFINE message == Loaded(loop.view)
  <2>1. /\ loaded' = loop.view
        /\ mailbox' = Append(mailbox, message)
        /\ UNCHANGED <<active, changes, event, signal, supervisor, runtimes>>
        /\ loop' = Loop("idle", None)
    BY <1>1, <1>5 DEF Refresh, Send
  <2>2. /\ message \in SupervisorMessages
        /\ message.kind = "loaded"
        /\ message.view = loop.view
    BY <1>1, MessageTypes DEF Loaded
  <2> HIDE DEF message
  <2>3. ConsumerTypes'
    <3>1. mailbox' \in Seq(SupervisorMessages)
      BY <1>1, <2>1, <2>2, Sent
    <3>2. QED
      BY <1>1, <1>5, <2>1, <3>1 DEF Loop, ConsumerInv, ConsumerTypes
  <2>4. LoadsChained'
    <3>1. Chained(LastView(runtimes), mailbox', message.view)
      BY <1>1, <1>5, <2>1, <2>2, ChainSentLoaded DEF ConsumerInv, LoadsChained
    <3>2. QED
      BY <2>1, <2>2, <3>1 DEF LoadsChained
  <2>5. Counted'
    <3>1. /\ Cardinality(LoadsIn(mailbox')) = Cardinality(LoadsIn(mailbox)) + 1
          /\ Cardinality(LoadsIn(mailbox)) \in Nat
      BY <1>1, <2>1, <2>2, Sent, LoadsFinite
    <3>2. DueFor(active', loop', loaded') + 1 = DueFor(active, loop, loaded)
      BY <1>5, <2>1 DEF Refresh, Loop, DueFor, Differs
    <3>3. supervisor.generation + Cardinality(LoadsIn(mailbox)) + DueFor(active, loop, loaded) <= changes + 1
      BY DEF ConsumerInv, Counted
    <3>4. supervisor.generation + Cardinality(LoadsIn(mailbox')) + DueFor(active', loop', loaded') <= changes + 1
      BY <1>1, <1>3, <3>1, <3>2, <3>3
    <3>5. QED
      BY <2>1, <3>4 DEF Counted
  <2>6. MessagesTrue' /\ ReadyTrue' /\ NewestLives'
    <3>1. /\ Len(mailbox) \in Nat
          /\ Len(mailbox') = Len(mailbox) + 1
          /\ \A i \in 1 .. Len(mailbox) : mailbox'[i] = mailbox[i]
          /\ mailbox'[Len(mailbox) + 1] = message
      BY <1>1, <2>1, <2>2, Sent
    <3>2. QED
      BY <1>1, <1>5, <2>1, <2>2, <3>1 DEF ConsumerInv, MessagesTrue, ReadyTrue, NewestLives, FailureFrom, GoesOn, Failed
  <2>7. ReplacedIsPoisoned' /\ ReloadMeansChange'
    BY <2>1 DEF ConsumerInv, ReplacedIsPoisoned, ReloadMeansChange
  <2>8. QED
    BY <1>2, <2>3, <2>4, <2>5, <2>6, <2>7 DEF ConsumerInv
<1>6. QED
  BY <1>4, <1>5

-----------------------------------------------------------------------------
(* The supervisor.                                                         *)

\* A message other than a load is taken, and a poison may be sent for it.
LEMMA TakenOther ==
  ASSUME NEW box \in Seq(SupervisorMessages), box # <<>>, Head(box).kind # "loaded",
         NEW last, NEW final,
         NEW next \in {Tail(box), Append(Tail(box), Poison)}
  PROVE  /\ next \in Seq(SupervisorMessages)
         /\ Cardinality(LoadsIn(next)) = Cardinality(LoadsIn(box))
         /\ Chained(last, box, final) => Chained(last, next, final)
         /\ Len(box) \in Nat /\ Len(next) \in Nat /\ Len(next) + 1 >= Len(box)
         /\ \A i \in 1 .. Len(next) :
              \/ i + 1 \in 1 .. Len(box) /\ next[i] = box[i + 1]
              \/ next[i].kind = "poison"
         /\ \A i \in 2 .. Len(box) : next[i - 1] = box[i]
<1>1. /\ Tail(box) \in Seq(SupervisorMessages)
      /\ Len(box) \in Nat \ {0}
      /\ Len(Tail(box)) = Len(box) - 1
      /\ \A i \in 1 .. Len(box) - 1 : Tail(box)[i] = box[i + 1]
  BY Taken
<1>2. Cardinality(LoadsIn(Tail(box))) = Cardinality(LoadsIn(box))
  <2>1. Cardinality(LoadsIn(Tail(box))) = Cardinality(LoadsIn(box)) - 0
    BY Taken
  <2>2. QED
    BY <2>1, LoadsFinite
<1>3. Chained(last, box, final) => Chained(last, Tail(box), final)
  BY ChainTakenOther
<1> DEFINE rest == Tail(box)
<1>4. CASE next = Tail(box)
  BY <1>1, <1>2, <1>3, <1>4
<1>5. CASE next = Append(Tail(box), Poison)
  <2>1. Poison \in SupervisorMessages /\ Poison.kind = "poison"
    BY MessageTypes DEF Poison
  <2>2. /\ next \in Seq(SupervisorMessages)
        /\ Len(next) = Len(rest) + 1
        /\ \A i \in 1 .. Len(rest) : next[i] = rest[i]
        /\ next[Len(rest) + 1] = Poison
    BY <1>1, <1>5, <2>1, Sent
  <2>3. Cardinality(LoadsIn(next)) = Cardinality(LoadsIn(box))
    <3>1. Cardinality(LoadsIn(next)) = Cardinality(LoadsIn(rest)) + 0
      BY <1>1, <1>5, <2>1, Sent
    <3>2. QED
      BY <1>1, <1>2, <3>1, LoadsFinite
  <2>4. Chained(last, box, final) => Chained(last, next, final)
    BY <1>1, <1>3, <1>5, <2>1, ChainSentOther
  <2> HIDE DEF rest
  <2>5. /\ Len(box) \in Nat \ {0}
        /\ Len(rest) = Len(box) - 1
        /\ \A i \in 1 .. Len(box) - 1 : rest[i] = box[i + 1]
    BY <1>1 DEF rest
  <2>6. \A i \in 1 .. Len(next) :
          \/ i + 1 \in 1 .. Len(box) /\ next[i] = box[i + 1]
          \/ next[i].kind = "poison"
    BY <2>1, <2>2, <2>5
  <2>7. \A i \in 2 .. Len(box) : next[i - 1] = box[i]
    BY <2>2, <2>5
  <2>8. QED
    BY <2>2, <2>3, <2>4, <2>5, <2>6, <2>7
<1>6. QED
  BY <1>4, <1>5

\* What is on its way stays on its way, and true, when the first message is taken.
LEMMA StillOnTheWay ==
  ASSUME ConsumerInv, mailbox # <<>>, Head(mailbox).kind # "loaded",
         mailbox' \in {Tail(mailbox), Append(Tail(mailbox), Poison)},
         UNCHANGED runtimes
  PROVE  /\ MessagesTrue'
         /\ \A i \in 2 .. Len(mailbox) : FailureFrom(i) => FailureFrom(i - 1)'
         /\ FailureFrom(1) /\ mailbox[1] # Failed(Len(runtimes)) => FailureFrom(1)'
<1>1. mailbox \in Seq(SupervisorMessages)
  BY DEF ConsumerInv, ConsumerTypes
<1>2. /\ Len(mailbox) \in Nat /\ Len(mailbox') \in Nat /\ Len(mailbox') + 1 >= Len(mailbox)
      /\ \A i \in 1 .. Len(mailbox') :
           \/ i + 1 \in 1 .. Len(mailbox) /\ mailbox'[i] = mailbox[i + 1]
           \/ mailbox'[i].kind = "poison"
      /\ \A i \in 2 .. Len(mailbox) : mailbox'[i - 1] = mailbox[i]
  BY <1>1, TakenOther
<1>3. \A i \in 2 .. Len(mailbox) + 1 : FailureFrom(i) => FailureFrom(i - 1)'
  <2> SUFFICES ASSUME NEW i \in 2 .. Len(mailbox) + 1, FailureFrom(i)
               PROVE  FailureFrom(i - 1)'
    OBVIOUS
  <2>1. PICK j \in i .. Len(mailbox) : mailbox[j] = Failed(Len(runtimes))
    BY DEF FailureFrom
  <2>2. j - 1 \in i - 1 .. Len(mailbox') /\ mailbox'[j - 1] = Failed(Len(runtimes'))
    BY <1>2, <2>1
  <2>3. QED
    BY <2>2 DEF FailureFrom, Failed
<1>4. FailureFrom(1) /\ mailbox[1] # Failed(Len(runtimes)) => FailureFrom(1)'
  <2> SUFFICES ASSUME FailureFrom(1), mailbox[1] # Failed(Len(runtimes))
               PROVE  FailureFrom(1)'
    OBVIOUS
  <2>1. PICK j \in 1 .. Len(mailbox) : mailbox[j] = Failed(Len(runtimes))
    BY DEF FailureFrom
  <2>2. j - 1 \in 1 .. Len(mailbox') /\ mailbox'[j - 1] = Failed(Len(runtimes'))
    BY <1>2, <2>1
  <2>3. QED
    BY <2>2 DEF FailureFrom, Failed
<1>5. MessagesTrue'
  <2> SUFFICES ASSUME NEW i \in 1 .. Len(mailbox'), mailbox'[i].kind # "poison"
               PROVE  /\ mailbox'[i].kind = "loaded" => mailbox'[i].view \in Views \ Unbuildable
                      /\ mailbox'[i].kind = "ready" =>
                           /\ mailbox'[i].generation \in 1 .. Len(runtimes')
                           /\ mailbox'[i].view = runtimes'[mailbox'[i].generation].view
                           /\ mailbox'[i].generation = Len(runtimes') =>
                                GoesOn(Len(runtimes))' \/ FailureFrom(i + 1)'
    BY DEF MessagesTrue
  <2>1. i + 1 \in 1 .. Len(mailbox) /\ mailbox'[i] = mailbox[i + 1]
    BY <1>2
  <2>2. /\ mailbox[i + 1].kind = "loaded" => mailbox[i + 1].view \in Views \ Unbuildable
        /\ mailbox[i + 1].kind = "ready" =>
             /\ mailbox[i + 1].generation \in 1 .. Len(runtimes)
             /\ mailbox[i + 1].view = runtimes[mailbox[i + 1].generation].view
             /\ mailbox[i + 1].generation = Len(runtimes) =>
                  GoesOn(Len(runtimes)) \/ FailureFrom((i + 1) + 1)
    BY <2>1 DEF ConsumerInv, MessagesTrue
  <2>3. FailureFrom((i + 1) + 1) => FailureFrom(i + 1)'
    <3>1. (i + 1) + 1 \in 2 .. Len(mailbox) + 1 /\ ((i + 1) + 1) - 1 = i + 1
      BY <1>2, <2>1
    <3>2. QED
      BY <1>3, <3>1
  <2>4. GoesOn(Len(runtimes)) => GoesOn(Len(runtimes))'
    BY DEF GoesOn
  <2>5. QED
    BY <2>1, <2>2, <2>3, <2>4
<1>6. QED
  BY <1>2, <1>3, <1>4, <1>5

\* A message other than a load.
LEMMA OtherMessageKeeps ==
  ASSUME ConsumerInv, HandleMessage, Head(mailbox).kind # "loaded"
  PROVE  ConsumerInv' /\ UNCHANGED runtimes
<1> DEFINE message == Head(mailbox)
<1>1. /\ mailbox \in Seq(SupervisorMessages)
      /\ mailbox # <<>>
      /\ message = mailbox[1]
      /\ message \in SupervisorMessages
      /\ Len(mailbox) \in Nat \ {0}
  BY Taken DEF ConsumerInv, ConsumerTypes, HandleMessage
<1>2. /\ mailbox' \in {Tail(mailbox), Append(Tail(mailbox), Poison)}
      /\ UNCHANGED <<active, changes, event, signal, loop, loaded, runtimes>>
  BY DEF HandleMessage
<1>3. /\ supervisor'.generation = supervisor.generation
      /\ supervisor' \in [status : {"alive", "dying", "stopped"}, generation : Nat,
                          ready : BOOLEAN, signature : Views \cup {None}]
      /\ supervisor'.status # "stopped"
      /\ supervisor.status # "stopped"
  <2>1. supervisor.status # "stopped"
    BY <1>1 DEF ConsumerInv, Linked
  <2>2. \/ supervisor' = supervisor
        \/ supervisor' = [supervisor EXCEPT !.ready = TRUE, !.signature = message.view]
        \/ supervisor' = [supervisor EXCEPT !.ready = FALSE]
        \/ supervisor' = [supervisor EXCEPT !.status = "dying"]
    BY DEF HandleMessage, RuntimeIsReady
  <2>3. /\ supervisor \in [status : {"alive", "dying", "stopped"}, generation : Nat,
                            ready : BOOLEAN, signature : Views \cup {None}]
        /\ message.view \in Views \cup {None}
    BY <1>1 DEF ConsumerInv, ConsumerTypes, SupervisorMessages
  <2> HIDE DEF message
  <2>4. QED
    BY <2>1, <2>2, <2>3
<1>4. /\ mailbox' \in Seq(SupervisorMessages)
      /\ Cardinality(LoadsIn(mailbox')) = Cardinality(LoadsIn(mailbox))
      /\ Chained(LastView(runtimes), mailbox', loaded)
  <2>1. Chained(LastView(runtimes), mailbox, loaded)
    BY <1>3 DEF ConsumerInv, LoadsChained
  <2>2. ASSUME NEW next \in {Tail(mailbox), Append(Tail(mailbox), Poison)}
        PROVE  /\ next \in Seq(SupervisorMessages)
               /\ Cardinality(LoadsIn(next)) = Cardinality(LoadsIn(mailbox))
               /\ Chained(LastView(runtimes), next, loaded)
    <3>1. mailbox \in Seq(SupervisorMessages) /\ mailbox # <<>> /\ Head(mailbox).kind # "loaded"
      BY <1>1
    <3> HIDE DEF message
    <3>2. /\ next \in Seq(SupervisorMessages)
          /\ Cardinality(LoadsIn(next)) = Cardinality(LoadsIn(mailbox))
      BY <2>2, <3>1, TakenOther
    <3>3. Chained(LastView(runtimes), mailbox, loaded) => Chained(LastView(runtimes), next, loaded)
      BY <2>2, <3>1, TakenOther
    <3>4. QED
      BY <2>1, <3>2, <3>3
  <2>3. QED
    BY <1>2, <2>2
<1>5. ConsumerTypes'
  BY <1>2, <1>3, <1>4 DEF ConsumerInv, ConsumerTypes
<1>6. Linked'
  BY <1>2, <1>3 DEF ConsumerInv, Linked
<1>7. LoadsChained'
  BY <1>2, <1>4 DEF LoadsChained
<1>8. Counted'
  BY <1>2, <1>3, <1>4 DEF ConsumerInv, Counted
<1>9. /\ MessagesTrue'
      /\ FailureFrom(2) => FailureFrom(1)'
      /\ FailureFrom(1) /\ mailbox[1] # Failed(Len(runtimes)) => FailureFrom(1)'
  <2>1. /\ MessagesTrue'
        /\ \A i \in 2 .. Len(mailbox) : FailureFrom(i) => FailureFrom(i - 1)'
        /\ FailureFrom(1) /\ mailbox[1] # Failed(Len(runtimes)) => FailureFrom(1)'
    BY <1>1, <1>2, StillOnTheWay
  <2>2. FailureFrom(2) => 2 \in 2 .. Len(mailbox) /\ 2 - 1 = 1
    BY <1>1 DEF FailureFrom
  <2>3. QED
    BY <2>1, <2>2
<1>10. ReadyTrue'
  <2> SUFFICES ASSUME supervisor'.ready
               PROVE  /\ Len(runtimes) # 0
                      /\ runtimes[Len(runtimes)].view = supervisor'.signature
                      /\ GoesOn(Len(runtimes)) \/ FailureFrom(1)'
    BY <1>2 DEF ReadyTrue, GoesOn
  <2>1. CASE message.kind = "ready" /\ message.generation = supervisor.generation
    <3>1. 1 \in 1 .. Len(mailbox) /\ mailbox[1].generation = Len(runtimes)
      BY <1>1, <2>1 DEF ConsumerInv, Linked
    <3>2. /\ Len(runtimes) \in 1 .. Len(runtimes)
          /\ mailbox[1].view = runtimes[Len(runtimes)].view
          /\ GoesOn(Len(runtimes)) \/ FailureFrom(1 + 1)
      BY <1>1, <2>1, <3>1 DEF ConsumerInv, MessagesTrue
    <3>3. supervisor'.signature = message.view
      BY <2>1 DEF HandleMessage, RuntimeIsReady, ConsumerInv, ConsumerTypes
    <3>4. QED
      BY <1>1, <1>9, <3>2, <3>3
  <2>2. CASE /\ message.kind # "ready" \/ message.generation # supervisor.generation
             /\ message.kind # "failed" \/ message.generation # supervisor.generation
    <3>1. supervisor.ready /\ supervisor'.signature = supervisor.signature
      BY <1>1, <2>2 DEF HandleMessage, RuntimeIsReady, ConsumerInv, ConsumerTypes
    <3>2. mailbox[1] # Failed(Len(runtimes))
      BY <1>1, <2>2 DEF ConsumerInv, Linked, Failed
    <3>3. QED
      BY <1>9, <3>1, <3>2 DEF ConsumerInv, ReadyTrue
  <2>3. CASE message.kind = "failed" /\ message.generation = supervisor.generation
    BY <1>1, <2>3 DEF HandleMessage, ConsumerInv, ConsumerTypes
  <2>4. QED
    BY <2>1, <2>2, <2>3
<1>11. NewestLives'
  BY <1>2, <1>3 DEF ConsumerInv, NewestLives
<1>12. ReplacedIsPoisoned' /\ ReloadMeansChange'
  BY <1>2 DEF ConsumerInv, ReplacedIsPoisoned, ReloadMeansChange
<1>13. QED
  BY <1>2, <1>5, <1>6, <1>7, <1>8, <1>9, <1>10, <1>11, <1>12 DEF ConsumerInv

\* A load: the newest runtime is poisoned and a new one started beside it.
LEMMA LoadKeeps ==
  ASSUME ConsumerInv, HandleMessage, Head(mailbox).kind = "loaded"
  PROVE  ConsumerInv' /\ ViewsKept
<1> DEFINE message == Head(mailbox)
           n       == Len(runtimes)
           base    == IF n = 0 THEN runtimes ELSE [runtimes EXCEPT ![n].poisoned = TRUE]
<1>1. /\ mailbox \in Seq(SupervisorMessages)
      /\ mailbox # <<>>
      /\ mailbox' = Tail(mailbox)
      /\ StartRuntime(message.view)
      /\ UNCHANGED <<active, changes, event, signal, loop, loaded>>
  BY DEF HandleMessage, ConsumerInv, ConsumerTypes
<1>2. /\ message = mailbox[1]
      /\ mailbox' \in Seq(SupervisorMessages)
      /\ Len(mailbox) \in Nat \ {0}
      /\ Len(mailbox') = Len(mailbox) - 1
      /\ \A i \in 1 .. Len(mailbox') : mailbox'[i] = mailbox[i + 1]
      /\ Cardinality(LoadsIn(mailbox')) = Cardinality(LoadsIn(mailbox)) - 1
      /\ Cardinality(LoadsIn(mailbox)) \in Nat
  BY <1>1, Taken, LoadsFinite
<1>3. message.view \in Views \ Unbuildable
  <2>1. 1 \in 1 .. Len(mailbox)
    BY <1>2
  <2>2. QED
    BY <1>2, <2>1 DEF ConsumerInv, MessagesTrue
<1>4. /\ n \in Nat
      /\ supervisor.generation = n
      /\ supervisor.status # "stopped"
      /\ changes \in Nat
      /\ runtimes \in Seq(RuntimeStates)
  BY <1>1, LenProperties, ConsumerConstantsAssumption DEF ConsumerInv, ConsumerTypes, Linked
<1>5. /\ supervisor' = [supervisor EXCEPT !.generation = n + 1, !.ready = FALSE, !.signature = None]
      /\ runtimes' = Append(base, NewRuntime(message.view))
  BY <1>1, <1>4 DEF StartRuntime
<1>6. /\ base \in Seq(RuntimeStates)
      /\ Len(base) = n
      /\ \A g \in 1 .. n : base[g].view = runtimes[g].view
      /\ \A g \in 1 .. n : base[g].poisoned <=> runtimes[g].poisoned \/ g = n
  <2>1. CASE n = 0
    BY <1>4, <2>1
  <2>2. CASE n # 0
    <3>1. n \in 1 .. n /\ runtimes[n] \in RuntimeStates
      BY <1>4, <2>2, ElementOfSeq
    <3>2. /\ base = [runtimes EXCEPT ![n] = [runtimes[n] EXCEPT !.poisoned = TRUE]]
          /\ [runtimes[n] EXCEPT !.poisoned = TRUE] \in RuntimeStates
      BY <2>2, <3>1 DEF RuntimeStates
    <3>3. /\ base \in Seq(RuntimeStates)
          /\ Len(base) = n
          /\ \A g \in 1 .. n : base[g] = IF g = n THEN [runtimes[n] EXCEPT !.poisoned = TRUE]
                                                  ELSE runtimes[g]
      BY <1>4, <3>1, <3>2, ExceptSeq
    <3> HIDE DEF base
    <3>4. \A g \in 1 .. n : runtimes[g] \in RuntimeStates
      BY <1>4, ElementOfSeq
    <3>5. QED
      BY <3>1, <3>3, <3>4 DEF RuntimeStates
  <2>3. QED
    BY <2>1, <2>2
<1>7. /\ runtimes' \in Seq(RuntimeStates)
      /\ Len(runtimes') = n + 1
      /\ \A g \in 1 .. n : runtimes'[g] = base[g]
      /\ runtimes'[n + 1] = NewRuntime(message.view)
  <2>1. NewRuntime(message.view) \in RuntimeStates
    BY <1>3 DEF NewRuntime, RuntimeStates
  <2> HIDE DEF base, n
  <2>2. QED
    BY <1>5, <1>6, <2>1, AppendProperties
<1> HIDE DEF base, n, message
<1>8. /\ \A g \in 1 .. n : runtimes'[g].view = runtimes[g].view
      /\ \A g \in 1 .. n : runtimes'[g].poisoned <=> runtimes[g].poisoned \/ g = n
      /\ runtimes'[n + 1].view = message.view
      /\ ~runtimes'[n + 1].poisoned
  BY <1>6, <1>7 DEF NewRuntime
<1>9. /\ supervisor' \in [status : {"alive", "dying", "stopped"}, generation : Nat,
                          ready : BOOLEAN, signature : Views \cup {None}]
      /\ supervisor'.generation = n + 1
      /\ ~supervisor'.ready
      /\ supervisor'.status = supervisor.status
  <2>1. supervisor \in [status : {"alive", "dying", "stopped"}, generation : Nat,
                        ready : BOOLEAN, signature : Views \cup {None}]
    BY DEF ConsumerInv, ConsumerTypes
  <2>2. n + 1 \in Nat
    BY <1>4
  <2>3. supervisor' = [supervisor EXCEPT !.generation = n + 1, !.ready = FALSE, !.signature = None]
    BY <1>5
  <2>4. QED
    BY <2>1, <2>2, <2>3
<1>10. ConsumerTypes'
  BY <1>1, <1>2, <1>7, <1>9 DEF ConsumerInv, ConsumerTypes
<1>11. Linked'
  BY <1>1, <1>4, <1>7, <1>9 DEF ConsumerInv, Linked
<1>12. message.view # LastView(runtimes) /\ Chained(message.view, mailbox', loaded)
  <2>1. Chained(LastView(runtimes), mailbox, loaded)
    BY <1>4 DEF ConsumerInv, LoadsChained
  <2>2. QED
    BY <1>1, <2>1, ChainTakenLoaded DEF message
<1>13. LoadsChained'
  <2>1. runtimes' # <<>> /\ LastView(runtimes') = message.view
    BY <1>4, <1>7, <1>8, EmptySeq DEF LastView
  <2>2. QED
    BY <1>1, <1>12, <2>1 DEF LoadsChained
<1>14. Counted'
  <2>1. n + Cardinality(LoadsIn(mailbox)) + DueFor(active, loop, loaded) <= changes + 1
    BY <1>4 DEF ConsumerInv, Counted
  <2>2. DueFor(active, loop, loaded) \in Nat
    BY DEF DueFor, Differs
  <2>3. (n + 1) + (Cardinality(LoadsIn(mailbox)) - 1) + DueFor(active, loop, loaded) <= changes + 1
    BY <1>2, <1>4, <2>1, <2>2
  <2>4. QED
    BY <1>1, <1>2, <1>9, <2>3 DEF Counted
<1>15. MessagesTrue'
  <2> SUFFICES ASSUME NEW i \in 1 .. Len(mailbox')
               PROVE  /\ mailbox'[i].kind = "loaded" => mailbox'[i].view \in Views \ Unbuildable
                      /\ mailbox'[i].kind = "ready" =>
                           /\ mailbox'[i].generation \in 1 .. Len(runtimes')
                           /\ mailbox'[i].view = runtimes'[mailbox'[i].generation].view
                           /\ mailbox'[i].generation # Len(runtimes')
    BY DEF MessagesTrue
  <2>1. i + 1 \in 1 .. Len(mailbox) /\ mailbox'[i] = mailbox[i + 1]
    BY <1>2
  <2>2. /\ mailbox[i + 1].kind = "loaded" => mailbox[i + 1].view \in Views \ Unbuildable
        /\ mailbox[i + 1].kind = "ready" =>
             /\ mailbox[i + 1].generation \in 1 .. n
             /\ mailbox[i + 1].view = runtimes[mailbox[i + 1].generation].view
    BY <2>1 DEF ConsumerInv, MessagesTrue, n
  <2>3. QED
    BY <1>4, <1>7, <1>8, <2>1, <2>2
<1>16. ReadyTrue' /\ NewestLives'
  BY <1>4, <1>7, <1>8, <1>9 DEF ReadyTrue, NewestLives
<1>17. ReplacedIsPoisoned'
  <2> SUFFICES ASSUME NEW g \in 1 .. n + 1, NEW h \in 1 .. n + 1, g < h
               PROVE  runtimes'[g].poisoned
    BY <1>7, LenProperties DEF ReplacedIsPoisoned
  <2>1. g \in 1 .. n /\ n \in 1 .. n
    BY <1>4
  <2>2. g # n => runtimes[g].poisoned
    BY <1>4, <2>1, LenProperties DEF ConsumerInv, ReplacedIsPoisoned, n
  <2>3. QED
    BY <1>8, <2>1, <2>2
<1>18. ReloadMeansChange'
  <2> SUFFICES ASSUME NEW g \in 1 .. n + 1, g + 1 \in 1 .. n + 1
               PROVE  runtimes'[g].view # runtimes'[g + 1].view
    BY <1>7, LenProperties DEF ReloadMeansChange
  <2>1. CASE g + 1 \in 1 .. n
    <3>1. g \in 1 .. n /\ runtimes[g].view # runtimes[g + 1].view
      <4>1. g \in 1 .. n
        BY <1>4, <2>1
      <4>2. DOMAIN runtimes = 1 .. n
        BY <1>4, LenProperties DEF n
      <4>3. QED
        BY <2>1, <4>1, <4>2 DEF ConsumerInv, ReloadMeansChange
    <3>2. QED
      BY <1>8, <2>1, <3>1
  <2>2. CASE g = n
    <3>1. LastView(runtimes) = runtimes[n].view
      BY <1>4, <2>2, EmptySeq DEF LastView, n
    <3>2. QED
      BY <1>8, <1>12, <2>2, <3>1
  <2>3. QED
    BY <1>4, <2>1, <2>2
<1>19. ViewsKept
  BY <1>4, <1>7, <1>8 DEF ViewsKept, n
<1>20. QED
  BY <1>10, <1>11, <1>13, <1>14, <1>15, <1>16, <1>17, <1>18, <1>19 DEF ConsumerInv

\* The supervisor stops.
LEMMA StopSupervisorKeeps ==
  ASSUME ConsumerInv, StopSupervisor
  PROVE  ConsumerInv' /\ ViewsKept
<1>1. /\ runtimes \in Seq(RuntimeStates)
      /\ Len(runtimes) \in Nat
      /\ DOMAIN runtimes = 1 .. Len(runtimes)
      /\ \A g \in 1 .. Len(runtimes) : runtimes[g] \in RuntimeStates
  BY LenProperties, ElementOfSeq DEF ConsumerInv, ConsumerTypes
<1>2. /\ DOMAIN runtimes' = 1 .. Len(runtimes)
      /\ \A g \in 1 .. Len(runtimes) : /\ runtimes'[g] \in RuntimeStates
                                       /\ runtimes'[g].view = runtimes[g].view
                                       /\ runtimes'[g].poisoned
  BY <1>1 DEF StopSupervisor, RuntimeStates
<1>3. runtimes' \in Seq(RuntimeStates) /\ Len(runtimes') = Len(runtimes)
  <2>1. runtimes' \in [1 .. Len(runtimes) -> RuntimeStates]
    BY <1>1, <1>2 DEF StopSupervisor
  <2>2. QED
    BY <1>1, <2>1, SeqDef, LenProperties
<1>4. /\ supervisor' \in [status : {"alive", "dying", "stopped"}, generation : Nat,
                          ready : BOOLEAN, signature : Views \cup {None}]
      /\ supervisor'.generation = supervisor.generation
      /\ ~supervisor'.ready
      /\ supervisor'.status = "stopped"
  BY DEF StopSupervisor, ConsumerInv, ConsumerTypes
<1>5. mailbox' = <<>> /\ mailbox' \in Seq(SupervisorMessages) /\ Len(mailbox') = 0
  BY DEF StopSupervisor
<1>6. ConsumerTypes'
  BY <1>3, <1>4, <1>5 DEF StopSupervisor, Loop, ConsumerInv, ConsumerTypes
<1>7. Linked'
  BY <1>3, <1>4, <1>5 DEF StopSupervisor, Loop, ConsumerInv, Linked
<1>8. LoadsChained' /\ MessagesTrue' /\ ReadyTrue' /\ NewestLives'
  BY <1>4, <1>5 DEF LoadsChained, MessagesTrue, ReadyTrue, NewestLives
<1>9. Counted'
  <2>1. LoadsIn(mailbox') = {}
    BY <1>5 DEF LoadsIn
  <2>2. Cardinality(LoadsIn(mailbox')) = 0
    BY <2>1, FS_EmptySet
  <2>3. /\ Cardinality(LoadsIn(mailbox)) \in Nat
        /\ supervisor.generation \in Nat
        /\ changes \in Nat /\ UNCHANGED changes
    BY LoadsFinite, ConsumerConstantsAssumption DEF ConsumerInv, ConsumerTypes, StopSupervisor
  <2>4. /\ DueFor(active, loop, loaded) \in Nat
        /\ DueFor(active', loop', loaded') \in Nat
        /\ DueFor(active', loop', loaded') <= DueFor(active, loop, loaded)
    BY DEF StopSupervisor, Loop, DueFor, Differs
  <2>5. supervisor.generation + Cardinality(LoadsIn(mailbox)) + DueFor(active, loop, loaded)
          <= changes + 1
    BY DEF ConsumerInv, Counted
  <2>6. supervisor.generation + 0 + DueFor(active', loop', loaded') <= changes + 1
    BY <2>3, <2>4, <2>5
  <2>7. QED
    BY <1>4, <2>2, <2>3, <2>6 DEF Counted
<1>10. ReplacedIsPoisoned' /\ ReloadMeansChange'
  BY <1>1, <1>2 DEF ConsumerInv, ReplacedIsPoisoned, ReloadMeansChange
<1>11. ViewsKept
  BY <1>1, <1>2, <1>3 DEF ViewsKept
<1>12. QED
  BY <1>6, <1>7, <1>8, <1>9, <1>10, <1>11 DEF ConsumerInv

-----------------------------------------------------------------------------
(* The runtimes.                                                           *)

\* A step of the runtime of g, which reports it or not.
LEMMA RuntimeStep ==
  ASSUME ConsumerInv,
         NEW g \in DOMAIN runtimes, NEW new \in RuntimeStates,
         new.view = runtimes[g].view, runtimes[g].poisoned => new.poisoned,
         runtimes' = [runtimes EXCEPT ![g] = new],
         UNCHANGED <<active, changes, event, signal, loop, loaded, supervisor>>,
         NEW message \in SupervisorMessages, message.kind \in {"ready", "failed"},
         \/ mailbox' = mailbox
         \/ supervisor.status # "stopped" /\ mailbox' = Append(mailbox, message),
         message.kind = "ready" =>
           /\ message.generation = g
           /\ message.view = runtimes[g].view
           /\ supervisor.status # "stopped" /\ g = Len(runtimes) =>
                new.phase = "consuming" /\ ~new.poisoned,
         supervisor.status # "stopped" /\ GoesOn(Len(runtimes)) =>
           GoesOn(Len(runtimes))' \/ mailbox' = Append(mailbox, Failed(Len(runtimes))),
         NewestLives'
  PROVE  ConsumerInv' /\ ViewsKept
<1> DEFINE n == Len(runtimes)
<1>1. /\ runtimes \in Seq(RuntimeStates)
      /\ mailbox \in Seq(SupervisorMessages)
      /\ n \in Nat
      /\ DOMAIN runtimes = 1 .. n
      /\ Len(mailbox) \in Nat
  BY LenProperties DEF ConsumerInv, ConsumerTypes
<1>2. /\ runtimes' \in Seq(RuntimeStates)
      /\ Len(runtimes') = n
      /\ DOMAIN runtimes' = 1 .. n
      /\ \A h \in 1 .. n : runtimes'[h] = IF h = g THEN new ELSE runtimes[h]
  BY <1>1, ExceptSeq
<1>3. /\ \A h \in 1 .. n : runtimes'[h].view = runtimes[h].view
      /\ \A h \in 1 .. n : runtimes[h].poisoned => runtimes'[h].poisoned
  BY <1>2
<1> HIDE DEF n
<1>4. /\ mailbox' \in Seq(SupervisorMessages)
      /\ Cardinality(LoadsIn(mailbox')) = Cardinality(LoadsIn(mailbox))
      /\ supervisor.status # "stopped" => Chained(LastView(runtimes), mailbox', loaded)
  <2>1. CASE mailbox' = mailbox
    BY <1>1, <2>1 DEF ConsumerInv, LoadsChained
  <2>2. CASE supervisor.status # "stopped" /\ mailbox' = Append(mailbox, message)
    <3>1. /\ mailbox' \in Seq(SupervisorMessages)
          /\ Cardinality(LoadsIn(mailbox')) = Cardinality(LoadsIn(mailbox)) + 0
          /\ Cardinality(LoadsIn(mailbox)) \in Nat
      BY <1>1, <2>2, Sent, LoadsFinite
    <3>2. Chained(LastView(runtimes), mailbox', loaded)
      BY <1>1, <2>2, ChainSentOther DEF ConsumerInv, LoadsChained
    <3>3. QED
      BY <3>1, <3>2
  <2>3. QED
    BY <2>1, <2>2
<1>5. /\ Len(mailbox') \in Nat
      /\ Len(mailbox) <= Len(mailbox')
      /\ \A i \in 1 .. Len(mailbox) : mailbox'[i] = mailbox[i]
      /\ \A i \in 1 .. Len(mailbox') :
           i \in 1 .. Len(mailbox) \/ (mailbox'[i] = message /\ supervisor.status # "stopped")
  <2>1. CASE mailbox' = mailbox
    BY <1>1, <2>1
  <2>2. CASE supervisor.status # "stopped" /\ mailbox' = Append(mailbox, message)
    BY <1>1, <2>2, Sent
  <2>3. QED
    BY <2>1, <2>2
<1>6. \A i \in 1 .. Len(mailbox) + 1 : FailureFrom(i) => FailureFrom(i)'
  BY <1>1, <1>2, <1>5 DEF FailureFrom, Failed, n
<1>7. ASSUME supervisor.status # "stopped", GoesOn(n),
             NEW i \in 1 .. Len(mailbox) + 1
      PROVE  GoesOn(Len(runtimes))' \/ FailureFrom(i)'
  <2>1. CASE mailbox' = Append(mailbox, Failed(n))
    <3>1. Failed(n) \in SupervisorMessages
      BY <1>1, MessageTypes
    <3>2. Len(mailbox') = Len(mailbox) + 1 /\ mailbox'[Len(mailbox) + 1] = Failed(n)
      BY <1>1, <2>1, <3>1, Sent
    <3>3. Len(mailbox) + 1 \in i .. Len(mailbox')
      BY <1>1, <1>7, <3>2
    <3>4. QED
      BY <1>2, <3>2, <3>3 DEF FailureFrom, Failed
  <2>2. QED
    BY <1>7, <2>1 DEF n
<1>8. ConsumerTypes'
  BY <1>2, <1>4 DEF ConsumerInv, ConsumerTypes
<1>9. Linked'
  <2>1. supervisor.status = "stopped" => mailbox' = <<>>
    BY DEF ConsumerInv, Linked
  <2>2. QED
    BY <1>2, <2>1 DEF ConsumerInv, Linked, n
<1>10. LoadsChained'
  <2>1. LastView(runtimes') = LastView(runtimes)
    <3>1. runtimes' = <<>> <=> runtimes = <<>>
      BY <1>1, <1>2, EmptySeq DEF n
    <3>2. runtimes # <<>> => n \in 1 .. n
      BY <1>1, EmptySeq DEF n
    <3>3. QED
      BY <1>2, <1>3, <3>1, <3>2 DEF LastView, n
  <2>2. QED
    BY <1>4, <2>1 DEF LoadsChained
<1>11. Counted'
  BY <1>4 DEF ConsumerInv, Counted
<1>12. MessagesTrue'
  <2> SUFFICES ASSUME NEW i \in 1 .. Len(mailbox')
               PROVE  /\ mailbox'[i].kind = "loaded" => mailbox'[i].view \in Views \ Unbuildable
                      /\ mailbox'[i].kind = "ready" =>
                           /\ mailbox'[i].generation \in 1 .. n
                           /\ mailbox'[i].view = runtimes'[mailbox'[i].generation].view
                           /\ mailbox'[i].generation = n =>
                                GoesOn(Len(runtimes))' \/ FailureFrom(i + 1)'
    BY <1>2 DEF MessagesTrue
  <2>1. CASE i \in 1 .. Len(mailbox)
    <3>1. supervisor.status # "stopped"
      <4>1. Len(<<>>) = 0
        OBVIOUS
      <4>2. mailbox # <<>>
        BY <1>1, <2>1, <4>1
      <4>3. QED
        BY <4>2 DEF ConsumerInv, Linked
    <3>2. /\ mailbox[i].kind = "loaded" => mailbox[i].view \in Views \ Unbuildable
          /\ mailbox[i].kind = "ready" =>
               /\ mailbox[i].generation \in 1 .. n
               /\ mailbox[i].view = runtimes[mailbox[i].generation].view
               /\ mailbox[i].generation = n => GoesOn(n) \/ FailureFrom(i + 1)
      BY <2>1 DEF ConsumerInv, MessagesTrue, n
    <3>3. i + 1 \in 1 .. Len(mailbox) + 1
      BY <1>1, <2>1
    <3>4. QED
      BY <1>3, <1>5, <1>6, <1>7, <2>1, <3>1, <3>2, <3>3
  <2>2. CASE mailbox'[i] = message /\ supervisor.status # "stopped"
    <3>1. SUFFICES ASSUME message.kind = "ready"
                   PROVE  /\ g \in 1 .. n
                          /\ runtimes[g].view = runtimes'[g].view
                          /\ g = n => GoesOn(Len(runtimes))'
      BY <2>2
    <3>2. g = n => runtimes'[Len(runtimes')] = new /\ new.phase = "consuming" /\ ~new.poisoned
      BY <1>1, <1>2, <2>2, <3>1 DEF n
    <3>3. QED
      BY <1>1, <1>3, <3>2 DEF GoesOn
  <2>3. QED
    BY <1>5, <2>1, <2>2
<1>13. ReadyTrue'
  <2> SUFFICES ASSUME supervisor.ready
               PROVE  /\ n # 0
                      /\ runtimes'[n].view = supervisor.signature
                      /\ GoesOn(Len(runtimes))' \/ FailureFrom(1)'
    BY <1>2 DEF ReadyTrue
  <2>1. /\ n # 0
        /\ runtimes[n].view = supervisor.signature
        /\ GoesOn(n) \/ FailureFrom(1)
        /\ supervisor.status # "stopped"
    BY DEF ConsumerInv, ReadyTrue, Linked, n
  <2>2. n \in 1 .. n /\ 1 \in 1 .. Len(mailbox) + 1
    BY <1>1, <2>1
  <2>3. QED
    BY <1>3, <1>6, <1>7, <2>1, <2>2
<1>14. ReplacedIsPoisoned' /\ ReloadMeansChange'
  BY <1>1, <1>2, <1>3 DEF ConsumerInv, ReplacedIsPoisoned, ReloadMeansChange
<1>15. ViewsKept
  BY <1>1, <1>2, <1>3 DEF ViewsKept, n
<1>16. QED
  BY <1>8, <1>9, <1>10, <1>11, <1>12, <1>13, <1>14, <1>15 DEF ConsumerInv

\* A runtime starts, fails or stops.
LEMMA RuntimeKeeps ==
  ASSUME ConsumerInv, NEW g \in DOMAIN runtimes,
         RuntimeStarts(g) \/ Fail(g) \/ RuntimeStops(g)
  PROVE  ConsumerInv' /\ ViewsKept
<1> DEFINE n == Len(runtimes)
<1>1. /\ runtimes \in Seq(RuntimeStates)
      /\ n \in Nat
      /\ DOMAIN runtimes = 1 .. n
      /\ g \in Nat
      /\ runtimes[g] \in RuntimeStates
  BY LenProperties, ElementOfSeq DEF ConsumerInv, ConsumerTypes
<1>2. ASSUME NEW new \in RuntimeStates, runtimes' = [runtimes EXCEPT ![g] = new]
      PROVE  Len(runtimes') = n /\ \A h \in 1 .. n : runtimes'[h] = IF h = g THEN new ELSE runtimes[h]
  BY <1>1, <1>2, ExceptSeq
<1> HIDE DEF n
<1>3. CASE RuntimeStarts(g)
  <2> DEFINE new     == [runtimes[g] EXCEPT !.phase = "consuming"]
             message == Ready(g)
  <2>1. /\ new \in RuntimeStates
        /\ new.view = runtimes[g].view
        /\ new.poisoned = runtimes[g].poisoned
        /\ new.phase = "consuming"
        /\ runtimes' = [runtimes EXCEPT ![g] = new]
        /\ runtimes[g].phase = "starting"
    BY <1>1, <1>3 DEF RuntimeStarts, RuntimeStates
  <2>2. /\ message \in SupervisorMessages
        /\ message.kind = "ready"
        /\ message.generation = g
        /\ message.view = runtimes[g].view
    BY <1>1 DEF Ready, SupervisorMessages, RuntimeStates
  <2>3. \/ mailbox' = mailbox
        \/ supervisor.status # "stopped" /\ mailbox' = Append(mailbox, message)
    <3>1. CASE supervisor.status = "stopped"
      BY <1>3, <3>1 DEF RuntimeStarts, Send
    <3>2. CASE supervisor.status # "stopped"
      BY <1>3, <3>2 DEF RuntimeStarts, Send
    <3>3. QED
      BY <3>1, <3>2
  <2> HIDE DEF new, message
  <2>4. UNCHANGED <<active, changes, event, signal, loop, loaded, supervisor>>
    BY <1>3 DEF RuntimeStarts
  <2>5. Len(runtimes') = n /\ \A h \in 1 .. n : runtimes'[h] = IF h = g THEN new ELSE runtimes[h]
    BY <1>2, <2>1
  <2>6. supervisor.status # "stopped" /\ g = n => ~new.poisoned
    BY <1>1, <2>1 DEF ConsumerInv, NewestLives, n
  <2>7. GoesOn(n) => GoesOn(Len(runtimes))'
    <3>1. GoesOn(n) => n # g
      BY <2>1 DEF GoesOn
    <3>2. n # 0 /\ n # g => runtimes'[n] = runtimes[n]
      BY <1>1, <2>5
    <3>3. n # 0
      BY <1>1
    <3>4. QED
      BY <2>5, <3>1, <3>2, <3>3 DEF GoesOn
  <2>8. NewestLives'
    <3>1. n \in 1 .. n
      BY <1>1
    <3>2. supervisor.status # "stopped" /\ g # n /\ runtimes[n].phase \in {"starting", "consuming"}
            => ~runtimes[n].poisoned
      BY <1>1, <3>1 DEF ConsumerInv, NewestLives, n
    <3>3. QED
      BY <2>4, <2>5, <2>6, <3>1, <3>2 DEF NewestLives
  <2>9. QED
    BY <2>1, <2>2, <2>3, <2>4, <2>6, <2>7, <2>8, RuntimeStep DEF n
<1>4. CASE Fail(g)
  <2> DEFINE new     == [runtimes[g] EXCEPT !.phase = "failed", !.poisoned = TRUE]
             message == Failed(g)
  <2>1. /\ new \in RuntimeStates
        /\ new.view = runtimes[g].view
        /\ new.poisoned
        /\ new.phase = "failed"
        /\ runtimes' = [runtimes EXCEPT ![g] = new]
    BY <1>1, <1>4 DEF Fail, RuntimeStates
  <2>2. /\ message \in SupervisorMessages
        /\ message.kind = "failed"
    BY <1>1, MessageTypes DEF Failed
  <2>3. IF supervisor.status = "stopped" THEN mailbox' = mailbox
                                         ELSE mailbox' = Append(mailbox, message)
    BY <1>4 DEF Fail, Send
  <2> HIDE DEF new, message
  <2>4. UNCHANGED <<active, changes, event, signal, loop, loaded, supervisor>>
    BY <1>4 DEF Fail
  <2>5. Len(runtimes') = n /\ \A h \in 1 .. n : runtimes'[h] = IF h = g THEN new ELSE runtimes[h]
    BY <1>2, <2>1
  <2>6. supervisor.status # "stopped" /\ GoesOn(n) =>
          GoesOn(Len(runtimes))' \/ mailbox' = Append(mailbox, Failed(n))
    <3>1. n \in 1 .. n
      BY <1>1
    <3>2. CASE n = g
      BY <2>3, <3>2 DEF message
    <3>3. CASE n # g
      BY <2>5, <3>1, <3>3 DEF GoesOn
    <3>4. QED
      BY <3>2, <3>3
  <2>7. NewestLives'
    <3>1. n \in 1 .. n
      BY <1>1
    <3>2. supervisor.status # "stopped" /\ g # n /\ runtimes[n].phase \in {"starting", "consuming"}
            => ~runtimes[n].poisoned
      BY <1>1, <3>1 DEF ConsumerInv, NewestLives, n
    <3>3. QED
      BY <2>1, <2>4, <2>5, <3>1, <3>2 DEF NewestLives
  <2>8. \/ mailbox' = mailbox
        \/ supervisor.status # "stopped" /\ mailbox' = Append(mailbox, message)
    <3>1. CASE supervisor.status = "stopped"
      BY <2>3, <3>1
    <3>2. CASE supervisor.status # "stopped"
      BY <2>3, <3>2
    <3>3. QED
      BY <3>1, <3>2
  <2>9. QED
    BY <2>1, <2>2, <2>4, <2>6, <2>7, <2>8, RuntimeStep DEF n
<1>5. CASE RuntimeStops(g)
  <2> DEFINE new     == [runtimes[g] EXCEPT !.phase = "stopped"]
             message == Failed(g)
  <2>1. /\ new \in RuntimeStates
        /\ new.view = runtimes[g].view
        /\ new.poisoned
        /\ new.phase = "stopped"
        /\ runtimes' = [runtimes EXCEPT ![g] = new]
        /\ runtimes[g].poisoned
    BY <1>1, <1>5 DEF RuntimeStops, RuntimeStates
  <2>2. /\ message \in SupervisorMessages
        /\ message.kind = "failed"
    BY <1>1, MessageTypes DEF Failed
  <2> HIDE DEF new, message
  <2>3. UNCHANGED <<active, changes, event, signal, loop, loaded, supervisor>> /\ mailbox' = mailbox
    BY <1>5 DEF RuntimeStops
  <2>4. Len(runtimes') = n /\ \A h \in 1 .. n : runtimes'[h] = IF h = g THEN new ELSE runtimes[h]
    BY <1>2, <2>1
  <2>5. GoesOn(n) => GoesOn(Len(runtimes))'
    <3>1. GoesOn(n) => n # g
      BY <2>1 DEF GoesOn
    <3>2. n \in 1 .. n
      BY <1>1
    <3>3. QED
      BY <2>4, <3>1, <3>2 DEF GoesOn
  <2>6. NewestLives'
    <3>1. n \in 1 .. n
      BY <1>1
    <3>2. supervisor.status # "stopped" /\ g # n /\ runtimes[n].phase \in {"starting", "consuming"}
            => ~runtimes[n].poisoned
      BY <1>1, <3>1 DEF ConsumerInv, NewestLives, n
    <3>3. QED
      BY <2>1, <2>3, <2>4, <3>1, <3>2 DEF NewestLives
  <2>7. QED
    BY <2>1, <2>2, <2>3, <2>5, <2>6, RuntimeStep DEF n
<1>6. QED
  BY <1>3, <1>4, <1>5

-----------------------------------------------------------------------------
(* The invariant of the consumer.                                          *)

\* What a process starts with.
Started ==
  /\ active \in Views \cup {None}
  /\ changes \in 0 .. MaxChanges
  /\ event \in BOOLEAN
  /\ signal = FALSE
  /\ loop = Loop("starting", None)
  /\ loaded = None
  /\ supervisor = NewSupervisor
  /\ mailbox = <<>>
  /\ runtimes = <<>>

\* It is as the invariant says.
LEMMA StartKeeps == Started => ConsumerInv
<1> SUFFICES ASSUME Started
             PROVE  ConsumerInv
  OBVIOUS
<1>1. /\ mailbox \in Seq(SupervisorMessages) /\ Len(mailbox) = 0
      /\ runtimes \in Seq(RuntimeStates) /\ Len(runtimes) = 0 /\ DOMAIN runtimes = {}
  BY DEF Started
<1>2. ConsumerTypes
  BY <1>1 DEF Started, Loop, NewSupervisor, ConsumerTypes
<1>3. Linked
  BY <1>1 DEF Started, Loop, NewSupervisor, Linked
<1>4. LoadsIn(mailbox) = {}
  BY <1>1 DEF LoadsIn
<1>5. LoadsChained
  BY <1>4 DEF Started, LoadsChained, Chained, LastView
<1>6. Counted
  <2>1. Cardinality(LoadsIn(mailbox)) = 0
    BY <1>4, FS_EmptySet
  <2>2. DueFor(active, loop, loaded) \in 0 .. 1
    BY DEF Started, Loop, DueFor, Differs
  <2>3. supervisor.generation = 0 /\ changes \in Nat
    BY ConsumerConstantsAssumption DEF Started, NewSupervisor
  <2>4. QED
    BY <2>1, <2>2, <2>3 DEF Counted
<1>7. MessagesTrue /\ ReadyTrue /\ NewestLives
  BY <1>1 DEF Started, MessagesTrue, ReadyTrue, NewestLives, NewSupervisor
<1>8. ReplacedIsPoisoned /\ ReloadMeansChange
  BY <1>1 DEF ReplacedIsPoisoned, ReloadMeansChange
<1>9. QED
  BY <1>2, <1>3, <1>5, <1>6, <1>7, <1>8 DEF ConsumerInv

\* It holds at first.
LEMMA ConsumerInitKeeps ==
  ASSUME ConsumerInit
  PROVE  ConsumerInv
<1>1. 0 \in 0 .. MaxChanges
  BY ConsumerConstantsAssumption
<1>2. QED
  BY <1>1, StartKeeps DEF ConsumerInit, Started

\* A step that leaves the runtimes alone keeps their views.
LEMMA SameViews ==
  ASSUME ConsumerInv, UNCHANGED runtimes
  PROVE  ViewsKept
<1>1. Len(runtimes) \in Nat
  BY LenProperties DEF ConsumerInv, ConsumerTypes
<1>2. QED
  BY <1>1 DEF ViewsKept

\* Every step of the consumer keeps it.
LEMMA ConsumerStepKeeps ==
  ASSUME ConsumerInv, ConsumerStep
  PROVE  ConsumerInv' /\ ViewsKept
<1>1. CASE Subscribe \/ Notify \/ TakeSignal \/ Tick \/ Poll
  <2>1. UNCHANGED runtimes
    BY <1>1 DEF Subscribe, Notify, TakeSignal, Tick, Poll
  <2>2. QED
    BY <1>1, <2>1, LoopKeeps, SameViews
<1>2. CASE Refresh
  <2>1. UNCHANGED runtimes
    BY <1>2 DEF Refresh
  <2>2. QED
    BY <1>2, <2>1, RefreshKeeps, SameViews
<1>3. CASE HandleMessage
  BY <1>3, LoadKeeps, OtherMessageKeeps, SameViews
<1>4. CASE StopSupervisor
  BY <1>4, StopSupervisorKeeps
<1>5. ASSUME NEW g \in DOMAIN runtimes, RuntimeStarts(g) \/ RuntimeFails(g) \/ RuntimeStops(g)
      PROVE  ConsumerInv' /\ ViewsKept
  BY <1>5, RuntimeKeeps DEF RuntimeFails
<1>6. QED
  BY <1>1, <1>2, <1>3, <1>4, <1>5 DEF ConsumerStep

\* No generation is beyond the bound, and each runtime has a view with bindings.
LEMMA GenerationsBounded ==
  ASSUME ConsumerInv
  PROVE  /\ DOMAIN runtimes = 1 .. Len(runtimes)
         /\ Len(runtimes) \in Nat
         /\ DOMAIN runtimes \subseteq Generations
         /\ supervisor.generation \in {0} \cup Generations
         /\ \A g \in DOMAIN runtimes :
              /\ runtimes[g] \in RuntimeStates
              /\ runtimes[g].view \in Views \ Unbuildable
              /\ BindingsOf[runtimes[g].view] \in Seq(Bindings)
              /\ Len(BindingsOf[runtimes[g].view]) \in Nat \ {0}
<1>1. runtimes \in Seq(RuntimeStates)
  BY DEF ConsumerInv, ConsumerTypes
<1>2. /\ DOMAIN runtimes = 1 .. Len(runtimes)
      /\ Len(runtimes) \in Nat
      /\ \A g \in DOMAIN runtimes : runtimes[g] \in RuntimeStates
  BY <1>1, LenProperties, ElementOfSeq
<1>3. Len(runtimes) <= MaxChanges + 1
  <2>1. supervisor.generation + Cardinality(LoadsIn(mailbox)) + DueFor(active, loop, loaded)
          <= changes + 1
    BY DEF ConsumerInv, Counted
  <2>2. /\ Cardinality(LoadsIn(mailbox)) \in Nat
        /\ changes \in Nat /\ changes <= MaxChanges
        /\ supervisor.generation = Len(runtimes)
    BY LoadsFinite, ConsumerConstantsAssumption DEF ConsumerInv, ConsumerTypes, Linked
  <2>3. DueFor(active, loop, loaded) \in Nat
    BY DEF DueFor, Differs
  <2>4. QED
    BY <1>2, <2>1, <2>2, <2>3, ConsumerConstantsAssumption
<1>4. DOMAIN runtimes \subseteq Generations /\ supervisor.generation \in {0} \cup Generations
  BY <1>2, <1>3, ConsumerConstantsAssumption DEF Generations, ConsumerInv, Linked
<1>5. ASSUME NEW g \in DOMAIN runtimes
      PROVE  /\ runtimes[g].view \in Views \ Unbuildable
             /\ BindingsOf[runtimes[g].view] \in Seq(Bindings)
             /\ Len(BindingsOf[runtimes[g].view]) \in Nat \ {0}
  <2>1. runtimes[g].view \in Views \ Unbuildable
    BY <1>2 DEF RuntimeStates
  <2>2. /\ BindingsOf[runtimes[g].view] \in Seq(Bindings)
        /\ BindingsOf[runtimes[g].view] # <<>>
    BY <2>1, IngestionConstantsAssumption
  <2>3. QED
    BY <2>1, <2>2, LenProperties, EmptySeq
<1>6. QED
  BY <1>2, <1>4, <1>5

\* The invariant says what the runs check.
LEMMA ConsumerInvImplies ==
  ASSUME ConsumerInv
  PROVE  ConsumerTypeOK /\ ReadyMeansConsuming /\ ReplacedIsPoisoned /\ ReloadMeansChange
<1>1. ConsumerTypeOK
  <2>1. \A g \in DOMAIN runtimes : runtimes[g] \in RuntimeStates
    BY GenerationsBounded
  <2>2. supervisor \in [status : {"alive", "dying", "stopped"}, generation : {0} \cup Generations,
                        ready : BOOLEAN, signature : Views \cup {None}]
    <3>1. /\ supervisor \in [status : {"alive", "dying", "stopped"}, generation : Nat,
                             ready : BOOLEAN, signature : Views \cup {None}]
          /\ supervisor.generation \in {0} \cup Generations
      BY GenerationsBounded DEF ConsumerInv, ConsumerTypes
    <3>2. QED
      BY <3>1
  <2>3. QED
    BY <2>1, <2>2 DEF ConsumerInv, ConsumerTypes, ConsumerTypeOK, RuntimeStates
<1>2. ReadyMeansConsuming
  BY DEF ConsumerInv, ReadyTrue, FailureFrom, GoesOn, Linked, ReadyMeansConsuming
<1>3. QED
  BY <1>1, <1>2 DEF ConsumerInv

-----------------------------------------------------------------------------
(* The ingestion.                                                          *)

\* Records are only appended, messages only published.
Grows ==
  /\ Len(log) <= Len(log')
  /\ \A r \in 1 .. Len(log) : log'[r] = log[r]
  /\ stream \subseteq stream'

\* A record that is done stays done.
LEMMA DoneStays ==
  ASSUME Grows, NEW r \in 1 .. Len(log), Done(r)
  PROVE  Done(r)'
BY DEF Grows, Done, Ingested

\* What a reader has in hand stays so.
LEMMA InHandStays ==
  ASSUME ConsumerInv, IngestionInv, Grows, ViewsKept, Len(log') \in Nat, Len(runtimes') \in Nat,
         DOMAIN runtimes' = 1 .. Len(runtimes'),
         NEW g \in Generations, readers[g].record # 0,
         readers'[g].record = readers[g].record, readers'[g].left = readers[g].left
  PROVE  InHand(g)'
<1>1. /\ readers[g] \in ReaderStates
      /\ InHand(g)
      /\ Len(log) \in Nat
  BY LenProperties DEF IngestionInv, IngestionTypes, ReaderInv, ReaderStates
<1>2. g \in DOMAIN runtimes /\ g \in DOMAIN runtimes' /\ runtimes'[g].view = runtimes[g].view
  BY <1>1, GenerationsBounded DEF InHand, ViewsKept
<1>3. /\ readers[g].record \in 1 .. Len(log)
      /\ log'[readers[g].record] = log[readers[g].record]
      /\ readers[g].record <= Len(log')
  BY <1>1 DEF InHand, Grows, ReaderStates
<1>4. \A r \in 1 .. readers[g].record - 1 : Done(r)'
  <2> SUFFICES ASSUME NEW r \in 1 .. readers[g].record - 1
               PROVE  Done(r)'
    OBVIOUS
  <2>1. r \in 1 .. Len(log) /\ Done(r)
    BY <1>1, <1>3 DEF InHand
  <2>2. QED
    BY <2>1, DoneStays
<1>5. QED
  BY <1>1, <1>2, <1>3, <1>4 DEF InHand, Grows

\* A reader that stays as it is, loses the partition or is gone keeps its invariant.
LEMMA ReaderStays ==
  ASSUME ConsumerInv, IngestionInv, Grows, ViewsKept, Len(log') \in Nat, Len(runtimes') \in Nat,
         DOMAIN runtimes' = 1 .. Len(runtimes'),
         NEW g \in Generations,
         readers'[g] \in {readers[g], [readers[g] EXCEPT !.position = 0], NoReader}
  PROVE  ReaderInv(g)'
<1>1. /\ readers[g] \in ReaderStates
      /\ ReaderInv(g)
      /\ Len(log) \in Nat
  BY LenProperties DEF IngestionInv, IngestionTypes
<1>2. CASE readers'[g] = NoReader
  BY <1>2 DEF ReaderInv, NoReader
<1>3. CASE readers'[g] \in {readers[g], [readers[g] EXCEPT !.position = 0]}
  <2>1. /\ readers'[g].record = readers[g].record
        /\ readers'[g].left = readers[g].left
        /\ readers'[g].position \in {readers[g].position, 0}
    BY <1>1, <1>3 DEF ReaderStates
  <2>2. readers[g].record # 0 => InHand(g)'
    <3> SUFFICES ASSUME readers[g].record # 0
                 PROVE  InHand(g)'
      OBVIOUS
    <3>1. QED
      BY <2>1, InHandStays
  <2>3. ASSUME readers'[g].position # 0, NEW r \in 1 .. readers'[g].position - 1
        PROVE  r <= Len(log') /\ (Done(r)' \/ r = readers'[g].record)
    <3>1. /\ readers[g].position # 0
          /\ r \in 1 .. readers[g].position - 1
      BY <2>1, <2>3
    <3>2. r <= Len(log) /\ (Done(r) \/ r = readers[g].record)
      BY <1>1, <3>1 DEF ReaderInv
    <3>3. r \in 1 .. Len(log) /\ r <= Len(log')
      BY <1>1, <3>1, <3>2 DEF Grows
    <3>4. QED
      BY <2>1, <3>2, <3>3, DoneStays
  <2>4. QED
    BY <1>1, <2>1, <2>2, <2>3 DEF ReaderInv
<1>4. QED
  BY <1>2, <1>3

\* What is committed stays published.
LEMMA CommittedStays ==
  ASSUME IngestionInv, Grows, Len(log') \in Nat, UNCHANGED committed
  PROVE  CommittedWasPublished'
<1>1. committed \in Nat /\ Len(log) \in Nat /\ committed <= Len(log)
  BY LenProperties DEF IngestionInv, IngestionTypes, CommittedWasPublished
<1>2. committed' <= Len(log')
  BY <1>1 DEF Grows
<1>3. ASSUME NEW r \in 1 .. committed'
      PROVE  Done(r)'
  <2>1. r \in 1 .. Len(log) /\ Done(r)
    BY <1>1 DEF IngestionInv, CommittedWasPublished, Done
  <2>2. QED
    BY <2>1, DoneStays
<1>4. QED
  BY <1>2, <1>3 DEF CommittedWasPublished, Done

\* A reader is given another position.
LEMMA PositionType ==
  ASSUME NEW reader \in ReaderStates, NEW position \in Nat
  PROVE  [reader EXCEPT !.position = position] \in ReaderStates
BY DEF ReaderStates

\* A step that leaves every reader as it is, takes its partition or ends it.
LEMMA ReadersStay ==
  ASSUME ConsumerInv, IngestionInv, ConsumerInv', ViewsKept,
         Grows, log' \in Seq(BOOLEAN), restarts' \in Nat, UNCHANGED committed,
         DOMAIN readers' = Generations,
         readers' = [g \in Generations |-> readers'[g]],
         \A g \in Generations :
           readers'[g] \in {readers[g], [readers[g] EXCEPT !.position = 0], NoReader}
  PROVE  IngestionInv'
<1>1. Len(log') \in Nat /\ Len(runtimes') \in Nat /\ DOMAIN runtimes' = 1 .. Len(runtimes')
  BY LenProperties DEF ConsumerInv, ConsumerTypes
<1>2. \A g \in Generations : ReaderInv(g)'
  BY <1>1, ReaderStays
<1>3. CommittedWasPublished'
  BY <1>1, CommittedStays
<1>4. IngestionTypes'
  <2>1. /\ readers \in [Generations -> ReaderStates]
        /\ NoReader \in ReaderStates
    BY DEF IngestionInv, IngestionTypes, NoReader, ReaderStates
  <2>2. \A g \in Generations : readers'[g] \in ReaderStates
    <3> SUFFICES ASSUME NEW g \in Generations
                 PROVE  readers'[g] \in ReaderStates
      OBVIOUS
    <3>1. readers[g] \in ReaderStates
      BY <2>1
    <3>2. [readers[g] EXCEPT !.position = 0] \in ReaderStates
      BY <3>1, PositionType
    <3>3. QED
      BY <2>1, <3>1, <3>2
  <2>3. readers' \in [Generations -> ReaderStates]
    BY <2>2
  <2>4. QED
    BY <2>3 DEF IngestionInv, IngestionTypes, ReaderStates
<1>5. QED
  BY <1>2, <1>3, <1>4 DEF IngestionInv

\* Nothing of the ingestion changes with a step of the consumer but what is closed.
LEMMA ConsumerStepIngests ==
  ASSUME ConsumerInv, IngestionInv, ConsumerInv', ViewsKept,
         CloseReaders, UNCHANGED <<log, committed, stream, restarts>>
  PROVE  IngestionInv'
<1>1. /\ log' \in Seq(BOOLEAN) /\ restarts' \in Nat /\ Len(log) \in Nat
      /\ readers \in [Generations -> ReaderStates]
  BY LenProperties DEF IngestionInv, IngestionTypes, ReaderStates
<1>2. Grows
  BY <1>1 DEF Grows
<1>3. /\ DOMAIN readers' = Generations
      /\ readers' = [g \in Generations |-> readers'[g]]
      /\ \A g \in Generations :
           readers'[g] \in {readers[g], [readers[g] EXCEPT !.position = 0], NoReader}
  BY DEF CloseReaders
<1>4. QED
  BY <1>1, <1>2, <1>3, ReadersStay

\* Only the reader of g is changed; what it comes to has to be shown.
LEMMA OneReader ==
  ASSUME ConsumerInv, IngestionInv, ConsumerInv', ViewsKept,
         Grows, UNCHANGED <<log, restarts>>,
         NEW g \in Generations, NEW new \in ReaderStates,
         readers' = [readers EXCEPT ![g] = new],
         ReaderInv(g)', CommittedWasPublished', committed' \in Nat
  PROVE  IngestionInv'
<1>1. /\ readers \in [Generations -> ReaderStates]
      /\ log \in Seq(BOOLEAN) /\ restarts \in Nat
      /\ Len(log') \in Nat
  BY LenProperties DEF IngestionInv, IngestionTypes, ReaderStates
<1>2. Len(runtimes') \in Nat /\ DOMAIN runtimes' = 1 .. Len(runtimes')
  BY LenProperties DEF ConsumerInv, ConsumerTypes
<1>3. ASSUME NEW h \in Generations
      PROVE  ReaderInv(h)'
  <2>1. CASE h = g
    BY <2>1
  <2>2. CASE h # g
    <3>1. readers'[h] = readers[h]
      BY <1>1, <2>2
    <3>2. QED
      BY <1>1, <1>2, <3>1, ReaderStays
  <2>3. QED
    BY <2>1, <2>2
<1>4. IngestionTypes'
  <2>1. readers' \in [Generations -> ReaderStates]
    BY <1>1
  <2>2. QED
    BY <1>1, <2>1 DEF IngestionTypes, ReaderStates
<1>5. QED
  BY <1>3, <1>4 DEF IngestionInv

\* A producer appends a record.
LEMMA ProduceKeeps ==
  ASSUME ConsumerInv, ConsumerInv', IngestionInv, NEW mappable \in BOOLEAN, Produce(mappable)
  PROVE  IngestionInv'
<1>1. /\ log \in Seq(BOOLEAN)
      /\ readers \in [Generations -> ReaderStates]
      /\ restarts \in Nat
      /\ log' = Append(log, mappable)
      /\ UNCHANGED <<committed, readers, stream, restarts, runtimes>>
  BY DEF IngestionInv, IngestionTypes, Produce, consumerVars, ReaderStates
<1>2. /\ log' \in Seq(BOOLEAN)
      /\ Len(log) \in Nat
      /\ Len(log') = Len(log) + 1
      /\ \A r \in 1 .. Len(log) : log'[r] = log[r]
  BY <1>1, AppendProperties, LenProperties
<1>3. Grows
  BY <1>1, <1>2 DEF Grows
<1>4. ViewsKept
  BY <1>1, SameViews
<1>5. QED
  BY <1>1, <1>2, <1>3, <1>4, ReadersStay

\* The partition is given to the member of g, from the committed offset on.
LEMMA AssignKeeps ==
  ASSUME ConsumerInv, ConsumerInv', IngestionInv, NEW g \in DOMAIN runtimes, Assign(g)
  PROVE  IngestionInv'
<1>1. /\ readers \in [Generations -> ReaderStates]
      /\ log \in Seq(BOOLEAN) /\ restarts \in Nat
      /\ committed \in Nat /\ Len(log) \in Nat
  BY LenProperties DEF IngestionInv, IngestionTypes, ReaderStates
<1>2. /\ UNCHANGED <<log, committed, stream, restarts, runtimes>>
      /\ readers' = [h \in Generations |->
                       [readers[h] EXCEPT !.position = IF h = g THEN committed + 1 ELSE 0]]
  BY DEF Assign, consumerVars
<1>3. Grows /\ ViewsKept
  BY <1>1, <1>2, SameViews DEF Grows
<1>4. Len(log') \in Nat /\ Len(runtimes') \in Nat /\ DOMAIN runtimes' = 1 .. Len(runtimes')
  BY <1>1, <1>2, GenerationsBounded
<1>5. ASSUME NEW h \in Generations
      PROVE  ReaderInv(h)'
  <2>1. CASE h # g
    <3>1. readers'[h] = [readers[h] EXCEPT !.position = 0]
      BY <1>2, <2>1
    <3>2. QED
      BY <1>3, <1>4, <3>1, ReaderStays
  <2>2. CASE h = g
    <3>1. /\ readers'[h].record = readers[h].record
          /\ readers'[h].left = readers[h].left
          /\ readers'[h].position = committed + 1
      BY <1>1, <1>2, <2>2 DEF ReaderStates
    <3>2. readers[h].record # 0 => InHand(h)'
      <4> SUFFICES ASSUME readers[h].record # 0
                   PROVE  InHand(h)'
        OBVIOUS
      <4>1. QED
        BY <1>3, <1>4, <3>1, InHandStays
    <3>3. readers[h].record = 0 => readers[h].left = <<>>
      BY DEF IngestionInv, ReaderInv
    <3>4. \A r \in 1 .. committed : r <= Len(log') /\ Done(r)'
      <4> SUFFICES ASSUME NEW r \in 1 .. committed
                   PROVE  r <= Len(log') /\ Done(r)'
        OBVIOUS
      <4>1. r \in 1 .. Len(log) /\ Done(r)
        BY <1>1 DEF IngestionInv, CommittedWasPublished, Done
      <4>2. QED
        BY <1>1, <1>2, <1>3, <4>1, DoneStays
    <3>5. 1 .. (committed + 1) - 1 = 1 .. committed
      BY <1>1
    <3>6. QED
      BY <3>1, <3>2, <3>3, <3>4, <3>5 DEF ReaderInv
  <2>3. QED
    BY <2>1, <2>2
<1>6. CommittedWasPublished'
  BY <1>2, <1>3, <1>4, CommittedStays
<1>7. IngestionTypes'
  <2>1. \A h \in Generations : readers'[h] \in ReaderStates
    <3>1. 0 \in Nat /\ committed + 1 \in Nat
      BY <1>1
    <3>2. QED
      BY <1>1, <1>2, <3>1, PositionType
  <2>2. readers' \in [Generations -> ReaderStates]
    BY <1>2, <2>1
  <2>3. QED
    BY <1>1, <1>2, <2>2 DEF IngestionTypes, ReaderStates
<1>8. QED
  BY <1>5, <1>6, <1>7 DEF IngestionInv

\* The next record is fetched.
LEMMA FetchKeeps ==
  ASSUME ConsumerInv, ConsumerInv', IngestionInv, NEW g \in DOMAIN runtimes, Fetch(g)
  PROVE  IngestionInv'
<1> DEFINE all == BindingsOf[runtimes[g].view]
           p   == readers[g].position
           new == [position |-> p + 1, record |-> p, left |-> all]
<1>1. /\ readers \in [Generations -> ReaderStates]
      /\ log \in Seq(BOOLEAN)
      /\ committed \in Nat /\ Len(log) \in Nat
      /\ g \in Generations
      /\ readers[g] \in ReaderStates
      /\ readers[g].record = 0
      /\ p \in 1 .. Len(log)
      /\ all \in Seq(Bindings)
      /\ Len(all) \in Nat
  BY LenProperties, GenerationsBounded DEF IngestionInv, IngestionTypes, ReaderStates, Fetch
<1>2. UNCHANGED <<log, committed, stream, restarts, runtimes>>
  BY DEF Fetch, consumerVars
<1>3. readers' = [readers EXCEPT ![g] = new] /\ new \in ReaderStates
  BY <1>1 DEF Fetch, ReaderStates
<1>4. Grows /\ ViewsKept
  BY <1>1, <1>2, SameViews DEF Grows
<1>5. readers'[g] = new
  BY <1>1, <1>3
<1>6. \A r \in 1 .. p - 1 : r <= Len(log) /\ Done(r)'
  <2> SUFFICES ASSUME NEW r \in 1 .. p - 1
               PROVE  r <= Len(log) /\ Done(r)'
    OBVIOUS
  <2>1. p # 0 /\ r # 0 /\ r \in Nat /\ r <= Len(log)
    BY <1>1
  <2>2. Done(r)
    BY <1>1, <2>1 DEF IngestionInv, ReaderInv
  <2>3. QED
    BY <1>4, <2>1, <2>2, DoneStays
<1>7. InHand(g)'
  <2>1. /\ g \in DOMAIN runtimes'
        /\ BindingsOf[runtimes'[g].view] = all
        /\ p <= Len(log')
    BY <1>1, <1>2
  <2>2. readers'[g].record = p /\ readers'[g].left = all
    BY <1>5
  <2> HIDE DEF all, p, new
  <2>3. /\ Len(all) <= Len(all)
        /\ \A i \in 1 .. Len(all) : all[i] = all[Len(all) - Len(all) + i]
        /\ 1 .. Len(all) - Len(all) = {}
    BY <1>1
  <2>4. QED
    BY <1>1, <1>6, <2>1, <2>2, <2>3 DEF InHand
<1>8. ReaderInv(g)'
  <2>1. \A r \in 1 .. (p + 1) - 1 : r <= Len(log) /\ (Done(r)' \/ r = p)
    BY <1>1, <1>6
  <2>2. p # 0 /\ UNCHANGED log
    BY <1>1, <1>2
  <2>3. QED
    BY <1>5, <1>7, <2>1, <2>2 DEF ReaderInv
<1>9. CommittedWasPublished' /\ committed' \in Nat
  BY <1>1, <1>2, <1>4, CommittedStays
<1> HIDE DEF new
<1>10. QED
  BY <1>1, <1>2, <1>3, <1>4, <1>8, <1>9, OneReader

\* The record is published to the next binding.
LEMMA PublishKeeps ==
  ASSUME ConsumerInv, ConsumerInv', IngestionInv, NEW g \in DOMAIN runtimes, Publish(g)
  PROVE  IngestionInv'
<1> DEFINE all  == BindingsOf[runtimes[g].view]
           left == readers[g].left
           new  == [readers[g] EXCEPT !.left = Tail(left)]
<1>1. /\ readers \in [Generations -> ReaderStates]
      /\ log \in Seq(BOOLEAN)
      /\ committed \in Nat /\ Len(log) \in Nat
      /\ g \in Generations
      /\ readers[g] \in ReaderStates
      /\ left \in Seq(Bindings) /\ left # <<>>
      /\ all \in Seq(Bindings)
      /\ Len(all) \in Nat
  BY LenProperties, GenerationsBounded DEF IngestionInv, IngestionTypes, ReaderStates, Publish
<1>2. UNCHANGED <<log, committed, restarts, runtimes>>
  BY DEF Publish, consumerVars
<1>3. stream' = stream \cup {<<readers[g].record, Head(left)>>}
  BY DEF Publish
<1>4. /\ Head(left) = left[1]
      /\ Tail(left) \in Seq(Bindings)
      /\ Len(left) \in Nat \ {0}
      /\ Len(Tail(left)) = Len(left) - 1
      /\ \A i \in 1 .. Len(left) - 1 : Tail(left)[i] = left[i + 1]
  BY <1>1, HeadTailProperties, LenProperties, EmptySeq
<1>5. readers' = [readers EXCEPT ![g] = new] /\ new \in ReaderStates
  BY <1>1, <1>4 DEF Publish, ReaderStates
<1>6. Grows /\ ViewsKept
  BY <1>1, <1>2, <1>3, SameViews DEF Grows
<1>7. /\ readers'[g].record = readers[g].record
      /\ readers'[g].position = readers[g].position
      /\ readers'[g].left = Tail(left)
  BY <1>1, <1>5 DEF ReaderStates
<1>8. readers[g].record # 0 /\ InHand(g)
  BY <1>1 DEF IngestionInv, ReaderInv
<1>9. \A r \in 1 .. Len(log) : Done(r) => Done(r)'
  BY <1>6, DoneStays
<1>10. InHand(g)'
  <2>1. \A r \in 1 .. readers[g].record - 1 : Done(r)'
    <3>1. readers[g].record \in Nat /\ readers[g].record <= Len(log)
      BY <1>1, <1>8 DEF InHand, ReaderStates
    <3>2. \A r \in 1 .. readers[g].record - 1 : r \in 1 .. Len(log) /\ Done(r)
      BY <1>1, <1>8, <3>1 DEF InHand
    <3>3. QED
      BY <1>9, <3>2
  <2>2. /\ Len(left) <= Len(all)
        /\ \A i \in 1 .. Len(left) : left[i] = all[Len(all) - Len(left) + i]
        /\ \A i \in 1 .. Len(all) - Len(left) : <<readers[g].record, all[i]>> \in stream
    BY <1>8 DEF InHand
  <2> HIDE DEF left, all
  <2>3. \A i \in 1 .. Len(Tail(left)) : Tail(left)[i] = all[Len(all) - Len(Tail(left)) + i]
    <3> SUFFICES ASSUME NEW i \in 1 .. Len(Tail(left))
                 PROVE  Tail(left)[i] = all[Len(all) - Len(Tail(left)) + i]
      OBVIOUS
    <3>1. i + 1 \in 1 .. Len(left) /\ Tail(left)[i] = left[i + 1]
      BY <1>4
    <3>2. left[i + 1] = all[Len(all) - Len(left) + (i + 1)]
      BY <2>2, <3>1
    <3>3. Len(all) - Len(left) + (i + 1) = Len(all) - Len(Tail(left)) + i
      BY <1>1, <1>4
    <3>4. QED
      BY <3>1, <3>2, <3>3
  <2>4. \A i \in 1 .. Len(all) - Len(Tail(left)) : <<readers[g].record, all[i]>> \in stream'
    <3> SUFFICES ASSUME NEW i \in 1 .. Len(all) - Len(Tail(left))
                 PROVE  <<readers[g].record, all[i]>> \in stream'
      OBVIOUS
    <3>1. CASE i \in 1 .. Len(all) - Len(left)
      BY <1>3, <2>2, <3>1
    <3>2. CASE i = Len(all) - Len(left) + 1
      <4>1. 1 \in 1 .. Len(left)
        BY <1>4
      <4>2. Head(left) = all[i]
        BY <1>4, <2>2, <3>2, <4>1
      <4>3. QED
        BY <1>3, <4>2
    <3>3. QED
      BY <1>1, <1>4, <3>1, <3>2
  <2>5. Len(Tail(left)) <= Len(all)
    BY <1>1, <1>4, <2>2
  <2>6. log[readers[g].record]
    BY DEF Publish
  <2>7. g \in DOMAIN runtimes' /\ BindingsOf[runtimes'[g].view] = all /\ log' = log
    BY <1>2 DEF all
  <2>8. readers[g].record <= Len(log)
    BY <1>8 DEF InHand
  <2>9. QED
    BY <1>7, <2>1, <2>3, <2>4, <2>5, <2>6, <2>7, <2>8 DEF InHand
<1>11. ReaderInv(g)'
  <2>1. ASSUME readers[g].position # 0, NEW r \in 1 .. readers[g].position - 1
        PROVE  r <= Len(log) /\ (Done(r)' \/ r = readers[g].record)
    <3>1. r <= Len(log) /\ (Done(r) \/ r = readers[g].record)
      BY <1>1, <2>1 DEF IngestionInv, ReaderInv
    <3>2. r \in 1 .. Len(log)
      BY <1>1, <3>1 DEF ReaderStates
    <3>3. QED
      BY <1>9, <3>1, <3>2
  <2>2. QED
    BY <1>2, <1>7, <1>8, <1>10, <2>1 DEF ReaderInv
<1>12. CommittedWasPublished' /\ committed' \in Nat
  BY <1>1, <1>2, <1>6, CommittedStays
<1> HIDE DEF new
<1>13. QED
  BY <1>1, <1>2, <1>5, <1>6, <1>11, <1>12, OneReader

\* A step that leaves the consumer alone keeps its invariant.
LEMMA ConsumerStutters ==
  ASSUME ConsumerInv, UNCHANGED consumerVars
  PROVE  ConsumerInv'
<1>1. UNCHANGED <<active, changes, event, signal, loop, loaded, supervisor, mailbox, runtimes>>
  BY DEF consumerVars
<1>2. ConsumerTypes' /\ Linked'
  BY <1>1 DEF ConsumerInv, ConsumerTypes, Linked
<1>3. DueFor(active', loop', loaded') + changes <= DueFor(active, loop, loaded) + changes'
  <2>1. DueFor(active, loop, loaded) \in Nat /\ changes \in Nat
    BY ConsumerConstantsAssumption DEF ConsumerInv, ConsumerTypes, DueFor, Differs
  <2>2. QED
    BY <1>1, <2>1
<1>4. QED
  BY <1>1, <1>2, <1>3, QuietStep

\* A topic consumer ends, and its runtime fails with it.
LEMMA EndReaderKeeps ==
  ASSUME ConsumerInv, IngestionInv, NEW g \in DOMAIN runtimes, EndReader(g), stream \subseteq stream'
  PROVE  ConsumerInv' /\ IngestionInv'
<1>1. ConsumerInv' /\ ViewsKept
  <2>1. CASE Fail(g)
    BY <2>1, RuntimeKeeps
  <2>2. CASE UNCHANGED consumerVars
    <3>1. UNCHANGED runtimes
      BY <2>2 DEF consumerVars
    <3>2. QED
      BY <2>2, <3>1, ConsumerStutters, SameViews
  <2>3. QED
    BY <2>1, <2>2 DEF EndReader
<1>2. /\ readers' = [readers EXCEPT ![g] = NoReader]
      /\ UNCHANGED <<log, committed, restarts>>
  BY DEF EndReader
<1>3. /\ log' \in Seq(BOOLEAN) /\ restarts' \in Nat /\ Len(log) \in Nat
      /\ readers \in [Generations -> ReaderStates]
      /\ g \in Generations
  BY <1>2, LenProperties, GenerationsBounded DEF IngestionInv, IngestionTypes
<1>4. Grows
  BY <1>2, <1>3 DEF Grows
<1>5. /\ DOMAIN readers' = Generations
      /\ readers' = [h \in Generations |-> readers'[h]]
      /\ \A h \in Generations : readers'[h] \in {readers[h], [readers[h] EXCEPT !.position = 0], NoReader}
  BY <1>2, <1>3
<1>6. QED
  BY <1>1, <1>2, <1>3, <1>4, <1>5, ReadersStay

\* The record in hand is committed.
LEMMA CommitKeeps ==
  ASSUME ConsumerInv, ConsumerInv', IngestionInv, NEW g \in DOMAIN runtimes, Commit(g)
  PROVE  IngestionInv'
<1> DEFINE view   == runtimes[g].view
           record == readers[g].record
           new    == [readers[g] EXCEPT !.record = 0]
<1>1. /\ readers \in [Generations -> ReaderStates]
      /\ log \in Seq(BOOLEAN)
      /\ Len(log) \in Nat
      /\ g \in Generations
      /\ readers[g] \in ReaderStates
      /\ record \in Nat
      /\ view \in Views \ Unbuildable
      /\ Len(BindingsOf[view]) \in Nat \ {0}
  BY LenProperties, GenerationsBounded DEF IngestionInv, IngestionTypes, ReaderStates
<1>2. /\ record # 0
      /\ readers[g].left = <<>>
      /\ committed' = record
      /\ readers' = [readers EXCEPT ![g] = new]
      /\ UNCHANGED <<log, stream, restarts, runtimes>>
  BY DEF Commit, consumerVars
<1>3. new \in ReaderStates
  BY <1>1 DEF ReaderStates
<1>4. Grows /\ ViewsKept
  BY <1>1, <1>2, SameViews DEF Grows
<1>5. InHand(g)
  BY <1>1, <1>2 DEF IngestionInv, ReaderInv
<1>6. Done(record)
  <2>1. Len(readers[g].left) = 0
    BY <1>2
  <2>2. log[record]
    BY <1>1, <1>5, <2>1 DEF InHand
  <2>3. \A i \in 1 .. Len(BindingsOf[view]) : <<record, BindingsOf[view][i]>> \in stream
    <3>1. Len(BindingsOf[view]) - Len(readers[g].left) = Len(BindingsOf[view])
      BY <1>1, <2>1
    <3>2. QED
      BY <1>5, <3>1 DEF InHand
  <2>4. Ingested(record)
    BY <1>1, <2>3 DEF Ingested
  <2>5. QED
    BY <2>2, <2>4 DEF Done
<1>7. record <= Len(log) /\ \A r \in 1 .. record : Done(r)
  <2>1. record <= Len(log) /\ \A r \in 1 .. record - 1 : Done(r)
    BY <1>5 DEF InHand
  <2> HIDE DEF record
  <2>2. \A r \in 1 .. record : r \in 1 .. record - 1 \/ r = record
    BY <1>1
  <2>3. QED
    BY <1>6, <2>1, <2>2
<1>8. \A r \in 1 .. Len(log) : Done(r) => Done(r)'
  BY <1>4, DoneStays
<1> HIDE DEF record, view
<1>9. CommittedWasPublished' /\ committed' \in Nat
  <2>1. \A r \in 1 .. record : r \in 1 .. Len(log)
    BY <1>1, <1>7
  <2>2. \A r \in 1 .. committed' : Done(r)'
    BY <1>2, <1>7, <1>8, <2>1
  <2>3. QED
    BY <1>1, <1>2, <1>7, <2>2 DEF CommittedWasPublished, Done
<1>10. ReaderInv(g)'
  <2>1. /\ readers'[g].record = 0
        /\ readers'[g].left = <<>>
        /\ readers'[g].position = readers[g].position
    BY <1>1, <1>2 DEF ReaderStates
  <2>2. ASSUME readers[g].position # 0, NEW r \in 1 .. readers[g].position - 1
        PROVE  r <= Len(log) /\ Done(r)'
    <3>1. r <= Len(log) /\ (Done(r) \/ r = record)
      BY <1>1, <2>2 DEF IngestionInv, ReaderInv, record
    <3>2. r \in 1 .. Len(log)
      BY <1>1, <3>1 DEF ReaderStates
    <3>3. QED
      BY <1>6, <1>8, <3>1, <3>2
  <2>3. QED
    BY <1>2, <2>1, <2>2 DEF ReaderInv
<1> HIDE DEF new
<1>11. QED
  BY <1>1, <1>2, <1>3, <1>4, <1>9, <1>10, OneReader

\* The process starts again.
LEMMA RestartKeeps ==
  ASSUME ConsumerInv, IngestionInv, Restart
  PROVE  ConsumerInv' /\ IngestionInv'
<1>1. ConsumerInv'
  <2>1. Started' => ConsumerInv'
    BY StartKeeps, PTL
  <2>2. Started'
    <3>1. /\ active \in Views \cup {None} /\ changes \in 0 .. MaxChanges
          /\ UNCHANGED <<active, changes>>
      BY DEF ConsumerInv, ConsumerTypes, Restart
    <3>2. event \in BOOLEAN /\ UNCHANGED event
      BY DEF ConsumerInv, ConsumerTypes, Restart
    <3>3. QED
      BY <3>1, <3>2 DEF Restart, Started
  <2>3. QED
    BY <2>1, <2>2
<1>2. /\ UNCHANGED <<log, committed, stream>>
      /\ restarts' = restarts + 1
      /\ readers' = [g \in Generations |-> NoReader]
  BY DEF Restart
<1>3. log \in Seq(BOOLEAN) /\ committed \in Nat /\ restarts \in Nat /\ Len(log) \in Nat
  BY LenProperties DEF IngestionInv, IngestionTypes
<1>4. CommittedWasPublished'
  <2>1. Grows
    BY <1>2, <1>3 DEF Grows
  <2>2. QED
    BY <1>2, <1>3, <2>1, CommittedStays
<1>5. IngestionTypes'
  <2>1. NoReader \in ReaderStates
    BY DEF NoReader, ReaderStates
  <2>2. QED
    BY <1>2, <1>3, <2>1 DEF IngestionTypes
<1>6. \A g \in Generations : ReaderInv(g)'
  BY <1>2 DEF ReaderInv, NoReader
<1>7. QED
  BY <1>1, <1>4, <1>5, <1>6 DEF IngestionInv

-----------------------------------------------------------------------------
(* The theorems.                                                           *)

AllInv == ConsumerInv /\ IngestionInv

\* The invariant holds at first.
LEMMA InitEstablishes ==
  ASSUME IngestionInit
  PROVE  AllInv
<1>1. ConsumerInv
  BY ConsumerInitKeeps DEF IngestionInit
<1>2. /\ log \in Seq(BOOLEAN) /\ Len(log) = 0 /\ committed = 0 /\ restarts = 0
      /\ readers = [g \in Generations |-> NoReader]
  BY DEF IngestionInit
<1>3. IngestionTypes
  <2>1. NoReader \in ReaderStates
    BY DEF NoReader, ReaderStates
  <2>2. QED
    BY <1>2, <2>1 DEF IngestionTypes
<1>4. \A g \in Generations : ReaderInv(g)
  BY <1>2 DEF ReaderInv, NoReader
<1>5. CommittedWasPublished
  BY <1>2 DEF CommittedWasPublished
<1>6. QED
  BY <1>1, <1>3, <1>4, <1>5 DEF AllInv, IngestionInv

\* A step that leaves the ingestion and the runtimes alone keeps its invariant.
LEMMA IngestionStutters ==
  ASSUME ConsumerInv, IngestionInv, ConsumerInv', UNCHANGED <<ingestionVars, runtimes>>
  PROVE  IngestionInv'
<1>1. UNCHANGED <<log, committed, readers, stream, restarts>>
  BY DEF ingestionVars
<1>2. /\ log \in Seq(BOOLEAN) /\ restarts \in Nat /\ Len(log) \in Nat
      /\ readers \in [Generations -> ReaderStates]
  BY LenProperties DEF IngestionInv, IngestionTypes
<1>3. Grows
  BY <1>1, <1>2 DEF Grows
<1>4. /\ DOMAIN readers' = Generations
      /\ readers' = [g \in Generations |-> readers'[g]]
      /\ \A g \in Generations : readers'[g] = readers[g]
  BY <1>1, <1>2
<1>5. QED
  BY <1>1, <1>2, <1>3, <1>4, SameViews, ReadersStay

\* Every step keeps the invariant.
LEMMA NextKeeps ==
  ASSUME AllInv, [IngestionNext]_allVars
  PROVE  AllInv'
<1>0. ConsumerInv /\ IngestionInv
  BY DEF AllInv
<1>1. CASE ConsumerStep /\ CloseReaders /\ UNCHANGED <<log, committed, stream, restarts>>
  BY <1>0, <1>1, ConsumerStepKeeps, ConsumerStepIngests DEF AllInv
<1>2. CASE BindingsChange /\ UNCHANGED ingestionVars
  <2>1. ConsumerInv'
    BY <1>0, <1>2, BindingsChangeKeeps
  <2>2. UNCHANGED runtimes
    BY <1>2 DEF BindingsChange, Activate, Clear
  <2>3. QED
    BY <1>0, <1>2, <2>1, <2>2, IngestionStutters DEF AllInv
<1>3. ASSUME NEW mappable \in BOOLEAN, Produce(mappable)
      PROVE  AllInv'
  <2>1. ConsumerInv'
    BY <1>0, <1>3, ConsumerStutters DEF Produce
  <2>2. QED
    BY <1>0, <1>3, <2>1, ProduceKeeps DEF AllInv
<1>4. ASSUME NEW g \in DOMAIN runtimes, Assign(g) \/ ReaderStep(g) \/ ReaderFailure(g)
      PROVE  AllInv'
  <2>1. CASE Assign(g) \/ Fetch(g) \/ Publish(g) \/ Commit(g)
    <3>1. ConsumerInv'
      BY <1>0, <2>1, ConsumerStutters DEF Assign, Fetch, Publish, Commit
    <3>2. QED
      BY <1>0, <2>1, <3>1, AssignKeeps, FetchKeeps, PublishKeeps, CommitKeeps DEF AllInv
  <2>2. CASE Reject(g) \/ PublishFails(g) \/ CommitFails(g)
    <3>1. EndReader(g) /\ stream \subseteq stream'
      BY <2>2 DEF Reject, PublishFails, CommitFails
    <3>2. QED
      BY <1>0, <3>1, EndReaderKeeps DEF AllInv
  <2>3. QED
    BY <1>4, <2>1, <2>2 DEF ReaderStep, ReaderFailure
<1>5. CASE Restart
  BY <1>0, <1>5, RestartKeeps DEF AllInv
<1>6. CASE UNCHANGED allVars
  <2>1. UNCHANGED consumerVars /\ UNCHANGED ingestionVars /\ UNCHANGED runtimes
    BY <1>6 DEF allVars, consumerVars
  <2>2. QED
    BY <1>0, <2>1, ConsumerStutters, IngestionStutters DEF AllInv
<1>7. QED
  BY <1>1, <1>2, <1>3, <1>4, <1>5, <1>6 DEF IngestionNext

\* The invariant holds throughout.
LEMMA InvariantHolds == FairIngestionSpec => []AllInv
<1>1. IngestionInit => AllInv
  BY InitEstablishes
<1>2. AllInv /\ [IngestionNext]_allVars => AllInv'
  BY NextKeeps
<1>3. QED
  BY <1>1, <1>2, PTL DEF FairIngestionSpec

\* Every variable of the consumer keeps its type, and no change of the bindings
\* brings more than one generation: the generation stays within its bound.
THEOREM ConsumerTypeCorrect == FairIngestionSpec => []ConsumerTypeOK
<1>1. AllInv => ConsumerTypeOK
  BY ConsumerInvImplies DEF AllInv
<1>2. QED
  BY <1>1, InvariantHolds, PTL

\* What the supervisor reports as ready consumes, or its failure is on the way, in
\* any order of the messages of any number of generations.
THEOREM ReadyIsConsuming == FairIngestionSpec => []ReadyMeansConsuming
<1>1. AllInv => ReadyMeansConsuming
  BY ConsumerInvImplies DEF AllInv
<1>2. QED
  BY <1>1, InvariantHolds, PTL

\* Only the newest generation is not poisoned.
THEOREM OneGenerationLives == FairIngestionSpec => []ReplacedIsPoisoned
<1>1. AllInv => ReplacedIsPoisoned
  BY ConsumerInvImplies DEF AllInv
<1>2. QED
  BY <1>1, InvariantHolds, PTL

\* No generation has the view of the one it replaces, whatever number of loads the
\* mailbox holds.
THEOREM ReloadIsChange == FairIngestionSpec => []ReloadMeansChange
<1>1. AllInv => ReloadMeansChange
  BY ConsumerInvImplies DEF AllInv
<1>2. QED
  BY <1>1, InvariantHolds, PTL

\* At least once, for any number of generations, bindings and records: whatever is
\* committed was published to every binding of a view, and so was all before it.
THEOREM AtLeastOnce == FairIngestionSpec => []CommittedWasPublished
<1>1. AllInv => CommittedWasPublished
  BY DEF AllInv, IngestionInv
<1>2. QED
  BY <1>1, InvariantHolds, PTL
===============================================================================
