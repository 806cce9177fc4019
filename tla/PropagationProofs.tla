-------------------------- MODULE PropagationProofs --------------------------
(***************************************************************************)
(* Proofs about RuntimePropagation: while no publication fails, a validator *)
(* that has caught up holds what is served, and nothing late takes it away. *)
(***************************************************************************)
EXTENDS RuntimePropagation, ConfigctlEventProofs

-----------------------------------------------------------------------------
(* The stream, seen from what is served.                                   *)

\* The dates of an event once n activations have been issued.
Dated(event, n) ==
  /\ event.kind = "activated" => event.version \in VersionIDs /\ event.activation \in 1 .. n
  /\ event.kind = "deactivated" => event.deactivatedAt <= n

\* A cache that holds what the event's scope serves in d ignores the event, or is
\* told by it what it holds.
Harmless(d, event) ==
  LET s == event.scope
      a == d.byScope[s]
  IN  a # None =>
        /\ event.kind = "activated" => event.activation < a \/ Projection(event) = ServedRuntime(d, s)
        /\ event.kind = "deactivated" =>
             event.version # d.activations[a].version \/ event.deactivatedAt < a

HistoryInv ==
  \A i \in 1 .. Len(stream) : Dated(stream[i], issued.activations) /\ Harmless(db, stream[i])

\* Among the events of log after position c is the activation of runtime r.
ToldAfter(log, c, r) ==
  \E i \in c + 1 .. Len(log) : log[i].kind = "activated" /\ Projection(log[i]) = r

\* What a step of the control plane is to a reader of its stream: events are
\* appended, and every scope serves nothing, what it served, or what they tell.
ControlPlaneMoves ==
  /\ stream' \in Seq(Event)
  /\ Len(stream) <= Len(stream')
  /\ \A i \in 1 .. Len(stream) : stream'[i] = stream[i]
  /\ \A s \in Scopes :
       \/ db'.byScope[s] = None
       \/ /\ db'.byScope[s] = db.byScope[s]
          /\ ServedRuntime(db', s) = ServedRuntime(db, s)
       \/ ToldAfter(stream', Len(stream), ServedRuntime(db', s))

\* An event of the past is harmless to a scope that goes on serving what it served.
LEMMA HarmlessKept ==
  ASSUME NEW d, NEW e, NEW event, Harmless(d, event),
         \/ e.byScope[event.scope] = None
         \/ ScopeKept(e, d, event.scope)
  PROVE  Harmless(e, event)
  BY DEF Harmless, ScopeKept, ServedRuntime

\* A step about scope s, while no publication fails.
LEMMA AboutScopeMoves ==
  ASSUME ~PublishMayFail, NamingInv, HistoryInv, NEW s \in Scopes, AboutScope(s)
  PROVE  HistoryInv' /\ ControlPlaneMoves
<1> DEFINE n == issued.activations
           m == issued'.activations
<1>1. /\ n \in Nat
      /\ stream \in Seq(Event)
      /\ Len(stream) \in Nat
      /\ \A i \in 1 .. Len(stream) : stream[i] \in Event
      /\ \A i \in 1 .. Len(stream) : Dated(stream[i], n) /\ Harmless(db, stream[i])
  BY DEF NamingInv, ServingInv, IInv, TypeOK, HistoryInv
<1>2. /\ m \in Nat /\ n <= m
      /\ \A t \in Scopes \ {s} : ScopeKept(db', db, t)
      /\ stream' \in Seq(Event)
      /\ Len(stream) <= Len(stream')
      /\ \A i \in 1 .. Len(stream) : stream'[i] = stream[i]
      /\ \A i \in Len(stream) + 1 .. Len(stream') :
           stream'[i].scope = s /\ DatedIn(stream'[i], n, m)
      /\ \/ db'.byScope[s] = None
         \/ \E v \in VersionIDs, a \in ActivationIDs : BeginsToServe(v, a, s)
  BY <1>1, ConstantsAssumption DEF AboutScope
<1>3. ASSUME NEW v \in VersionIDs, NEW a \in ActivationIDs, BeginsToServe(v, a, s)
      PROVE  /\ a > n /\ a \in Nat
             /\ db'.byScope[s] = a
             /\ db'.activations[a].version = v
             /\ ServedRuntime(db', s) = Projection(ActivatedEvent(v, a, s))
             /\ ActivatedEvent(v, a, s).kind = "activated"
             /\ ActivatedEvent(v, a, s).activation = a
  BY <1>3 DEF BeginsToServe, ServesNow, ServedRuntime, NewActivation, Projection, ActivatedEvent,
              ActivationIDs
<1> HIDE DEF n, m
<1>4. ASSUME NEW event \in Event, event.scope = s, db'.byScope[s] # None,
             event.kind = "activated" =>
               \/ event.activation \in 1 .. n
               \/ \A v \in VersionIDs, a \in ActivationIDs :
                    BeginsToServe(v, a, s) => event = ActivatedEvent(v, a, s),
             event.kind = "deactivated" => event.deactivatedAt <= n
      PROVE  Harmless(db', event)
  <2>1. PICK v \in VersionIDs, a \in ActivationIDs : BeginsToServe(v, a, s)
    BY <1>2, <1>4
  <2>2. /\ a > n /\ a \in Nat
        /\ db'.byScope[s] = a
        /\ db'.activations[a].version = v
        /\ ServedRuntime(db', s) = Projection(ActivatedEvent(v, a, s))
    BY <1>3, <2>1
  <2>3. event.activation \in 1 .. n => event.activation < a
    BY <1>1, <2>2
  <2>4. event.kind = "activated" =>
          event.activation < a \/ Projection(event) = ServedRuntime(db', s)
    BY <1>4, <2>1, <2>2, <2>3
  <2>5. event.kind = "deactivated" => event.deactivatedAt < a
    <3>1. event.deactivatedAt \in Nat
      BY DEF Event
    <3>2. QED
      BY <1>1, <1>4, <2>2, <3>1
  <2>6. QED
    BY <1>4, <2>2, <2>4, <2>5 DEF Harmless
<1>5. ASSUME NEW i \in 1 .. Len(stream')
      PROVE  Dated(stream'[i], m) /\ Harmless(db', stream'[i])
  <2>1. CASE i \in 1 .. Len(stream)
    <3>1. stream'[i] = stream[i] /\ stream[i] \in Event
      BY <1>1, <1>2, <2>1
    <3>2. Dated(stream[i], n) /\ Harmless(db, stream[i])
      BY <1>1, <2>1
    <3>3. Dated(stream[i], m)
      BY <1>1, <1>2, <3>1, <3>2 DEF Dated, Event
    <3>4. Harmless(db', stream[i])
      <4>1. CASE stream[i].scope = s /\ db'.byScope[s] # None
        BY <1>4, <3>1, <3>2, <4>1 DEF Dated
      <4>2. CASE ~(stream[i].scope = s /\ db'.byScope[s] # None)
        <5>1. stream[i].scope \in Scopes
          BY <3>1 DEF Event
        <5>2. db'.byScope[stream[i].scope] = None \/ ScopeKept(db', db, stream[i].scope)
          BY <1>2, <4>2, <5>1
        <5>3. QED
          BY <3>2, <5>2, HarmlessKept
      <4>3. QED
        BY <4>1, <4>2
    <3>5. QED
      BY <3>1, <3>3, <3>4
  <2>2. CASE i \in Len(stream) + 1 .. Len(stream')
    <3>1. stream'[i].scope = s /\ DatedIn(stream'[i], n, m) /\ stream'[i] \in Event
      BY <1>2, <2>2
    <3>2. Dated(stream'[i], m)
      BY <1>1, <1>2, <3>1 DEF Dated, DatedIn, Event
    <3>3. CASE db'.byScope[s] = None
      BY <3>1, <3>2, <3>3 DEF Harmless
    <3>4. CASE db'.byScope[s] # None
      <4>1. stream'[i].kind = "activated" =>
              \A v \in VersionIDs, a \in ActivationIDs :
                BeginsToServe(v, a, s) => stream'[i] = ActivatedEvent(v, a, s)
        BY <2>2 DEF BeginsToServe
      <4>2. stream'[i].kind = "deactivated" => stream'[i].deactivatedAt <= n
        BY <3>1 DEF DatedIn
      <4> DEFINE event == stream'[i]
      <4> HIDE DEF event
      <4>3. Harmless(db', event)
        BY <1>4, <3>1, <3>4, <4>1, <4>2 DEF event
      <4>4. QED
        BY <3>2, <4>3 DEF event
    <3>5. QED
      BY <3>3, <3>4
  <2>3. QED
    BY <1>1, <1>2, <1>5, <2>1, <2>2
<1>6. ASSUME db'.byScope[s] # None
      PROVE  ToldAfter(stream', Len(stream), ServedRuntime(db', s))
  <2>1. PICK v \in VersionIDs, a \in ActivationIDs : BeginsToServe(v, a, s)
    BY <1>2, <1>6
  <2>2. /\ a > n /\ a \in Nat
        /\ ServedRuntime(db', s) = Projection(ActivatedEvent(v, a, s))
        /\ ActivatedEvent(v, a, s).kind = "activated"
        /\ ActivatedEvent(v, a, s).activation = a
    BY <1>3, <2>1
  <2>3. PICK i \in 1 .. Len(stream') : stream'[i] = ActivatedEvent(v, a, s)
    BY <2>1 DEF BeginsToServe, EndsWithActivation
  <2>4. ~(i \in 1 .. Len(stream))
    BY <1>1, <1>2, <2>2, <2>3 DEF Dated
  <2>5. i \in Len(stream) + 1 .. Len(stream')
    BY <1>1, <1>2, <2>3, <2>4
  <2>6. QED
    BY <2>2, <2>3, <2>5 DEF ToldAfter
<1>7. HistoryInv'
  BY <1>5 DEF HistoryInv, m
<1>8. \A t \in Scopes \ {s} :
        db'.byScope[t] = db.byScope[t] /\
          (db'.byScope[t] # None => ServedRuntime(db', t) = ServedRuntime(db, t))
  BY <1>2 DEF ScopeKept, ServedRuntime
<1>9. QED
  BY <1>2, <1>6, <1>7, <1>8 DEF ControlPlaneMoves

LEMMA ControlPlaneSteps ==
  ASSUME ~PublishMayFail, NamingInv, HistoryInv, [Next]_vars
  PROVE  HistoryInv' /\ ControlPlaneMoves
<1>1. /\ IInv /\ RuntimesIn(db)
      /\ stream \in Seq(Event)
      /\ Len(stream) \in Nat
      /\ \A i \in 1 .. Len(stream) : stream[i] \in Event
      /\ \A i \in 1 .. Len(stream) :
           Dated(stream[i], issued.activations) /\ Harmless(db, stream[i])
  BY DEF NamingInv, ServingInv, IInv, TypeOK, HistoryInv
<1>2. CASE \E s \in Scopes : AboutScope(s)
  BY <1>2, AboutScopeMoves
<1>3. CASE /\ stream' = stream
           /\ issued'.activations = issued.activations
           /\ \A t \in Scopes : db'.byScope[t] = None \/ ScopeKept(db', db, t)
  <2>1. \A i \in 1 .. Len(stream) : stream[i].scope \in Scopes
    BY <1>1 DEF Event
  <2>2. \A i \in 1 .. Len(stream) : Harmless(db', stream[i])
    BY <1>1, <1>3, <2>1, HarmlessKept
  <2>3. HistoryInv'
    BY <1>1, <1>3, <2>2 DEF HistoryInv
  <2>4. \A t \in Scopes :
          \/ db'.byScope[t] = None
          \/ db'.byScope[t] = db.byScope[t] /\ ServedRuntime(db', t) = ServedRuntime(db, t)
    BY <1>3 DEF ScopeKept, ServedRuntime
  <2>5. QED
    BY <1>1, <1>3, <2>3, <2>4 DEF ControlPlaneMoves
<1>4. CASE ScopesUntouched
  BY <1>3, <1>4 DEF ScopesUntouched
<1>5. CASE UNCHANGED <<stream, issued>> /\ \A t \in Scopes : db'.byScope[t] = None
  BY <1>3, <1>5
<1>6. QED
  BY <1>1, <1>2, <1>4, <1>5, StepsAboutScopes

-----------------------------------------------------------------------------
(* The cache actor.                                                        *)

\* Event is on the stream, for one of the two durables.
Stored(log, event) == event.kind \in Durables /\ \E i \in 1 .. Len(log) : log[i] = event

LEMMA ReceiveOutcomes ==
  ASSUME NEW runtimes \in [Scopes -> Runtimes \cup {None}], NEW event \in Event,
         event.kind \in Durables,
         event.kind = "activated" =>
           event.version \in VersionIDs /\ event.activation \in ActivationIDs
  PROVE  /\ Receive(runtimes, event) \in [Scopes -> Runtimes \cup {None}]
         /\ \A s \in Scopes :
              \/ Receive(runtimes, event)[s] = runtimes[s]
              \/ Receive(runtimes, event)[s] = None
              \/ /\ event.kind = "activated" /\ event.scope = s
                 /\ Receive(runtimes, event)[s] = Projection(event)
<1>1. event.scope \in Scopes
  BY DEF Event
<1>2. event.kind = "activated" => Projection(event) \in Runtimes
  BY <1>1 DEF Projection, Runtimes
<1>3. event.kind = "activated" => Projection(event).scope = event.scope
  BY DEF Projection
<1>4. CASE event.kind = "activated"
  BY <1>1, <1>2, <1>3, <1>4 DEF Receive, ApplyProjection
<1>5. CASE event.kind = "deactivated"
  BY <1>1, <1>5 DEF Receive, EvictScope
<1>6. QED
  BY <1>4, <1>5 DEF Durables

\* An event that is harmless leaves what is served in the cache.
LEMMA CacheIgnores ==
  ASSUME NEW runtimes \in [Scopes -> Runtimes \cup {None}], NEW event \in Event,
         event.kind \in Durables, event.kind = "activated" => event.activation \in ActivationIDs,
         NEW d, NEW s \in Scopes, d.byScope[s] # None, ServedRuntime(d, s) \in Runtimes,
         runtimes[s] = ServedRuntime(d, s), Harmless(d, event)
  PROVE  Receive(runtimes, event)[s] = ServedRuntime(d, s)
<1> DEFINE a == d.byScope[s]
           r == ServedRuntime(d, s)
<1>1. /\ r.activation = a /\ r.version = d.activations[a].version
      /\ a \in Nat
      /\ r # None
  BY CacheConstantsAssumption DEF ServedRuntime, Runtimes, ActivationIDs
<1>2. event.scope \in Scopes /\ event.deactivatedAt \in Nat
  BY DEF Event
<1>3. event.kind = "activated" =>
        /\ Projection(event).scope = event.scope
        /\ Projection(event).activation = event.activation
        /\ event.activation \in Nat
  BY DEF Projection, ActivationIDs
<1>4. event.scope = s =>
        /\ event.kind = "activated" => event.activation < a \/ Projection(event) = r
        /\ event.kind = "deactivated" => event.version # r.version \/ event.deactivatedAt < a
  BY <1>1 DEF Harmless
<1> HIDE DEF a, r
<1>5. runtimes[s] = r
  BY DEF r
<1>6. CASE event.kind = "activated"
  <2>1. CASE event.scope # s
    BY <1>2, <1>3, <1>5, <1>6, <2>1 DEF Receive, ApplyProjection, r
  <2>2. CASE event.scope = s /\ Projection(event) = r
    BY <1>2, <1>3, <1>5, <1>6, <2>2 DEF Receive, ApplyProjection, r
  <2>3. CASE event.scope = s /\ event.activation < a
    <3>1. r.activation > Projection(event).activation
      BY <1>1, <1>3, <1>6, <2>3
    <3>2. QED
      BY <1>1, <1>3, <1>5, <1>6, <2>3, <3>1 DEF Receive, ApplyProjection, r
  <2>4. QED
    BY <1>4, <1>6, <2>1, <2>2, <2>3
<1>7. CASE event.kind = "deactivated"
  <2>1. CASE event.scope # s
    BY <1>2, <1>5, <1>7, <2>1 DEF Receive, EvictScope, r
  <2>2. CASE event.scope = s
    <3>1. r.version # event.version \/ r.activation > event.deactivatedAt
      BY <1>1, <1>2, <1>4, <1>7, <2>2
    <3>2. QED
      BY <1>5, <1>7, <2>2, <3>1 DEF Receive, EvictScope, r
  <2>3. QED
    BY <2>1, <2>2
<1>8. QED
  BY <1>6, <1>7 DEF Durables

\* The event of what is served puts it in the cache, unless a later one is there.
LEMMA CacheTakes ==
  ASSUME NEW runtimes \in [Scopes -> Runtimes \cup {None}], NEW event \in Event,
         event.kind = "activated",
         NEW d, NEW s \in Scopes, ServedRuntime(d, s) \in Runtimes,
         Projection(event) = ServedRuntime(d, s),
         runtimes[s] # None => ~(runtimes[s].activation > d.byScope[s])
  PROVE  Receive(runtimes, event)[s] = ServedRuntime(d, s)
<1>1. Projection(event).scope = s /\ Projection(event).activation = d.byScope[s]
  BY DEF ServedRuntime
<1>2. QED
  BY <1>1 DEF Receive, ApplyProjection

-----------------------------------------------------------------------------
(* The answer of configctl.                                                *)

LEMMA ServedIsRuntime ==
  ASSUME DatabaseSound(db), NEW s \in Scopes, db.byScope[s] # None
  PROVE  ServedRuntime(db, s) \in Runtimes
<1>1. db.byScope[s] \in ActivationIDs /\ db.activations[db.byScope[s]].version \in VersionIDs
  BY ServedFacts
<1>2. QED
  BY <1>1 DEF ServedRuntime, Runtimes

LEMMA AnswerIsServed ==
  ASSUME DatabaseSound(db), NEW r \in ListActiveRuntimeProjections(db)
  PROVE  /\ r.scope \in Scopes
         /\ db.byScope[r.scope] # None
         /\ r = ServedRuntime(db, r.scope)
<1>1. PICK s \in UNION {ActiveScopes(db, v) : v \in {w \in VersionIDs : db.byVersionID[w] # None}} :
        /\ db.byScope[s] # None
        /\ r = ServedRuntime(db, s)
  BY DEF ListActiveRuntimeProjections, ServedRuntime
<1>2. PICK v \in VersionIDs : s \in ActiveScopes(db, v)
  BY <1>1
<1>3. PICK a \in ActivationIDs : db.activations[a].status = "active" /\ s = db.activations[a].scope
  BY <1>2 DEF ActiveScopes, ListActivationsByVersionID
<1>4. s \in Scopes
  BY <1>3 DEF DatabaseSound, IndexSound, ActivationIndexIn
<1>5. QED
  BY <1>1, <1>4 DEF ServedRuntime

\* What is served is on the stream.
LEMMA ServedIsTold ==
  ASSUME DatabaseSound(db), NEW s \in Scopes, db.byScope[s] # None, AnnouncedIn(db, stream, s)
  PROVE  ToldAfter(stream, 0, ServedRuntime(db, s))
<1> DEFINE event == ActivatedEvent(db.activations[db.byScope[s]].version, db.byScope[s], s)
<1>1. event.kind = "activated" /\ Projection(event) = ServedRuntime(db, s)
  BY DEF ActivatedEvent, Projection, ServedRuntime
<1>2. PICK i \in 1 .. Len(stream) : stream[i] = event
  BY DEF AnnouncedIn
<1>3. QED
  BY <1>1, <1>2 DEF ToldAfter

-----------------------------------------------------------------------------
(* The invariant of the validator's view.                                  *)

CacheTypes ==
  /\ status \in {"down", "bootstrapping", "halted", "up", "unsubscribed"}
  /\ reply \subseteq Runtimes
  /\ cache \in [Scopes -> Runtimes \cup {None}]
  /\ mailbox \in Seq(Event)
  /\ cursor \in [Durables -> 0 .. Len(stream)]
  /\ unacked \in [Durables -> SUBSET (1 .. Len(stream))]
  /\ faults \in [crashes : 0 .. MaxCrashes, lostAcks : 0 .. MaxLostAcks]

\* Whatever the validator holds or was answered is on the stream.
Provenance ==
  /\ \A s \in Scopes : cache[s] # None => cache[s].scope = s /\ ToldAfter(stream, 0, cache[s])
  /\ \A r \in reply : ToldAfter(stream, 0, r)
  /\ \A r, q \in reply : r.scope = q.scope => r = q
  /\ \A j \in 1 .. Len(mailbox) : Stored(stream, mailbox[j])
  /\ \A d \in Durables : \A i \in unacked[d] : stream[i].kind = d

\* A validator that does not serve holds nothing; without subscriptions, no event.
Quiet ==
  /\ status \in {"down", "bootstrapping", "halted"} => cache = NoRuntimes
  /\ status # "up" => mailbox = <<>>

\* The activation of runtime r is in the mailbox.
Mailed(box, r) ==
  \E j \in 1 .. Len(box) : box[j].kind = "activated" /\ Projection(box[j]) = r

\* What a scope serves is in the cache, or its event is still to be delivered or
\* handled; while the validator starts, configctl's answer stands for the cache.
Informed ==
  \A s \in Scopes : db.byScope[s] # None =>
    /\ status = "up" =>
         \/ cache[s] = ServedRuntime(db, s)
         \/ Mailed(mailbox, ServedRuntime(db, s))
         \/ ToldAfter(stream, cursor["activated"], ServedRuntime(db, s))
    /\ status = "bootstrapping" =>
         \/ ServedRuntime(db, s) \in reply
         \/ ToldAfter(stream, cursor["activated"], ServedRuntime(db, s))

CacheInv == CacheTypes /\ Provenance /\ Quiet /\ Informed

PropagationInv == NamingInv /\ HistoryInv /\ CacheInv
\* What the invariant says of the control plane.
LEMMA StreamFacts ==
  ASSUME PropagationInv
  PROVE  /\ DatabaseSound(db)
         /\ stream \in Seq(Event)
         /\ Len(stream) \in Nat
         /\ \A i \in 1 .. Len(stream) :
              /\ stream[i] \in Event
              /\ Harmless(db, stream[i])
              /\ stream[i].kind = "activated" =>
                   stream[i].version \in VersionIDs /\ stream[i].activation \in ActivationIDs
         /\ \A s \in Scopes : AnnouncedIn(db, stream, s)
<1>1. /\ IInv /\ HistoryInv
      /\ \A s \in Scopes : AnnouncedIn(db, stream, s)
  BY DEF PropagationInv, NamingInv, ServingInv
<1>2. /\ DatabaseSound(db)
      /\ stream \in Seq(Event)
      /\ issued.activations \in 0 .. MaxActivations
  BY <1>1 DEF IInv, TypeOK
<1>3. \A n \in 1 .. issued.activations : n \in ActivationIDs
  BY <1>2, ConstantsAssumption DEF ActivationIDs
<1>4. QED
  BY <1>1, <1>2, <1>3 DEF HistoryInv, Dated

LEMMA ToldLonger ==
  ASSUME NEW old \in Seq(Event), NEW new \in Seq(Event), Len(old) <= Len(new),
         \A i \in 1 .. Len(old) : new[i] = old[i]
  PROVE  /\ \A c \in Nat : \A r : ToldAfter(old, c, r) => ToldAfter(new, c, r)
         /\ \A c \in 0 .. Len(old) : \A r : ToldAfter(new, Len(old), r) => ToldAfter(new, c, r)
         /\ \A event : Stored(old, event) => Stored(new, event)
<1>1. ASSUME NEW c \in Nat, NEW r, ToldAfter(old, c, r)
      PROVE  ToldAfter(new, c, r)
  <2>1. PICK i \in c + 1 .. Len(old) : old[i].kind = "activated" /\ Projection(old[i]) = r
    BY <1>1 DEF ToldAfter
  <2>2. i \in c + 1 .. Len(new) /\ new[i] = old[i]
    BY <2>1
  <2>3. QED
    BY <2>1, <2>2 DEF ToldAfter
<1>2. ASSUME NEW c \in 0 .. Len(old), NEW r, ToldAfter(new, Len(old), r)
      PROVE  ToldAfter(new, c, r)
  <2>1. PICK i \in Len(old) + 1 .. Len(new) : new[i].kind = "activated" /\ Projection(new[i]) = r
    BY <1>2 DEF ToldAfter
  <2>2. i \in c + 1 .. Len(new)
    BY <2>1
  <2>3. QED
    BY <2>1, <2>2 DEF ToldAfter
<1>3. ASSUME NEW event, Stored(old, event)
      PROVE  Stored(new, event)
  BY <1>3 DEF Stored
<1>4. QED
  BY <1>1, <1>2, <1>3

\* A step of the control plane: what it begins to serve is told after both cursors.
LEMMA ControlPlaneKeepsCache ==
  ASSUME PropagationInv, ControlPlaneMoves, UNCHANGED cacheVars
  PROVE  CacheInv'
<1>1. /\ stream \in Seq(Event) /\ Len(stream) \in Nat
      /\ stream' \in Seq(Event)
      /\ Len(stream) <= Len(stream')
      /\ \A i \in 1 .. Len(stream) : stream'[i] = stream[i]
  BY StreamFacts DEF ControlPlaneMoves
<1>2. /\ \A c \in Nat : \A r : ToldAfter(stream, c, r) => ToldAfter(stream', c, r)
      /\ \A c \in 0 .. Len(stream) : \A r : ToldAfter(stream', Len(stream), r) => ToldAfter(stream', c, r)
      /\ \A event : Stored(stream, event) => Stored(stream', event)
  BY <1>1, ToldLonger
<1>3. CacheTypes /\ Provenance /\ Quiet /\ Informed
  BY DEF PropagationInv, CacheInv
<1>4. UNCHANGED <<status, reply, cache, mailbox, cursor, unacked, faults>>
  BY DEF cacheVars
<1>5. CacheTypes'
  <2>1. cursor' \in [Durables -> 0 .. Len(stream')]
    BY <1>1, <1>3, <1>4 DEF CacheTypes
  <2>2. unacked' \in [Durables -> SUBSET (1 .. Len(stream'))]
    BY <1>1, <1>3, <1>4 DEF CacheTypes
  <2>3. QED
    BY <1>3, <1>4, <2>1, <2>2 DEF CacheTypes
<1>6. Provenance'
  <2>1. \A d \in Durables : \A i \in unacked[d] : stream'[i].kind = d
    BY <1>1, <1>3 DEF CacheTypes, Provenance
  <2>2. \A r : ToldAfter(stream, 0, r) => ToldAfter(stream', 0, r)
    BY <1>2
  <2>3. QED
    BY <1>2, <1>3, <1>4, <2>1, <2>2 DEF Provenance
<1>7. Quiet'
  BY <1>3, <1>4 DEF Quiet
<1>8. cursor["activated"] \in Nat /\ cursor["activated"] \in 0 .. Len(stream)
  BY <1>1, <1>3 DEF CacheTypes, Durables
<1>9. ASSUME NEW s \in Scopes, db'.byScope[s] # None
      PROVE  LET r == ServedRuntime(db', s)
             IN  /\ status = "up" =>
                      cache[s] = r \/ Mailed(mailbox, r) \/ ToldAfter(stream', cursor["activated"], r)
                 /\ status = "bootstrapping" =>
                      r \in reply \/ ToldAfter(stream', cursor["activated"], r)
  <2>1. CASE db'.byScope[s] = db.byScope[s] /\ ServedRuntime(db', s) = ServedRuntime(db, s)
    BY <1>2, <1>3, <1>8, <1>9, <2>1 DEF Informed
  <2>2. CASE ToldAfter(stream', Len(stream), ServedRuntime(db', s))
    BY <1>2, <1>8, <2>2
  <2>3. QED
    BY <1>9, <2>1, <2>2 DEF ControlPlaneMoves
<1>10. Informed'
  BY <1>4, <1>9 DEF Informed
<1>11. QED
  BY <1>5, <1>6, <1>7, <1>10 DEF CacheInv

\* The cache is never ahead of what its scope serves.
LEMMA CachedNotLater ==
  ASSUME PropagationInv, NEW s \in Scopes, db.byScope[s] # None, cache[s] # None
  PROVE  ~(cache[s].activation > db.byScope[s])
<1>1. cache[s].scope = s /\ ToldAfter(stream, 0, cache[s])
  BY DEF PropagationInv, CacheInv, Provenance
<1>2. PICK i \in 0 + 1 .. Len(stream) :
        stream[i].kind = "activated" /\ Projection(stream[i]) = cache[s]
  BY <1>1 DEF ToldAfter
<1>3. i \in 1 .. Len(stream)
  BY <1>2
<1>4. stream[i].activation \in ActivationIDs /\ Harmless(db, stream[i]) /\ DatabaseSound(db)
  BY <1>2, <1>3, StreamFacts
<1>5. stream[i].scope = s /\ stream[i].activation = cache[s].activation
  BY <1>1, <1>2 DEF Projection
<1>6. db.byScope[s] \in ActivationIDs
  BY <1>4, ServedRecords
<1>7. \/ stream[i].activation < db.byScope[s]
      \/ cache[s] = ServedRuntime(db, s)
  BY <1>2, <1>4, <1>5 DEF Harmless
<1>8. cache[s] = ServedRuntime(db, s) => cache[s].activation = db.byScope[s]
  BY DEF ServedRuntime
<1>9. QED
  BY <1>4, <1>5, <1>6, <1>7, <1>8 DEF ActivationIDs

-----------------------------------------------------------------------------
(* The validator's steps.                                                  *)

\* The answer of configctl is what it serves when it answers.
LEMMA LoadKeepsCache ==
  ASSUME PropagationInv, LoadFromConfigctl
  PROVE  CacheInv'
<1> DEFINE answer == ListActiveRuntimeProjections(db)
<1>1. /\ CacheTypes /\ Provenance /\ Quiet
      /\ status = "down" /\ status' = "bootstrapping" /\ reply' = answer
      /\ UNCHANGED <<cache, mailbox, cursor, unacked, faults, db, stream>>
  BY DEF PropagationInv, CacheInv, LoadFromConfigctl, Load, vars
<1>2. \A r \in answer :
        r.scope \in Scopes /\ db.byScope[r.scope] # None /\ r = ServedRuntime(db, r.scope)
  BY StreamFacts, AnswerIsServed
<1>3. \A s \in Scopes : db.byScope[s] # None =>
        ServedRuntime(db, s) \in Runtimes /\ ToldAfter(stream, 0, ServedRuntime(db, s))
  BY StreamFacts, ServedIsRuntime, ServedIsTold
<1>4. \A s \in Scopes : db.byScope[s] # None => ServedRuntime(db, s) \in answer
  <2>1. DatabaseSound(db) /\ RuntimesIn(db)
    BY StreamFacts DEF PropagationInv, NamingInv, ServingInv
  <2>2. QED
    BY <2>1, ViewsAgree DEF ServedViewsAgree
<1> HIDE DEF answer
<1>5. CacheTypes'
  BY <1>1, <1>2, <1>3 DEF CacheTypes
<1>6. Provenance'
  <2>1. \A r \in answer : ToldAfter(stream, 0, r)
    BY <1>2, <1>3
  <2>2. \A r, q \in answer : r.scope = q.scope => r = q
    BY <1>2
  <2>3. QED
    BY <1>1, <2>1, <2>2 DEF Provenance
<1>7. Quiet'
  BY <1>1 DEF Quiet
<1>8. Informed'
  BY <1>1, <1>4 DEF Informed
<1>9. QED
  BY <1>5, <1>6, <1>7, <1>8 DEF CacheInv

LEMMA LoadFailsKeepsCache ==
  ASSUME PropagationInv, LoadFails, UNCHANGED vars
  PROVE  CacheInv'
<1>1. /\ CacheTypes /\ Provenance /\ Quiet
      /\ status = "down" /\ status' = "halted"
      /\ UNCHANGED <<reply, cache, mailbox, cursor, unacked, faults, db, stream>>
  BY DEF PropagationInv, CacheInv, LoadFails, vars
<1>2. CacheTypes' /\ Provenance'
  BY <1>1 DEF CacheTypes, Provenance
<1>3. Quiet' /\ Informed'
  BY <1>1 DEF Quiet, Informed
<1>4. QED
  BY <1>2, <1>3 DEF CacheInv

\* The validator starts from the answer, however old it is: what was served since
\* is told after the cursors.
LEMMA StartKeepsCache ==
  ASSUME PropagationInv, Start, UNCHANGED vars
  PROVE  CacheInv'
<1>1. /\ CacheTypes /\ Provenance /\ Quiet /\ Informed
      /\ status = "bootstrapping"
      /\ cache' = Bootstrapped(reply)
      /\ reply' = {}
      /\ status' \in {"up", "unsubscribed"}
      /\ UNCHANGED <<mailbox, cursor, unacked, faults, db, stream>>
  BY DEF PropagationInv, CacheInv, Start, vars
<1>2. reply \subseteq Runtimes /\ \A r, q \in reply : r.scope = q.scope => r = q
  BY <1>1 DEF CacheTypes, Provenance
<1>3. ASSUME NEW s \in Scopes
      PROVE  /\ \A r \in reply : r.scope = s => cache'[s] = r
             /\ (\A r \in reply : r.scope # s) => cache'[s] = None
  <2>1. cache'[s] = IF \E r \in reply : r.scope = s
                      THEN CHOOSE r \in reply : r.scope = s
                      ELSE None
    BY <1>1 DEF Bootstrapped
  <2>2. ASSUME NEW r \in reply, r.scope = s
        PROVE  cache'[s] = r
    <3>1. \E q \in reply : q.scope = s
      BY <2>2
    <3>2. cache'[s] \in reply /\ cache'[s].scope = s
      BY <2>1, <3>1
    <3>3. QED
      BY <1>2, <2>2, <3>2
  <2>3. QED
    BY <2>1, <2>2
<1>4. \A s \in Scopes : cache'[s] = None \/ (cache'[s] \in reply /\ cache'[s].scope = s)
  <2>1. ASSUME NEW s \in Scopes, NEW r \in reply, r.scope = s
        PROVE  cache'[s] \in reply /\ cache'[s].scope = s
    <3>1. cache'[s] = r
      BY <1>3, <2>1
    <3>2. QED
      BY <2>1, <3>1
  <2>2. QED
    BY <1>3, <2>1
<1>5. CacheTypes'
  <2>1. cache' \in [Scopes -> Runtimes \cup {None}]
    BY <1>1, <1>2, <1>4 DEF Bootstrapped
  <2>2. QED
    BY <1>1, <2>1 DEF CacheTypes
<1>6. Provenance'
  BY <1>1, <1>4 DEF Provenance
<1>7. Quiet'
  BY <1>1 DEF Quiet
<1>8. Informed'
  <2>1. ASSUME NEW s \in Scopes, db.byScope[s] # None
        PROVE  \/ cache'[s] = ServedRuntime(db, s)
               \/ ToldAfter(stream, cursor["activated"], ServedRuntime(db, s))
    <3>1. ServedRuntime(db, s).scope = s
      BY DEF ServedRuntime
    <3>2. \/ ServedRuntime(db, s) \in reply
          \/ ToldAfter(stream, cursor["activated"], ServedRuntime(db, s))
      BY <1>1, <2>1 DEF Informed
    <3>3. QED
      BY <1>3, <3>1, <3>2
  <2>2. QED
    BY <1>1, <2>1 DEF Informed
<1>9. QED
  BY <1>5, <1>6, <1>7, <1>8 DEF CacheInv

LEMMA CrashKeepsCache ==
  ASSUME PropagationInv, Crash, UNCHANGED vars
  PROVE  CacheInv'
<1>1. /\ CacheTypes /\ Provenance
      /\ status' = "down" /\ reply' = {} /\ cache' = NoRuntimes /\ mailbox' = <<>>
      /\ faults.crashes < MaxCrashes
      /\ faults' = [faults EXCEPT !.crashes = @ + 1]
      /\ UNCHANGED <<cursor, unacked, db, stream>>
  BY DEF PropagationInv, CacheInv, Crash, vars
<1>2. \A s \in Scopes : cache'[s] = None
  BY <1>1 DEF NoRuntimes
<1>3. CacheTypes'
  <2>1. faults' \in [crashes : 0 .. MaxCrashes, lostAcks : 0 .. MaxLostAcks]
    BY <1>1, CacheConstantsAssumption DEF CacheTypes
  <2>2. cache' \in [Scopes -> Runtimes \cup {None}]
    BY <1>1 DEF NoRuntimes
  <2>3. mailbox' \in Seq(Event)
    BY <1>1
  <2>4. QED
    BY <1>1, <2>1, <2>2, <2>3 DEF CacheTypes
<1>4. Provenance'
  BY <1>1, <1>2 DEF Provenance
<1>5. Quiet' /\ Informed'
  BY <1>1 DEF Quiet, Informed
<1>6. QED
  BY <1>3, <1>4, <1>5 DEF CacheInv

\* The cache actor handles the first event of its mailbox.
LEMMA HandleMessageKeepsCache ==
  ASSUME PropagationInv, HandleMessage, UNCHANGED vars
  PROVE  CacheInv'
<1> DEFINE event == Head(mailbox)
<1>1. /\ CacheTypes /\ Provenance /\ Quiet /\ Informed
      /\ mailbox # <<>>
      /\ cache' = Receive(cache, event)
      /\ mailbox' = Tail(mailbox)
      /\ UNCHANGED <<status, reply, cursor, unacked, faults, db, stream>>
  BY DEF PropagationInv, CacheInv, HandleMessage, vars
<1>2. /\ mailbox \in Seq(Event) /\ Len(mailbox) \in Nat /\ Len(mailbox) >= 1
      /\ event = mailbox[1]
      /\ event \in Event
      /\ mailbox' \in Seq(Event)
      /\ Len(mailbox') = Len(mailbox) - 1
      /\ \A j \in 1 .. Len(mailbox') : mailbox'[j] = mailbox[j + 1]
  <2>1. mailbox \in Seq(Event)
    BY <1>1 DEF CacheTypes
  <2>2. /\ Tail(mailbox) \in Seq(Event) /\ event \in Event
        /\ Len(Tail(mailbox)) = Len(mailbox) - 1
        /\ \A j \in 1 .. Len(Tail(mailbox)) : Tail(mailbox)[j] = mailbox[j + 1]
    BY <1>1, <2>1, HeadTailProperties
  <2>3. event = mailbox[1] /\ Len(mailbox) >= 1 /\ Len(mailbox) \in Nat
    BY <1>1, <2>1
  <2>4. QED
    BY <1>1, <2>1, <2>2, <2>3
<1> HIDE DEF event
<1>3. /\ Stored(stream, event)
      /\ \A j \in 1 .. Len(mailbox') : Stored(stream, mailbox'[j])
  <2>1. \A j \in 1 .. Len(mailbox) : Stored(stream, mailbox[j])
    BY <1>1 DEF Provenance
  <2>2. \A j \in 1 .. Len(mailbox') : j + 1 \in 1 .. Len(mailbox)
    BY <1>2
  <2>3. QED
    BY <1>2, <2>1, <2>2
<1>4. /\ event.kind \in Durables
      /\ Harmless(db, event)
      /\ event.kind = "activated" =>
           /\ event.version \in VersionIDs /\ event.activation \in ActivationIDs
           /\ ToldAfter(stream, 0, Projection(event))
  <2>1. PICK i \in 1 .. Len(stream) : stream[i] = event
    BY <1>3 DEF Stored
  <2>2. /\ Harmless(db, event)
        /\ event.kind = "activated" =>
             event.version \in VersionIDs /\ event.activation \in ActivationIDs
    BY <2>1, StreamFacts
  <2>3. event.kind = "activated" => ToldAfter(stream, 0, Projection(event))
    BY <2>1 DEF ToldAfter
  <2>4. QED
    BY <1>3, <2>2, <2>3 DEF Stored
<1>5. cache \in [Scopes -> Runtimes \cup {None}]
  BY <1>1 DEF CacheTypes
<1>6. /\ cache' \in [Scopes -> Runtimes \cup {None}]
      /\ \A s \in Scopes :
           \/ cache'[s] = cache[s]
           \/ cache'[s] = None
           \/ event.kind = "activated" /\ event.scope = s /\ cache'[s] = Projection(event)
  BY <1>1, <1>2, <1>4, <1>5, ReceiveOutcomes
<1>7. CacheTypes'
  BY <1>1, <1>2, <1>6 DEF CacheTypes
<1>8. Provenance'
  <2>1. event.kind = "activated" => Projection(event).scope = event.scope
    BY DEF Projection
  <2>2. \A s \in Scopes : cache'[s] # None =>
          cache'[s].scope = s /\ ToldAfter(stream, 0, cache'[s])
    BY <1>1, <1>4, <1>6, <2>1 DEF Provenance
  <2>3. QED
    BY <1>1, <1>3, <2>2 DEF Provenance
<1>9. Quiet'
  BY <1>1 DEF Quiet
<1>10. ASSUME NEW s \in Scopes, db.byScope[s] # None, status = "up"
       PROVE  \/ cache'[s] = ServedRuntime(db, s)
              \/ Mailed(mailbox', ServedRuntime(db, s))
              \/ ToldAfter(stream, cursor["activated"], ServedRuntime(db, s))
  <2>1. ServedRuntime(db, s) \in Runtimes
    BY <1>10, StreamFacts, ServedIsRuntime
  <2>2. CASE cache[s] = ServedRuntime(db, s)
    BY <1>1, <1>2, <1>4, <1>5, <1>10, <2>1, <2>2, CacheIgnores
  <2>3. ASSUME NEW j \in 1 .. Len(mailbox),
               mailbox[j].kind = "activated", Projection(mailbox[j]) = ServedRuntime(db, s)
        PROVE  cache'[s] = ServedRuntime(db, s) \/ Mailed(mailbox', ServedRuntime(db, s))
    <3>1. CASE j = 1
      <4>1. cache[s] # None => ~(cache[s].activation > db.byScope[s])
        BY <1>10, CachedNotLater
      <4>2. event.kind = "activated" /\ Projection(event) = ServedRuntime(db, s)
        BY <1>2, <2>3, <3>1
      <4>3. QED
        BY <1>1, <1>2, <1>5, <2>1, <4>1, <4>2, CacheTakes
    <3>2. CASE j # 1
      <4>1. j - 1 \in 1 .. Len(mailbox') /\ (j - 1) + 1 = j
        BY <1>2, <2>3, <3>2
      <4>2. mailbox'[j - 1] = mailbox[j]
        BY <1>2, <4>1
      <4>3. QED
        BY <2>3, <4>1, <4>2 DEF Mailed
    <3>3. QED
      BY <3>1, <3>2
  <2>4. CASE Mailed(mailbox, ServedRuntime(db, s))
    BY <2>3, <2>4 DEF Mailed
  <2>5. QED
    BY <1>1, <1>10, <2>2, <2>4 DEF Informed
<1>11. Informed'
  BY <1>1, <1>10 DEF Informed
<1>12. QED
  BY <1>7, <1>8, <1>9, <1>11 DEF CacheInv

\* A durable hands over the event at position i; its cursor has passed i.
LEMMA ForwardKeepsCache ==
  ASSUME PropagationInv, UNCHANGED vars, NEW d \in Durables, NEW i \in 1 .. Len(stream),
         stream[i].kind = d, Forward(d, i), cursor' \in [Durables -> 0 .. Len(stream)],
         \A k \in cursor["activated"] + 1 .. Len(stream) :
           stream[k].kind = "activated" => k = i \/ k > cursor'["activated"]
  PROVE  CacheInv'
<1> DEFINE event == stream[i]
<1>1. /\ CacheTypes /\ Provenance /\ Quiet /\ Informed
      /\ status = "up"
      /\ mailbox' = Append(mailbox, event)
      /\ UNCHANGED <<status, reply, cache, db, stream>>
  BY DEF PropagationInv, CacheInv, Forward, vars
<1>2. event \in Event /\ Len(stream) \in Nat
  BY StreamFacts
<1>3. /\ mailbox' \in Seq(Event)
      /\ Len(mailbox) \in Nat
      /\ Len(mailbox') = Len(mailbox) + 1
      /\ \A j \in 1 .. Len(mailbox) : mailbox'[j] = mailbox[j]
      /\ mailbox'[Len(mailbox) + 1] = event
  <2>1. mailbox \in Seq(Event)
    BY <1>1 DEF CacheTypes
  <2> HIDE DEF event
  <2>2. QED
    BY <1>1, <1>2, <2>1, AppendProperties
<1>4. /\ unacked' \in [Durables -> SUBSET (1 .. Len(stream))]
      /\ \A c \in Durables : \A k \in unacked'[c] : stream[k].kind = c
      /\ faults' \in [crashes : 0 .. MaxCrashes, lostAcks : 0 .. MaxLostAcks]
  <2>1. /\ unacked \in [Durables -> SUBSET (1 .. Len(stream))]
        /\ \A c \in Durables : \A k \in unacked[c] : stream[k].kind = c
        /\ faults \in [crashes : 0 .. MaxCrashes, lostAcks : 0 .. MaxLostAcks]
    BY <1>1 DEF CacheTypes, Provenance
  <2>2. CASE unacked' = [unacked EXCEPT ![d] = @ \ {i}] /\ UNCHANGED faults
    BY <2>1, <2>2
  <2>3. CASE /\ faults.lostAcks < MaxLostAcks
             /\ unacked' = [unacked EXCEPT ![d] = @ \cup {i}]
             /\ faults' = [faults EXCEPT !.lostAcks = @ + 1]
    <3>1. faults' \in [crashes : 0 .. MaxCrashes, lostAcks : 0 .. MaxLostAcks]
      <4>1. /\ faults.lostAcks \in Nat /\ faults.lostAcks + 1 \in 0 .. MaxLostAcks
            /\ faults' = [faults EXCEPT !.lostAcks = faults.lostAcks + 1]
        BY <2>1, <2>3, CacheConstantsAssumption
      <4>2. QED
        BY <2>1, <4>1
    <3>2. unacked' \in [Durables -> SUBSET (1 .. Len(stream))]
      BY <2>1, <2>3
    <3>3. \A c \in Durables : \A k \in unacked'[c] : stream[k].kind = c
      BY <2>1, <2>3
    <3>4. QED
      BY <3>1, <3>2, <3>3
  <2>4. QED
    BY <2>2, <2>3 DEF Forward
<1>5. CacheTypes'
  BY <1>1, <1>3, <1>4 DEF CacheTypes
<1>6. Provenance'
  <2>1. Stored(stream, event)
    BY DEF Stored
  <2>2. \A j \in 1 .. Len(mailbox') : Stored(stream, mailbox'[j])
    <3>1. \A j \in 1 .. Len(mailbox') : j \in 1 .. Len(mailbox) \/ j = Len(mailbox) + 1
      BY <1>3
    <3>2. \A j \in 1 .. Len(mailbox) : Stored(stream, mailbox[j])
      BY <1>1 DEF Provenance
    <3> HIDE DEF event
    <3>3. QED
      BY <1>3, <2>1, <3>1, <3>2
  <2>3. QED
    BY <1>1, <1>4, <2>2 DEF Provenance
<1>7. Quiet'
  BY <1>1 DEF Quiet
<1>8. ASSUME NEW r, Mailed(mailbox, r)
      PROVE  Mailed(mailbox', r)
  <2>1. PICK j \in 1 .. Len(mailbox) : mailbox[j].kind = "activated" /\ Projection(mailbox[j]) = r
    BY <1>8 DEF Mailed
  <2>2. j \in 1 .. Len(mailbox') /\ mailbox'[j] = mailbox[j]
    BY <1>3, <2>1
  <2>3. QED
    BY <2>1, <2>2 DEF Mailed
<1>9. ASSUME NEW r, ToldAfter(stream, cursor["activated"], r)
      PROVE  Mailed(mailbox', r) \/ ToldAfter(stream, cursor'["activated"], r)
  <2>1. PICK k \in cursor["activated"] + 1 .. Len(stream) :
          stream[k].kind = "activated" /\ Projection(stream[k]) = r
    BY <1>9 DEF ToldAfter
  <2>2. CASE k = i
    <3>1. mailbox'[Len(mailbox) + 1] = stream[k] /\ Len(mailbox) + 1 \in 1 .. Len(mailbox')
      BY <1>3, <2>2
    <3>2. QED
      BY <2>1, <3>1 DEF Mailed
  <2>3. CASE k > cursor'["activated"]
    <3>1. cursor["activated"] \in Nat /\ cursor'["activated"] \in Nat
      BY <1>1 DEF CacheTypes, Durables
    <3>2. k \in cursor'["activated"] + 1 .. Len(stream)
      BY <1>2, <2>1, <2>3, <3>1
    <3>3. QED
      BY <2>1, <3>2 DEF ToldAfter
  <2>4. QED
    BY <2>1, <2>2, <2>3
<1>10. Informed'
  <2>1. ASSUME NEW s \in Scopes, db.byScope[s] # None
        PROVE  \/ cache[s] = ServedRuntime(db, s)
               \/ Mailed(mailbox', ServedRuntime(db, s))
               \/ ToldAfter(stream, cursor'["activated"], ServedRuntime(db, s))
    BY <1>1, <1>8, <1>9, <2>1 DEF Informed
  <2>2. QED
    BY <1>1, <2>1 DEF Informed
<1>11. QED
  BY <1>5, <1>6, <1>7, <1>10 DEF CacheInv

LEMMA DeliverKeepsCache ==
  ASSUME PropagationInv, UNCHANGED vars, NEW d \in Durables, Deliver(d)
  PROVE  CacheInv'
<1>1. PICK i \in Pending(d) :
        /\ \A j \in Pending(d) : i <= j
        /\ Forward(d, i)
        /\ cursor' = [cursor EXCEPT ![d] = i]
  BY DEF Deliver
<1>2. cursor \in [Durables -> 0 .. Len(stream)] /\ Len(stream) \in Nat
  BY StreamFacts DEF PropagationInv, CacheInv, CacheTypes
<1>3. i \in 1 .. Len(stream) /\ stream[i].kind = d
  BY <1>1, <1>2 DEF Pending
<1>4. cursor' \in [Durables -> 0 .. Len(stream)]
  BY <1>1, <1>2, <1>3
<1>5. ASSUME NEW k \in cursor["activated"] + 1 .. Len(stream), stream[k].kind = "activated"
      PROVE  k = i \/ k > cursor'["activated"]
  <2>1. cursor["activated"] \in 0 .. Len(stream)
    BY <1>2 DEF Durables
  <2>2. CASE d = "activated"
    <3>1. k \in Pending(d) /\ cursor'["activated"] = i
      BY <1>1, <1>2, <1>5, <2>2 DEF Pending
    <3>2. QED
      BY <1>1, <1>2, <1>3, <1>5, <2>1, <3>1
  <2>3. CASE d # "activated"
    <3>1. cursor'["activated"] = cursor["activated"]
      BY <1>1, <1>2, <2>3 DEF Durables
    <3>2. QED
      BY <1>2, <1>5, <2>1, <3>1
  <2>4. QED
    BY <2>2, <2>3
<1>6. QED
  BY <1>1, <1>3, <1>4, <1>5, ForwardKeepsCache

LEMMA RedeliverKeepsCache ==
  ASSUME PropagationInv, UNCHANGED vars, NEW d \in Durables, Redeliver(d)
  PROVE  CacheInv'
<1>1. PICK i \in unacked[d] : Forward(d, i) /\ UNCHANGED cursor
  BY DEF Redeliver
<1>2. /\ cursor \in [Durables -> 0 .. Len(stream)]
      /\ unacked \in [Durables -> SUBSET (1 .. Len(stream))]
      /\ \A k \in unacked[d] : stream[k].kind = d
      /\ Len(stream) \in Nat
  BY StreamFacts DEF PropagationInv, CacheInv, CacheTypes, Provenance
<1>3. i \in 1 .. Len(stream) /\ stream[i].kind = d
  BY <1>1, <1>2
<1>4. cursor["activated"] \in 0 .. Len(stream)
  BY <1>2 DEF Durables
<1>5. \A k \in cursor["activated"] + 1 .. Len(stream) : k > cursor'["activated"]
  BY <1>1, <1>2, <1>4
<1>6. QED
  BY <1>1, <1>2, <1>3, <1>5, ForwardKeepsCache

-----------------------------------------------------------------------------
(* The theorems.                                                           *)

LEMMA PropagationInvInit == PropagationInit => PropagationInv
<1> SUFFICES ASSUME PropagationInit PROVE PropagationInv
  OBVIOUS
<1>1. NamingInv
  BY ServingInit DEF PropagationInit
<1>2. stream = <<>> /\ CacheInit /\ \A s \in Scopes : db.byScope[s] = None
  BY DEF PropagationInit, Init, EmptyDatabase
<1>3. HistoryInv
  BY <1>2 DEF HistoryInv
<1>4. \A s \in Scopes : cache[s] = None
  BY <1>2 DEF CacheInit, NoRuntimes
<1>5. CacheTypes
  BY <1>2, CacheConstantsAssumption DEF CacheInit, CacheTypes, NoRuntimes
<1>6. Provenance
  BY <1>2, <1>4 DEF CacheInit, Provenance
<1>7. Quiet /\ Informed
  BY <1>2 DEF CacheInit, Quiet, Informed
<1>8. QED
  BY <1>1, <1>3, <1>5, <1>6, <1>7 DEF PropagationInv, CacheInv

LEMMA PropagationInvNext ==
  ASSUME ~PublishMayFail
  PROVE  PropagationInv /\ [PropagationNext]_propagationVars => PropagationInv'
<1> SUFFICES ASSUME PropagationInv, [PropagationNext]_propagationVars
             PROVE  PropagationInv'
  OBVIOUS
<1>1. NamingInv /\ HistoryInv
  BY DEF PropagationInv
<1>2. [Next]_vars
  BY DEF PropagationNext, propagationVars, LoadFromConfigctl
<1>3. NamingInv'
  BY <1>1, <1>2, NamingNext
<1>4. HistoryInv' /\ ControlPlaneMoves
  BY <1>1, <1>2, ControlPlaneSteps
<1> SUFFICES CacheInv'
  BY <1>3, <1>4 DEF PropagationInv
<1>5. CASE UNCHANGED cacheVars
  BY <1>4, <1>5, ControlPlaneKeepsCache
<1>6. CASE LoadFromConfigctl
  BY <1>6, LoadKeepsCache
<1>7. CASE CacheNext /\ UNCHANGED vars
  BY <1>7, HandleMessageKeepsCache, LoadFailsKeepsCache, StartKeepsCache, CrashKeepsCache,
     DeliverKeepsCache, RedeliverKeepsCache DEF CacheNext
<1>8. QED
  BY <1>5, <1>6, <1>7 DEF PropagationNext, propagationVars

LEMMA CaughtUpIsCached == PropagationInv => ServedIsCached
<1> SUFFICES ASSUME PropagationInv, CaughtUp, NEW s \in Scopes, db.byScope[s] # None
             PROVE  cache[s] = ServedRuntime(db, s)
  BY DEF ServedIsCached
<1>1. /\ status = "up" /\ mailbox = <<>>
      /\ Pending("activated") = {}
  BY DEF CaughtUp, Durables
<1>2. ~Mailed(mailbox, ServedRuntime(db, s))
  BY <1>1 DEF Mailed
<1>3. ~ToldAfter(stream, cursor["activated"], ServedRuntime(db, s))
  BY <1>1 DEF ToldAfter, Pending
<1>4. QED
  BY <1>1, <1>2, <1>3 DEF PropagationInv, CacheInv, Informed

\* While no publication fails, a validator that has caught up holds exactly what
\* every scope serves: for any number of scopes, versions and events, however the
\* two durables deliver, redeliver and replay them, and whatever crashes.
THEOREM CaughtUpIsCurrent ==
  ASSUME ~PublishMayFail
  PROVE  PropagationSpec => []ServedIsCached
<1>1. PropagationInit => PropagationInv
  BY PropagationInvInit
<1>2. PropagationInv /\ [PropagationNext]_propagationVars => PropagationInv'
  BY PropagationInvNext
<1>3. PropagationInv => ServedIsCached
  BY CaughtUpIsCached
<1>4. QED
  BY <1>1, <1>2, <1>3, PTL DEF PropagationSpec

\* A step in which s goes on serving what the cache holds for it.
StaysCached(s) ==
  /\ db.byScope[s] # None
  /\ cache[s] = ServedRuntime(db, s)
  /\ db'.byScope[s] = db.byScope[s]
  /\ status' # "down"
  => cache'[s] = cache[s]

LEMMA StepKeepsCached ==
  ASSUME PropagationInv, PropagationNext, NEW s \in Scopes
  PROVE  StaysCached(s)
<1> SUFFICES ASSUME db.byScope[s] # None, cache[s] = ServedRuntime(db, s), status' # "down"
             PROVE  cache'[s] = cache[s]
  BY DEF StaysCached
<1>1. CacheTypes /\ Provenance /\ Quiet
  BY DEF PropagationInv, CacheInv
<1>2. ServedRuntime(db, s) \in Runtimes /\ ServedRuntime(db, s) # None
  BY StreamFacts, ServedIsRuntime, CacheConstantsAssumption
<1>3. CASE UNCHANGED cacheVars
  BY <1>3 DEF cacheVars
<1>4. CASE LoadFromConfigctl
  BY <1>4 DEF LoadFromConfigctl, Load
<1>5. CASE HandleMessage
  <2> DEFINE event == Head(mailbox)
  <2>1. mailbox # <<>> /\ mailbox \in Seq(Event) /\ cache' = Receive(cache, event)
    BY <1>1, <1>5 DEF HandleMessage, CacheTypes
  <2>2. event \in Event /\ event = mailbox[1] /\ 1 \in 1 .. Len(mailbox)
    BY <2>1
  <2>3. Stored(stream, mailbox[1])
    BY <1>1, <2>2 DEF Provenance
  <2> HIDE DEF event
  <2>4. Stored(stream, event)
    BY <2>2, <2>3
  <2>5. PICK i \in 1 .. Len(stream) : stream[i] = event
    BY <2>4 DEF Stored
  <2>6. /\ event.kind \in Durables
        /\ Harmless(db, event)
        /\ event.kind = "activated" => event.activation \in ActivationIDs
    BY <2>4, <2>5, StreamFacts DEF Stored
  <2>7. cache \in [Scopes -> Runtimes \cup {None}]
    BY <1>1 DEF CacheTypes
  <2>8. Receive(cache, event)[s] = ServedRuntime(db, s)
    BY <1>2, <2>2, <2>6, <2>7, CacheIgnores
  <2>9. QED
    BY <2>1, <2>8
<1>6. CASE LoadFails
  BY <1>6 DEF LoadFails
<1>7. CASE Start
  <2>1. cache[s] = None
    BY <1>1, <1>7 DEF Start, Quiet, NoRuntimes
  <2>2. QED
    BY <1>2, <2>1
<1>8. CASE Crash
  BY <1>8 DEF Crash
<1>9. ASSUME NEW d \in Durables, Deliver(d) \/ Redeliver(d)
      PROVE  cache' = cache
  BY <1>9 DEF Deliver, Redeliver, Forward
<1>10. QED
  BY <1>3, <1>4, <1>5, <1>6, <1>7, <1>8, <1>9 DEF PropagationNext, CacheNext

\* While no publication fails and the validator stays up, no step takes out of the
\* cache what its scope goes on serving, whatever event arrives late, again or in
\* another order.
THEOREM NothingLateEvicts ==
  ASSUME ~PublishMayFail
  PROVE  PropagationSpec => ServedStaysCached
<1>1. PropagationInit => PropagationInv
  BY PropagationInvInit
<1>2. PropagationInv /\ [PropagationNext]_propagationVars => PropagationInv'
  BY PropagationInvNext
<1>3. PropagationInv /\ [PropagationNext]_propagationVars =>
        [\A s \in Scopes :
           /\ db.byScope[s] # None
           /\ cache[s] = ServedRuntime(db, s)
           /\ db'.byScope[s] = db.byScope[s]
           /\ status' # "down"
           => cache'[s] = cache[s]]_propagationVars
  BY StepKeepsCached DEF StaysCached
<1>4. QED
  BY <1>1, <1>2, <1>3, PTL DEF PropagationSpec, ServedStaysCached
===============================================================================
