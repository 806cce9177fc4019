---------------------------- MODULE RaccoonProofs ----------------------------
(***************************************************************************)
(* Proofs about raccoon-cli, for every working tree and every command line: *)
(* the gopls bridge, trace-pack, the quality gate and the smoke tests, each *)
(* of which keeps variables of its own, so that its invariant is kept by    *)
(* its own commands and left alone by all others; and what the reports of   *)
(* the analyzers mean for the tree they read.                               *)
(***************************************************************************)
EXTENDS Raccoon, Recursion, SequenceTheorems, FiniteSetTheorems, TLAPS

-----------------------------------------------------------------------------
(* Sequences as sets of their elements *)

\* A concatenation has the elements of both sequences.
LEMMA Concatenated ==
  ASSUME NEW S, NEW s \in Seq(S), NEW t \in Seq(S)
  PROVE  s \o t \in Seq(S) /\ ToSet(s \o t) = ToSet(s) \cup ToSet(t)
<1>1. /\ s \o t \in Seq(S)
      /\ Len(s \o t) = Len(s) + Len(t)
      /\ \A i \in 1 .. Len(s) + Len(t) :
           (s \o t)[i] = IF i <= Len(s) THEN s[i] ELSE t[i - Len(s)]
  BY ConcatProperties
<1>2. Len(s) \in Nat /\ Len(t) \in Nat /\ DOMAIN s = 1 .. Len(s) /\ DOMAIN t = 1 .. Len(t)
  OBVIOUS
<1>3. DOMAIN (s \o t) = 1 .. Len(s) + Len(t)
  BY <1>1
<1>4. ASSUME NEW x \in ToSet(s \o t)
      PROVE  x \in ToSet(s) \cup ToSet(t)
  <2>1. PICK i \in 1 .. Len(s) + Len(t) : x = (s \o t)[i]
    BY <1>3, <1>4 DEF ToSet
  <2>2. CASE i <= Len(s)
    BY <1>1, <1>2, <2>1, <2>2 DEF ToSet
  <2>3. CASE i > Len(s)
    <3>1. i - Len(s) \in 1 .. Len(t)
      BY <1>2, <2>3
    <3>2. QED
      BY <1>1, <1>2, <2>1, <2>3, <3>1 DEF ToSet
  <2>4. QED
    BY <1>2, <2>2, <2>3
<1>5. ASSUME NEW x \in ToSet(s)
      PROVE  x \in ToSet(s \o t)
  <2>1. PICK i \in 1 .. Len(s) : x = s[i]
    BY <1>2, <1>5 DEF ToSet
  <2>2. i \in 1 .. Len(s) + Len(t) /\ x = (s \o t)[i]
    BY <1>1, <1>2, <2>1
  <2>3. QED
    BY <1>3, <2>2 DEF ToSet
<1>6. ASSUME NEW x \in ToSet(t)
      PROVE  x \in ToSet(s \o t)
  <2>1. PICK i \in 1 .. Len(t) : x = t[i]
    BY <1>2, <1>6 DEF ToSet
  <2>2. /\ i + Len(s) \in 1 .. Len(s) + Len(t)
        /\ ~(i + Len(s) <= Len(s))
        /\ i + Len(s) - Len(s) = i
    BY <1>2
  <2>3. x = (s \o t)[i + Len(s)]
    BY <1>1, <2>1, <2>2
  <2>4. QED
    BY <1>3, <2>2, <2>3 DEF ToSet
<1>7. QED
  BY <1>1, <1>4, <1>5, <1>6

\* A part of a sequence has no elements of its own.
LEMMA Part ==
  ASSUME NEW S, NEW s \in Seq(S), NEW m \in 1 .. Len(s) + 1, NEW n \in 0 .. Len(s)
  PROVE  SubSeq(s, m, n) \in Seq(S) /\ ToSet(SubSeq(s, m, n)) \subseteq ToSet(s)
<1>1. Len(s) \in Nat /\ DOMAIN s = 1 .. Len(s)
  OBVIOUS
<1>2. \A i \in m .. n : s[i] \in S
  BY <1>1
<1>3. SubSeq(s, m, n) \in Seq(S)
  BY <1>1
<1>4. /\ Len(SubSeq(s, m, n)) = IF m <= n THEN n - m + 1 ELSE 0
      /\ \A i \in 1 .. n - m + 1 : SubSeq(s, m, n)[i] = s[m + i - 1]
  BY <1>1
<1>5. ASSUME NEW x \in ToSet(SubSeq(s, m, n))
      PROVE  x \in ToSet(s)
  <2>1. DOMAIN SubSeq(s, m, n) = 1 .. Len(SubSeq(s, m, n))
    BY <1>3
  <2>2. PICK i \in 1 .. Len(SubSeq(s, m, n)) : x = SubSeq(s, m, n)[i]
    BY <1>5, <2>1 DEF ToSet
  <2>3. m <= n /\ i \in 1 .. n - m + 1 /\ m + i - 1 \in 1 .. Len(s)
    BY <1>1, <1>4, <2>2
  <2>4. x = s[m + i - 1]
    BY <1>4, <2>2, <2>3
  <2>5. QED
    BY <1>1, <2>3, <2>4 DEF ToSet
<1>6. QED
  BY <1>3, <1>5

-----------------------------------------------------------------------------
(* The gopls bridge *)

Methods == {"initialize", "definition", "references", "hover", "shutdown", "drop"}

BridgePlaces == {"idle", "send", "read", "drop", "exit", "wait", "kill", "done"}

BridgeStatuses == {"none", "unavailable", "enriched", "no results"}

\* What is on the pipe and in the buffer; "none" is the method of a notification.
Fragments == [id : Nat, method : Methods \cup {"none"}, part : {"head", "tail"}]

Owed == [id : Nat, method : Methods]

BridgeTypes ==
  /\ bridge \in [running : BOOLEAN, explicit : BOOLEAN, anchor : BOOLEAN, at : BridgePlaces,
                 method : Methods, id : Nat \ {0}, buffer : Seq(Fragments), skipped : BOOLEAN,
                 client : BOOLEAN, found : SUBSET Methods, mixed : BOOLEAN,
                 status : BridgeStatuses]
  /\ gopls \in [alive : BOOLEAN, hung : BOOLEAN, owes : SUBSET Owed, pipe : Seq(Fragments),
                notes : Nat, exiting : BOOLEAN]

\* Nothing on its way answers a request that was not sent yet, and what answers
\* the request in hand answers its method.  The second holds only while the
\* answer is read: a request that failed leaves its id to the method after it
\* until that one is sent under a new id.
AnswersTo(f) ==
  /\ f.id <= bridge.id
  /\ bridge.at = "read" /\ f.id = bridge.id => f.method = bridge.method

AnswersMatch ==
  \A f \in gopls.owes \cup ToSet(gopls.pipe) \cup ToSet(bridge.buffer) : AnswersTo(f)

\* A child lives only while a bridge that is not through with it runs, and there
\* is none before.
ChildIsHeld ==
  /\ gopls.alive => bridge.running /\ bridge.at # "done"
  /\ ~bridge.running => gopls = NoProcess

BridgeInv == BridgeTypes /\ AnswersMatch /\ ChildIsHeld /\ NoAnswerMixup

\* What is on its way answers a request sent before.
LEMMA SentBefore ==
  ASSUME BridgeInv, NEW f \in gopls.owes \cup ToSet(gopls.pipe) \cup ToSet(bridge.buffer)
  PROVE  f.id \in Nat /\ f.id <= bridge.id
<1>1. f.id <= bridge.id
  BY DEF BridgeInv, AnswersMatch, AnswersTo
<1>2. /\ gopls.owes \in SUBSET Owed
      /\ gopls.pipe \in Seq(Fragments)
      /\ bridge.buffer \in Seq(Fragments)
  BY DEF BridgeInv, BridgeTypes
<1>3. f \in Owed \/ f \in Fragments
  BY <1>2 DEF ToSet
<1>4. QED
  BY <1>1, <1>3 DEF Owed, Fragments

LEMMA BridgeInit == RaccoonInit => BridgeInv
<1> SUFFICES ASSUME RaccoonInit
             PROVE  BridgeInv
  OBVIOUS
<1>1. bridge = IdleBridge /\ gopls = NoProcess
  BY DEF RaccoonInit, GoplsInit
<1>2. << >> \in Seq(Fragments) /\ ToSet(<< >>) = {}
  BY DEF ToSet
<1>3. BridgeTypes
  BY <1>1, <1>2 DEF BridgeTypes, IdleBridge, NoProcess, Methods, BridgePlaces, BridgeStatuses
<1>4. AnswersMatch
  BY <1>1, <1>2 DEF AnswersMatch, IdleBridge, NoProcess
<1>5. ChildIsHeld /\ NoAnswerMixup
  BY <1>1 DEF ChildIsHeld, NoAnswerMixup, IdleBridge, NoProcess
<1>6. QED
  BY <1>3, <1>4, <1>5 DEF BridgeInv

\* The bridge turned to another request or place, with a new buffer.
Turned(at, method, found, client, status) ==
  [bridge EXCEPT !.at = at, !.method = method, !.found = found, !.buffer = << >>,
                 !.skipped = FALSE, !.client = client, !.status = status]

Turns(next) ==
  \E at \in BridgePlaces \ {"read", "done"}, method \in Methods, found \in SUBSET Methods,
    client \in BOOLEAN, status \in BridgeStatuses :
      next = Turned(at, method, found, client, status)

\* When it turns, every answer on its way is to a request sent before.
LEMMA Entered ==
  ASSUME BridgeInv, bridge.running, NEW next, Turns(next),
         NEW id \in Nat, id >= bridge.id, bridge' = [next EXCEPT !.id = id],
         UNCHANGED gopls
  PROVE  BridgeInv'
<1>9. PICK at \in BridgePlaces \ {"read", "done"}, method \in Methods, found \in SUBSET Methods,
           client \in BOOLEAN, status \in BridgeStatuses :
             next = Turned(at, method, found, client, status)
  BY DEF Turns
<1>10. bridge' = [bridge EXCEPT !.at = at, !.method = method, !.found = found,
                               !.buffer = << >>, !.skipped = FALSE, !.client = client,
                               !.status = status, !.id = id]
  BY <1>9 DEF Turned, BridgeInv, BridgeTypes
<1>1. << >> \in Seq(Fragments) /\ ToSet(<< >>) = {}
  BY DEF ToSet
<1>2. bridge.id \in Nat \ {0} /\ id \in Nat \ {0}
  BY DEF BridgeInv, BridgeTypes
<1>3. BridgeTypes'
  <2> DEFINE Bools == BOOLEAN
             Ids == Nat \ {0}
             Founds == SUBSET Methods
             Buffers == Seq(Fragments)
  <2>1. BridgeTypes
    BY DEF BridgeInv
  <2>2. /\ at \in BridgePlaces /\ id \in Ids /\ << >> \in Buffers
        /\ found \in Founds /\ client \in Bools /\ FALSE \in Bools
        /\ method \in Methods /\ status \in BridgeStatuses
    BY <1>1, <1>2, <1>9
  <2>3. bridge \in [running : Bools, explicit : Bools, anchor : Bools, at : BridgePlaces,
                    method : Methods, id : Ids, buffer : Buffers, skipped : Bools,
                    client : Bools, found : Founds, mixed : Bools, status : BridgeStatuses]
    BY <2>1 DEF BridgeTypes
  <2> HIDE DEF Bools, Ids, Founds, Buffers
  <2>4. bridge' \in [running : Bools, explicit : Bools, anchor : Bools, at : BridgePlaces,
                     method : Methods, id : Ids, buffer : Buffers, skipped : Bools,
                     client : Bools, found : Founds, mixed : Bools, status : BridgeStatuses]
    <3> DEFINE moved == [bridge EXCEPT !.at = at, !.method = method, !.found = found,
                                       !.buffer = << >>]
               BridgeRecords ==
                 [running : Bools, explicit : Bools, anchor : Bools, at : BridgePlaces,
                  method : Methods, id : Ids, buffer : Buffers, skipped : Bools,
                  client : Bools, found : Founds, mixed : Bools, status : BridgeStatuses]
    <3>1. moved \in BridgeRecords
      BY <2>2, <2>3
    <3> HIDE DEF moved
    <3> DEFINE freed == [moved EXCEPT !.skipped = FALSE, !.client = client]
    <3>2. freed \in BridgeRecords
      BY <2>2, <3>1
    <3> HIDE DEF freed
    <3>3. bridge' = [freed EXCEPT !.status = status, !.id = id]
      BY <1>10 DEF moved, freed
    <3>4. bridge' \in BridgeRecords
      BY <2>2, <3>2, <3>3
    <3>5. QED
      BY <3>4
  <2>5. QED
    BY <2>1, <2>4 DEF BridgeTypes, Bools, Ids, Founds, Buffers
<1>4. /\ bridge'.at = at
      /\ bridge'.id = id
      /\ bridge'.buffer = << >>
      /\ bridge'.running = bridge.running
      /\ bridge'.mixed = bridge.mixed
  BY <1>10 DEF BridgeInv, BridgeTypes
<1>5. AnswersMatch'
  <2> SUFFICES ASSUME NEW f \in gopls'.owes \cup ToSet(gopls'.pipe) \cup ToSet(bridge'.buffer)
               PROVE  f.id <= bridge'.id /\ bridge'.at # "read"
    BY DEF AnswersMatch, AnswersTo
  <2>1. f \in gopls.owes \cup ToSet(gopls.pipe)
    BY <1>1, <1>4
  <2>2. f.id <= bridge.id /\ f.id \in Nat
    BY <2>1, SentBefore
  <2>3. QED
    BY <1>2, <1>4, <2>2
<1>6. ChildIsHeld'
  BY <1>4 DEF BridgeInv, ChildIsHeld
<1>7. NoAnswerMixup'
  BY <1>4 DEF BridgeInv, NoAnswerMixup
<1>8. QED
  BY <1>3, <1>5, <1>6, <1>7 DEF BridgeInv

LEMMA EnterTurns ==
  ASSUME BridgeInv, NEW at \in BridgePlaces \ {"read", "done"}, NEW method \in Methods,
         NEW found \in SUBSET Methods
  PROVE  /\ Turns(Enter(at, method, found))
         /\ \A status \in BridgeStatuses :
              Turns([Enter(at, method, found) EXCEPT !.status = status])
         /\ \A status \in BridgeStatuses, client \in BOOLEAN :
              Turns([Enter(at, method, found) EXCEPT !.client = client, !.status = status])
<1>1. bridge.client \in BOOLEAN /\ bridge.status \in BridgeStatuses
  BY DEF BridgeInv, BridgeTypes
<1>2. Enter(at, method, found) = Turned(at, method, found, bridge.client, bridge.status)
  BY DEF BridgeInv, BridgeTypes, Enter, Turned
<1>3. \A status \in BridgeStatuses :
        [Enter(at, method, found) EXCEPT !.status = status]
          = Turned(at, method, found, bridge.client, status)
  BY DEF BridgeInv, BridgeTypes, Enter, Turned
<1>4. \A status \in BridgeStatuses, client \in BOOLEAN :
        [Enter(at, method, found) EXCEPT !.client = client, !.status = status]
          = Turned(at, method, found, client, status)
  BY DEF BridgeInv, BridgeTypes, Enter, Turned
<1>5. \A client \in BOOLEAN, status \in BridgeStatuses :
        Turns(Turned(at, method, found, client, status))
  BY DEF Turns
<1>6. Turns(Enter(at, method, found))
  BY <1>1, <1>2, <1>5
<1>7. ASSUME NEW status \in BridgeStatuses
      PROVE  Turns([Enter(at, method, found) EXCEPT !.status = status])
  <2>1. Turns(Turned(at, method, found, bridge.client, status))
    BY <1>1, <1>5
  <2>2. QED
    BY <1>3, <2>1
<1>8. ASSUME NEW status \in BridgeStatuses, NEW client \in BOOLEAN
      PROVE  Turns([Enter(at, method, found) EXCEPT !.client = client, !.status = status])
  <2>1. Turns(Turned(at, method, found, client, status))
    BY <1>5
  <2>2. QED
    BY <1>4, <2>1
<1>9. QED
  BY <1>6, <1>7, <1>8

LEMMA StatusTypes == \A client \in BOOLEAN : \A found : StatusOf(client, found) \in BridgeStatuses
  BY DEF StatusOf, BridgeStatuses

LEMMA NoneFound == {} \in SUBSET Methods
  OBVIOUS

\* The methods in the order they follow each other.
LEMMA QueriesAre == QueryNames = {"definition", "references", "hover"}
  BY DEF QueryNames, Queries

\* After an answered handshake, an answered query and any request that failed,
\* the bridge turns to something else.
LEMMA InitializeTurns == ASSUME BridgeInv PROVE Turns(AfterInitialize)
<1>1. Turns(Enter("send", "definition", {}))
  BY EnterTurns, NoneFound DEF BridgePlaces, Methods
<1>2. Turns([Enter("drop", "shutdown", {}) EXCEPT !.status = StatusOf(TRUE, {})])
  BY EnterTurns, NoneFound, StatusTypes DEF BridgePlaces, Methods
<1>3. QED
  BY <1>1, <1>2 DEF AfterInitialize

LEMMA QueryTurns ==
  ASSUME BridgeInv, bridge.method \in QueryNames, NEW found \in SUBSET Methods
  PROVE  Turns(AfterQuery(found))
<1>1. Turns(Enter("send", "references", found)) /\ Turns(Enter("send", "hover", found))
  BY EnterTurns DEF BridgePlaces, Methods
<1>2. Turns([Enter("drop", "shutdown", found) EXCEPT !.status = StatusOf(TRUE, found)])
  BY EnterTurns, StatusTypes DEF BridgePlaces, Methods
<1>3. QED
  BY <1>1, <1>2, QueriesAre DEF AfterQuery

LEMMA ErrorTurns == ASSUME BridgeInv PROVE Turns(AfterError)
<1>1. bridge.method \in Methods /\ bridge.found \in SUBSET Methods
  BY DEF BridgeInv, BridgeTypes
<1>2. Turns([Enter("send", "drop", {}) EXCEPT !.client = FALSE, !.status = StatusOf(FALSE, {})])
  BY EnterTurns, NoneFound, StatusTypes DEF BridgePlaces, Methods
<1>3. Turns(Enter("send", "drop", bridge.found)) /\ Turns(Enter("kill", "drop", bridge.found))
  BY <1>1, EnterTurns DEF BridgePlaces, Methods
<1>4. bridge.method \in QueryNames => Turns(AfterQuery(bridge.found))
  BY <1>1, QueryTurns
<1>5. QED
  BY <1>1, <1>2, <1>3, <1>4, QueriesAre DEF AfterError, Methods

-----------------------------------------------------------------------------
(* The steps of the child *)

\* A child that writes a message it owes, or a notification, writes no answer
\* to a request in hand but the one it owes.
LEMMA Written ==
  ASSUME BridgeInv, gopls.alive, NEW id \in Nat, NEW method \in Methods \cup {"none"},
         id <= bridge.id, bridge.at = "read" /\ id = bridge.id => method = bridge.method,
         NEW owes \in SUBSET gopls.owes, NEW notes \in Nat, UNCHANGED bridge,
         gopls' = [gopls EXCEPT !.owes = owes, !.pipe = @ \o Message(id, method), !.notes = notes]
  PROVE  BridgeInv'
<1>1. Message(id, method) \in Seq(Fragments)
  BY DEF Message, Fragments
<1>2. \A f \in ToSet(Message(id, method)) : f.id = id /\ f.method = method
  BY DEF Message, ToSet
<1>3. gopls.pipe \in Seq(Fragments)
  BY DEF BridgeInv, BridgeTypes
<1>4. /\ gopls.pipe \o Message(id, method) \in Seq(Fragments)
      /\ ToSet(gopls.pipe \o Message(id, method))
           = ToSet(gopls.pipe) \cup ToSet(Message(id, method))
  BY <1>1, <1>3, Concatenated
<1>5. BridgeTypes'
  BY <1>4 DEF BridgeInv, BridgeTypes
<1>6. /\ gopls'.owes \subseteq gopls.owes
      /\ gopls'.pipe = gopls.pipe \o Message(id, method)
      /\ gopls'.alive = gopls.alive
  BY DEF BridgeInv, BridgeTypes
<1>7. AnswersMatch'
  <2> SUFFICES ASSUME NEW f \in gopls'.owes \cup ToSet(gopls'.pipe) \cup ToSet(bridge'.buffer)
               PROVE  AnswersTo(f)
    BY DEF AnswersMatch, AnswersTo
  <2>1. \/ f \in gopls.owes \cup ToSet(gopls.pipe) \cup ToSet(bridge.buffer)
        \/ f \in ToSet(Message(id, method))
    BY <1>4, <1>6
  <2>2. QED
    BY <1>2, <2>1 DEF BridgeInv, AnswersMatch, AnswersTo
<1>8. ChildIsHeld' /\ NoAnswerMixup'
  BY <1>6 DEF BridgeInv, ChildIsHeld, NoAnswerMixup
<1>9. QED
  BY <1>5, <1>7, <1>8 DEF BridgeInv

LEMMA AnswersKeep == ASSUME BridgeInv, GoplsAnswers PROVE BridgeInv'
<1>1. PICK owed \in gopls.owes :
        gopls' = [gopls EXCEPT !.owes = @ \ {owed}, !.pipe = @ \o Message(owed.id, owed.method)]
  BY DEF GoplsAnswers
<1>2. gopls.owes \in SUBSET Owed /\ gopls.notes \in Nat
  BY DEF BridgeInv, BridgeTypes
<1>3. owed.id \in Nat /\ owed.method \in Methods \cup {"none"}
  BY <1>2 DEF Owed
<1>4. /\ owed.id <= bridge.id
      /\ bridge.at = "read" /\ owed.id = bridge.id => owed.method = bridge.method
  BY DEF BridgeInv, AnswersMatch, AnswersTo
<1>5. gopls' = [gopls EXCEPT !.owes = gopls.owes \ {owed},
                             !.pipe = @ \o Message(owed.id, owed.method), !.notes = gopls.notes]
  BY <1>1 DEF BridgeInv, BridgeTypes
<1>6. UNCHANGED bridge /\ gopls.alive
  BY DEF GoplsAnswers, Talks
<1>7. QED
  BY <1>2, <1>3, <1>4, <1>5, <1>6, Written

LEMMA NotifiesKeeps == ASSUME BridgeInv, GoplsNotifies PROVE BridgeInv'
<1>1. gopls' = [gopls EXCEPT !.pipe = @ \o Message(0, "none"), !.notes = @ + 1]
  BY DEF GoplsNotifies
<1>2. gopls.notes \in Nat /\ bridge.id \in Nat \ {0}
  BY DEF BridgeInv, BridgeTypes
<1>3. 0 <= bridge.id /\ 0 # bridge.id /\ gopls.notes + 1 \in Nat
  BY <1>2
<1>4. PICK id \in Nat, method \in Methods \cup {"none"}, notes \in Nat, owes \in SUBSET gopls.owes :
        id = 0 /\ method = "none" /\ notes = gopls.notes + 1 /\ owes = gopls.owes
  BY <1>3
<1>5. gopls' = [gopls EXCEPT !.owes = owes, !.pipe = @ \o Message(id, method), !.notes = notes]
  BY <1>1, <1>4 DEF BridgeInv, BridgeTypes
<1>6. id <= bridge.id /\ (bridge.at = "read" /\ id = bridge.id => method = bridge.method)
  BY <1>3, <1>4
<1>7. UNCHANGED bridge /\ gopls.alive
  BY DEF GoplsNotifies, Talks
<1>8. QED
  BY <1>5, <1>6, <1>7, Written

\* A child that stops, or stops talking, writes nothing more.
LEMMA QuietKeeps ==
  ASSUME BridgeInv, gopls.alive, UNCHANGED bridge, NEW alive \in BOOLEAN, NEW hung \in BOOLEAN,
         NEW exiting \in BOOLEAN,
         gopls' = [gopls EXCEPT !.alive = alive, !.hung = hung, !.exiting = exiting]
  PROVE  BridgeInv'
<1>1. BridgeTypes'
  BY DEF BridgeInv, BridgeTypes
<1>2. gopls'.owes = gopls.owes /\ gopls'.pipe = gopls.pipe /\ gopls'.alive = alive
  BY DEF BridgeInv, BridgeTypes
<1>3. AnswersMatch' /\ ChildIsHeld' /\ NoAnswerMixup'
  BY <1>2 DEF BridgeInv, AnswersMatch, AnswersTo, ChildIsHeld, NoAnswerMixup
<1>4. QED
  BY <1>1, <1>3 DEF BridgeInv

LEMMA GoplsStepsKeep == ASSUME BridgeInv, GoplsSteps PROVE BridgeInv'
<1>1. gopls.alive \in BOOLEAN /\ gopls.hung \in BOOLEAN /\ gopls.exiting \in BOOLEAN
  BY DEF BridgeInv, BridgeTypes
<1>2. CASE GoplsAnswers
  BY <1>2, AnswersKeep
<1>3. CASE GoplsNotifies
  BY <1>3, NotifiesKeeps
<1>4. CASE GoplsExits \/ GoplsDies
  <2>1. gopls.alive /\ UNCHANGED bridge /\ gopls' = [gopls EXCEPT !.alive = FALSE]
    BY <1>4 DEF GoplsExits, GoplsDies, Talks
  <2>2. gopls' = [gopls EXCEPT !.alive = FALSE, !.hung = gopls.hung, !.exiting = gopls.exiting]
    BY <2>1 DEF BridgeInv, BridgeTypes
  <2>3. QED
    BY <1>1, <2>1, <2>2, QuietKeeps
<1>5. CASE GoplsHangs
  <2>1. gopls.alive /\ UNCHANGED bridge /\ gopls' = [gopls EXCEPT !.hung = TRUE]
    BY <1>5 DEF GoplsHangs, Talks
  <2>2. gopls' = [gopls EXCEPT !.alive = gopls.alive, !.hung = TRUE, !.exiting = gopls.exiting]
    BY <2>1 DEF BridgeInv, BridgeTypes
  <2>3. QED
    BY <1>1, <2>1, <2>2, QuietKeeps
<1>6. QED
  BY <1>2, <1>3, <1>4, <1>5 DEF GoplsSteps

-----------------------------------------------------------------------------
(* The steps of the bridge *)

LEMMA TurnedFields ==
  ASSUME BridgeInv, NEW next, Turns(next)
  PROVE  /\ next.id = bridge.id /\ next.mixed = bridge.mixed
         /\ next = [next EXCEPT !.id = bridge.id]
         /\ next = [next EXCEPT !.mixed = bridge.mixed]
<1>1. PICK at \in BridgePlaces \ {"read", "done"}, method \in Methods, found \in SUBSET Methods,
           client \in BOOLEAN, status \in BridgeStatuses :
             next = Turned(at, method, found, client, status)
  BY DEF Turns
<1>2. << >> \in Seq(Fragments)
  OBVIOUS
<1>3. next.id = bridge.id /\ next.mixed = bridge.mixed
  BY <1>1, <1>2 DEF Turned, BridgeInv, BridgeTypes
<1>4. next \in [running : BOOLEAN, explicit : BOOLEAN, anchor : BOOLEAN, at : BridgePlaces,
                method : Methods, id : Nat \ {0}, buffer : Seq(Fragments), skipped : BOOLEAN,
                client : BOOLEAN, found : SUBSET Methods, mixed : BOOLEAN,
                status : BridgeStatuses]
  BY <1>1, <1>2 DEF Turned, BridgeInv, BridgeTypes
<1>5. QED
  BY <1>3, <1>4

LEMMA TurnKeeps ==
  ASSUME BridgeInv, bridge.running, Turns(bridge'), UNCHANGED gopls
  PROVE  BridgeInv'
<1>1. bridge.id \in Nat /\ bridge.id >= bridge.id
  BY DEF BridgeInv, BridgeTypes
<1>2. bridge' = [bridge' EXCEPT !.id = bridge.id]
  BY TurnedFields
<1>3. QED
  BY <1>1, <1>2, Entered

LEMMA StartBridgeKeeps ==
  ASSUME BridgeInv, NEW explicit \in BOOLEAN, StartBridge(explicit)
  PROVE  BridgeInv'
<1>1. PICK anchor \in BOOLEAN :
        LET started == [IdleBridge EXCEPT !.running = TRUE, !.explicit = explicit,
                                          !.anchor = anchor]
        IN  \/ /\ bridge' = [started EXCEPT !.at = "done", !.status = StatusOf(FALSE, {})]
               /\ UNCHANGED gopls
            \/ /\ bridge' = [started EXCEPT !.at = "send", !.client = TRUE]
               /\ gopls' = [NoProcess EXCEPT !.alive = TRUE]
  BY DEF StartBridge
<1>2. gopls = NoProcess
  BY DEF StartBridge, BridgeInv, ChildIsHeld
<1>3. << >> \in Seq(Fragments) /\ ToSet(<< >>) = {}
  BY DEF ToSet
<1>4. StatusOf(FALSE, {}) \in BridgeStatuses
  BY StatusTypes
<1>5. PICK at \in {"done", "send"}, client \in BOOLEAN, status \in BridgeStatuses :
        /\ bridge' = [running |-> TRUE, explicit |-> explicit, anchor |-> anchor, at |-> at,
                      method |-> "initialize", id |-> 1, buffer |-> << >>, skipped |-> FALSE,
                      client |-> client, found |-> {}, mixed |-> FALSE, status |-> status]
        /\ gopls' = [alive |-> at = "send", hung |-> FALSE, owes |-> {}, pipe |-> << >>,
                     notes |-> 0, exiting |-> FALSE]
  <2>1. CASE bridge' = [IdleBridge EXCEPT !.running = TRUE, !.explicit = explicit,
                          !.anchor = anchor, !.at = "done", !.status = StatusOf(FALSE, {})]
             /\ UNCHANGED gopls
    BY <1>2, <1>4, <2>1 DEF IdleBridge, NoProcess
  <2>2. CASE bridge' = [IdleBridge EXCEPT !.running = TRUE, !.explicit = explicit,
                          !.anchor = anchor, !.at = "send", !.client = TRUE]
             /\ gopls' = [NoProcess EXCEPT !.alive = TRUE]
    <3>1. "none" \in BridgeStatuses
      BY DEF BridgeStatuses
    <3>2. QED
      BY <2>2, <3>1 DEF IdleBridge, NoProcess
  <2>3. QED
    BY <1>1, <2>1, <2>2 DEF IdleBridge
<1>6. BridgeTypes'
  BY <1>3, <1>5 DEF BridgeTypes, BridgePlaces, Methods
<1>7. AnswersMatch'
  BY <1>3, <1>5 DEF AnswersMatch
<1>8. ChildIsHeld' /\ NoAnswerMixup'
  BY <1>5 DEF ChildIsHeld, NoAnswerMixup
<1>9. QED
  BY <1>6, <1>7, <1>8 DEF BridgeInv

LEMMA SendKeeps == ASSUME BridgeInv, Send PROVE BridgeInv'
<1>1. bridge.running /\ bridge.at = "send" /\ bridge.id \in Nat \ {0} /\ bridge.method \in Methods
  BY DEF Send, BridgeInv, BridgeTypes
<1>2. CASE bridge' = [AfterError EXCEPT !.id = @ + 1] /\ UNCHANGED gopls
  <2>1. Turns(AfterError) /\ AfterError.id = bridge.id
    BY ErrorTurns, TurnedFields
  <2>2. bridge.id + 1 \in Nat /\ bridge.id + 1 >= bridge.id
    BY <1>1
  <2>3. bridge' = [AfterError EXCEPT !.id = bridge.id + 1]
    BY <1>2, <2>1
  <2>4. QED
    BY <1>1, <1>2, <2>1, <2>2, <2>3, Entered
<1>3. CASE /\ gopls.alive
           /\ bridge' = [bridge EXCEPT !.at = "read", !.id = @ + 1]
           /\ gopls' = [gopls EXCEPT !.owes =
                          @ \cup {[id |-> bridge.id + 1, method |-> bridge.method]}]
  <2>1. [id |-> bridge.id + 1, method |-> bridge.method] \in Owed /\ bridge.id + 1 \in Nat \ {0}
    BY <1>1 DEF Owed
  <2>2. "read" \in BridgePlaces
    BY DEF BridgePlaces
  <2>3. BridgeTypes'
    BY <1>3, <2>1, <2>2 DEF BridgeInv, BridgeTypes
  <2>4. /\ bridge'.at = "read"
        /\ bridge'.id = bridge.id + 1
        /\ bridge'.method = bridge.method
        /\ bridge'.buffer = bridge.buffer
        /\ bridge'.running
        /\ bridge'.mixed = bridge.mixed
        /\ gopls'.pipe = gopls.pipe
        /\ gopls'.owes = gopls.owes \cup {[id |-> bridge.id + 1, method |-> bridge.method]}
    BY <1>1, <1>3 DEF BridgeInv, BridgeTypes
  <2>5. AnswersMatch'
    <3> SUFFICES ASSUME NEW f \in gopls'.owes \cup ToSet(gopls'.pipe) \cup ToSet(bridge'.buffer)
                 PROVE  /\ f.id <= bridge'.id
                        /\ f.id = bridge'.id => f.method = bridge'.method
      BY DEF AnswersMatch, AnswersTo
    <3>1. CASE f \in gopls.owes \cup ToSet(gopls.pipe) \cup ToSet(bridge.buffer)
      <4>1. f.id \in Nat /\ f.id <= bridge.id
        BY <3>1, SentBefore
      <4>2. QED
        BY <1>1, <2>4, <4>1
    <3>2. CASE f = [id |-> bridge.id + 1, method |-> bridge.method]
      BY <1>1, <2>4, <3>2
    <3>3. QED
      BY <2>4, <3>1, <3>2
  <2>6. ChildIsHeld' /\ NoAnswerMixup'
    BY <2>4 DEF BridgeInv, ChildIsHeld, NoAnswerMixup
  <2>7. QED
    BY <2>3, <2>5, <2>6 DEF BridgeInv
<1>4. QED
  BY <1>2, <1>3 DEF Send

LEMMA RefillKeeps == ASSUME BridgeInv, Refill PROVE BridgeInv'
<1>1. PICK n \in 1 .. Len(gopls.pipe) :
        /\ bridge' = [bridge EXCEPT !.buffer = @ \o SubSeq(gopls.pipe, 1, n)]
        /\ gopls' = [gopls EXCEPT !.pipe = SubSeq(@, n + 1, Len(@))]
  BY DEF Refill
<1>2. gopls.pipe \in Seq(Fragments) /\ bridge.buffer \in Seq(Fragments) /\ Len(gopls.pipe) \in Nat
  BY DEF BridgeInv, BridgeTypes
<1>3. /\ SubSeq(gopls.pipe, 1, n) \in Seq(Fragments)
      /\ ToSet(SubSeq(gopls.pipe, 1, n)) \subseteq ToSet(gopls.pipe)
      /\ SubSeq(gopls.pipe, n + 1, Len(gopls.pipe)) \in Seq(Fragments)
      /\ ToSet(SubSeq(gopls.pipe, n + 1, Len(gopls.pipe))) \subseteq ToSet(gopls.pipe)
  <2>1. /\ 1 \in 1 .. Len(gopls.pipe) + 1 /\ n \in 0 .. Len(gopls.pipe)
        /\ n + 1 \in 1 .. Len(gopls.pipe) + 1 /\ Len(gopls.pipe) \in 0 .. Len(gopls.pipe)
    BY <1>2
  <2>2. QED
    BY <1>2, <2>1, Part
<1>4. /\ bridge.buffer \o SubSeq(gopls.pipe, 1, n) \in Seq(Fragments)
      /\ ToSet(bridge.buffer \o SubSeq(gopls.pipe, 1, n))
           = ToSet(bridge.buffer) \cup ToSet(SubSeq(gopls.pipe, 1, n))
  <2> DEFINE held == bridge.buffer
             arrived == SubSeq(gopls.pipe, 1, n)
  <2>1. held \in Seq(Fragments) /\ arrived \in Seq(Fragments)
    BY <1>2, <1>3
  <2> HIDE DEF held, arrived
  <2>2. held \o arrived \in Seq(Fragments) /\ ToSet(held \o arrived) = ToSet(held) \cup ToSet(arrived)
    BY <2>1, Concatenated
  <2>3. QED
    BY <2>2 DEF held, arrived
<1>5. BridgeTypes'
  BY <1>1, <1>3, <1>4 DEF BridgeInv, BridgeTypes
<1>6. /\ bridge'.at = bridge.at /\ bridge'.id = bridge.id /\ bridge'.method = bridge.method
      /\ bridge'.running = bridge.running /\ bridge'.mixed = bridge.mixed
      /\ bridge'.buffer = bridge.buffer \o SubSeq(gopls.pipe, 1, n)
      /\ gopls'.pipe = SubSeq(gopls.pipe, n + 1, Len(gopls.pipe))
      /\ gopls'.owes = gopls.owes /\ gopls'.alive = gopls.alive
  BY <1>1 DEF BridgeInv, BridgeTypes
<1>7. AnswersMatch'
  <2> SUFFICES ASSUME NEW f \in gopls'.owes \cup ToSet(gopls'.pipe) \cup ToSet(bridge'.buffer)
               PROVE  AnswersTo(f)'
    BY DEF AnswersMatch
  <2>1. f \in gopls.owes \cup ToSet(gopls.pipe) \cup ToSet(bridge.buffer)
    BY <1>3, <1>4, <1>6
  <2>2. QED
    BY <1>6, <2>1 DEF BridgeInv, AnswersMatch, AnswersTo
<1>8. ChildIsHeld' /\ NoAnswerMixup'
  BY <1>6 DEF BridgeInv, ChildIsHeld, NoAnswerMixup, Refill, Reads
<1>9. QED
  BY <1>5, <1>7, <1>8 DEF BridgeInv

LEMMA SkipKeeps == ASSUME BridgeInv, SkipMessage PROVE BridgeInv'
<1>1. /\ bridge' = [bridge EXCEPT !.buffer = SubSeq(@, 3, Len(@)), !.skipped = TRUE]
      /\ UNCHANGED gopls
      /\ Len(bridge.buffer) > 1
  BY DEF SkipMessage, Whole
<1>2. bridge.buffer \in Seq(Fragments) /\ Len(bridge.buffer) \in Nat
  BY DEF BridgeInv, BridgeTypes
<1>3. /\ SubSeq(bridge.buffer, 3, Len(bridge.buffer)) \in Seq(Fragments)
      /\ ToSet(SubSeq(bridge.buffer, 3, Len(bridge.buffer))) \subseteq ToSet(bridge.buffer)
  <2>1. 3 \in 1 .. Len(bridge.buffer) + 1 /\ Len(bridge.buffer) \in 0 .. Len(bridge.buffer)
    BY <1>1, <1>2
  <2>2. QED
    BY <1>2, <2>1, Part
<1>4. BridgeTypes'
  BY <1>1, <1>3 DEF BridgeInv, BridgeTypes
<1>5. /\ bridge'.at = bridge.at /\ bridge'.id = bridge.id /\ bridge'.method = bridge.method
      /\ bridge'.running = bridge.running /\ bridge'.mixed = bridge.mixed
      /\ bridge'.buffer = SubSeq(bridge.buffer, 3, Len(bridge.buffer))
  BY <1>1 DEF BridgeInv, BridgeTypes
<1>6. AnswersMatch'
  <2> SUFFICES ASSUME NEW f \in gopls'.owes \cup ToSet(gopls'.pipe) \cup ToSet(bridge'.buffer)
               PROVE  AnswersTo(f)'
    BY DEF AnswersMatch
  <2>1. f \in gopls.owes \cup ToSet(gopls.pipe) \cup ToSet(bridge.buffer)
    BY <1>1, <1>3, <1>5
  <2>2. QED
    BY <1>5, <2>1 DEF BridgeInv, AnswersMatch, AnswersTo
<1>7. ChildIsHeld' /\ NoAnswerMixup'
  BY <1>1, <1>5 DEF BridgeInv, ChildIsHeld, NoAnswerMixup
<1>8. QED
  BY <1>4, <1>6, <1>7 DEF BridgeInv

\* The only step that takes a fact: it takes it from the answer to the request.
LEMMA AcceptKeeps == ASSUME BridgeInv, Accept PROVE BridgeInv'
<1>1. /\ bridge.running
      /\ bridge.at = "read"
      /\ bridge.buffer # << >>
      /\ Head(bridge.buffer).id = bridge.id
      /\ UNCHANGED gopls
  BY DEF Accept, Reads, Whole, Fragment, Ours, Incoming
<1>2. Incoming.method = bridge.method
  <2>1. bridge.buffer \in Seq(Fragments)
    BY DEF BridgeInv, BridgeTypes
  <2>2. Head(bridge.buffer) \in ToSet(bridge.buffer)
    BY <1>1, <2>1 DEF ToSet
  <2>3. QED
    BY <1>1, <2>2 DEF BridgeInv, AnswersMatch, AnswersTo, Incoming
<1>3. PICK next : /\ bridge' = [next EXCEPT !.mixed = @ \/ Incoming.method # bridge.method]
                  /\ Turns(next)
  <2>1. PICK answer \in QueryAnswers :
          LET next == CASE bridge.method = "initialize" ->
                             IF answer = "refused" THEN AfterError ELSE AfterInitialize
                        [] bridge.method \in QueryNames ->
                             AfterQuery(IF answer = "found" THEN bridge.found \cup {bridge.method}
                                                            ELSE bridge.found)
                        [] OTHER -> IF answer = "refused" THEN AfterError
                                    ELSE Enter("exit", bridge.method, bridge.found)
          IN  bridge' = [next EXCEPT !.mixed = @ \/ Incoming.method # bridge.method]
    BY DEF Accept
  <2>2. bridge.method \in Methods /\ bridge.found \in SUBSET Methods
    BY DEF BridgeInv, BridgeTypes
  <2>3. Turns(AfterError) /\ Turns(AfterInitialize)
    BY ErrorTurns, InitializeTurns
  <2>4. Turns(Enter("exit", bridge.method, bridge.found))
    BY <2>2, EnterTurns DEF BridgePlaces
  <2>5. CASE bridge.method = "initialize"
    BY <2>1, <2>3, <2>5, QueriesAre
  <2>6. CASE bridge.method \in QueryNames
    <3>1. PICK found \in SUBSET Methods :
            bridge' = [AfterQuery(found) EXCEPT !.mixed = @ \/ Incoming.method # bridge.method]
      <4>1. bridge.method # "initialize"
        BY <2>6, QueriesAre
      <4>2. bridge.found \cup {bridge.method} \in SUBSET Methods
        BY <2>2
      <4>3. QED
        BY <2>1, <2>2, <2>6, <4>1, <4>2
    <3>2. QED
      BY <2>6, <3>1, QueryTurns
  <2>7. CASE bridge.method # "initialize" /\ bridge.method \notin QueryNames
    BY <2>1, <2>3, <2>4, <2>7
  <2>8. QED
    BY <2>5, <2>6, <2>7
<1>4. bridge' = next
  <2>1. next.mixed = bridge.mixed /\ next = [next EXCEPT !.mixed = bridge.mixed]
    BY <1>3, TurnedFields
  <2>2. bridge.mixed = FALSE
    BY DEF BridgeInv, BridgeTypes, NoAnswerMixup
  <2>3. (next.mixed \/ Incoming.method # bridge.method) = bridge.mixed
    BY <1>2, <2>1, <2>2
  <2>4. bridge' = [next EXCEPT !.mixed = next.mixed \/ Incoming.method # bridge.method]
    BY <1>3
  <2>5. QED
    BY <2>1, <2>3, <2>4
<1>5. QED
  BY <1>1, <1>3, <1>4, TurnKeeps

LEMMA SendExitKeeps == ASSUME BridgeInv, SendExit PROVE BridgeInv'
<1>1. CASE bridge' = AfterError /\ UNCHANGED gopls
  BY <1>1, ErrorTurns, TurnKeeps DEF SendExit
<1>2. CASE gopls.alive /\ gopls' = [gopls EXCEPT !.exiting = TRUE]
           /\ bridge' = [bridge EXCEPT !.at = "wait"]
  <2>1. BridgeTypes'
    BY <1>2 DEF BridgeInv, BridgeTypes, BridgePlaces
  <2>2. /\ bridge'.at = "wait" /\ bridge'.id = bridge.id /\ bridge'.buffer = bridge.buffer
        /\ bridge'.running = bridge.running /\ bridge'.mixed = bridge.mixed
        /\ gopls'.owes = gopls.owes /\ gopls'.pipe = gopls.pipe
    BY <1>2 DEF BridgeInv, BridgeTypes
  <2>3. AnswersMatch'
    BY <2>2 DEF BridgeInv, AnswersMatch, AnswersTo
  <2>4. ChildIsHeld' /\ NoAnswerMixup'
    BY <1>2, <2>2 DEF SendExit, BridgeInv, ChildIsHeld, NoAnswerMixup
  <2>5. QED
    BY <2>1, <2>3, <2>4 DEF BridgeInv
<1>3. QED
  BY <1>1, <1>2 DEF SendExit

LEMMA KillKeeps == ASSUME BridgeInv, KillChild PROVE BridgeInv'
<1>1. /\ bridge' = [bridge EXCEPT !.at = "done"]
      /\ gopls' = [gopls EXCEPT !.alive = FALSE]
      /\ bridge.running
  BY DEF KillChild
<1>2. BridgeTypes'
  BY <1>1 DEF BridgeInv, BridgeTypes, BridgePlaces
<1>3. /\ bridge'.at = "done" /\ bridge'.id = bridge.id /\ bridge'.buffer = bridge.buffer
      /\ bridge'.running /\ bridge'.mixed = bridge.mixed
      /\ gopls'.owes = gopls.owes /\ gopls'.pipe = gopls.pipe /\ ~gopls'.alive
  BY <1>1 DEF BridgeInv, BridgeTypes
<1>4. AnswersMatch'
  BY <1>3 DEF BridgeInv, AnswersMatch, AnswersTo
<1>5. ChildIsHeld' /\ NoAnswerMixup'
  BY <1>3 DEF BridgeInv, ChildIsHeld, NoAnswerMixup
<1>6. QED
  BY <1>2, <1>4, <1>5 DEF BridgeInv

LEMMA BridgeStepsKeep == ASSUME BridgeInv, BridgeSteps PROVE BridgeInv'
<1>1. CASE TimesOut \/ Desynchronised \/ EndOfFile
  <2>1. bridge.running /\ bridge' = AfterError /\ UNCHANGED gopls
    BY <1>1 DEF TimesOut, Desynchronised, EndOfFile, Reads
  <2>2. QED
    BY <2>1, ErrorTurns, TurnKeeps
<1>2. CASE EndBridge \/ WaitChild
  <2>1. bridge.found \in SUBSET Methods
    BY DEF BridgeInv, BridgeTypes
  <2>2. /\ bridge.running
        /\ UNCHANGED gopls
        /\ bridge' \in {Enter("send", "shutdown", bridge.found), Enter("send", "drop", bridge.found),
                        Enter("kill", "drop", bridge.found)}
    BY <1>2 DEF EndBridge, WaitChild
  <2>3. /\ Turns(Enter("send", "shutdown", bridge.found))
        /\ Turns(Enter("send", "drop", bridge.found))
        /\ Turns(Enter("kill", "drop", bridge.found))
    BY <2>1, EnterTurns DEF BridgePlaces, Methods
  <2>4. QED
    BY <2>2, <2>3, TurnKeeps
<1>3. QED
  BY <1>1, <1>2, SendKeeps, RefillKeeps, SkipKeeps, AcceptKeeps, SendExitKeeps, KillKeeps
     DEF BridgeSteps

-----------------------------------------------------------------------------
(* Whose step it is *)

\* Only the commands that hold a bridge touch it, only trace-pack touches the
\* pack, and only the gate its own run.
LEMMA OwnVariables ==
  ASSUME [RaccoonNext]_raccoonVars
  PROVE  /\ UNCHANGED goplsVars \/ BridgeCommand
         /\ UNCHANGED packVars \/ PackCommand
         /\ UNCHANGED gateVars \/ StartGateCommand \/ GateStep \/ GateStartsSmoke \/ GateEndsSmoke
         /\ UNCHANGED line
<1>1. CASE StaticCommand \/ DriftCommand \/ AdvisorCommand \/ EndGateCommand \/ EndSmokeCommand
           \/ EndPackCommand \/ EndBridgeCommand
  <2>1. UNCHANGED <<line, tree, gate, bridge, gopls, pack, disk>>
    BY <1>1 DEF StaticCommand, DriftCommand, AdvisorCommand, EndGateCommand, EndSmokeCommand,
                EndPackCommand, EndBridgeCommand, EndsWith
  <2>2. QED
    BY <2>1 DEF goplsVars, packVars, gateVars
<1>2. CASE StartGateCommand \/ GateStep \/ GateEndsSmoke \/ GateStartsSmoke
  BY <1>2 DEF StartGateCommand, GateStep, GateEndsSmoke, GateStartsSmoke
<1>3. CASE StartSmokeCommand \/ SmokeStep
  BY <1>3 DEF StartSmokeCommand, SmokeStep
<1>4. CASE PackCommand
  BY <1>4 DEF PackCommand
<1>5. CASE BridgeCommand
  BY <1>5 DEF BridgeCommand
<1>6. CASE UNCHANGED raccoonVars
  BY <1>6 DEF raccoonVars, goplsVars, packVars, gateVars
<1>7. QED
  BY <1>1, <1>2, <1>3, <1>4, <1>5, <1>6 DEF RaccoonNext

LEMMA BridgeNext == ASSUME BridgeInv, [RaccoonNext]_raccoonVars PROVE BridgeInv'
<1>1. CASE UNCHANGED goplsVars
  BY <1>1 DEF goplsVars, BridgeInv, BridgeTypes, AnswersMatch, AnswersTo, ChildIsHeld, NoAnswerMixup
<1>2. CASE BridgeCommand
  <2>1. (line.command # "lsp-enrich") \in BOOLEAN
    OBVIOUS
  <2>2. QED
    BY <1>2, <2>1, StartBridgeKeeps, BridgeStepsKeep, GoplsStepsKeep DEF BridgeCommand
<1>3. QED
  BY <1>1, <1>2, OwnVariables

LEMMA BridgeInvariant == RaccoonSpec => []BridgeInv
<1>1. RaccoonInit => BridgeInv
  BY BridgeInit
<1>2. BridgeInv /\ [RaccoonNext]_raccoonVars => BridgeInv'
  BY BridgeNext
<1>3. QED
  BY <1>1, <1>2, PTL DEF RaccoonSpec

\* Whatever gopls sends, late, out of turn, in pieces or not at all, and however
\* often, send_request takes no answer for that to another request.
THEOREM AnswersAreOwn == RaccoonSpec => []NoAnswerMixup
<1>1. BridgeInv => NoAnswerMixup
  BY DEF BridgeInv
<1>2. QED
  BY <1>1, BridgeInvariant, PTL

\* No command that is done with its bridge leaves a child behind.
THEOREM NoChildIsLeft == RaccoonSpec => []NoOrphanGopls
<1>1. BridgeInv => NoOrphanGopls
  BY DEF BridgeInv, ChildIsHeld, NoOrphanGopls, BridgeDone
<1>2. QED
  BY <1>1, BridgeInvariant, PTL

-----------------------------------------------------------------------------
(* trace-pack *)

PackPlaces == {"idle", "collect", "write", "compress", "remove", "report", "done", "failed"}

PackFiles == STRING \cup {Summary}

Collected == [file : PackFiles, status : {"ok", "unavailable", "error"}]

PackTypes ==
  /\ pack \in [running : BOOLEAN, compress : BOOLEAN, at : PackPlaces, evidence : Seq(Collected),
               written : Nat, report : {<< >>} \cup (SUBSET PackFiles) \X (SUBSET PackFiles)]
  /\ disk \in [dir : SUBSET PackFiles, archive : SUBSET PackFiles]

\* The files of the first n pieces of evidence that were collected.
OkFiles(evidence, n) ==
  {evidence[i].file : i \in {j \in 1 .. n : evidence[j].status = "ok"}}

WholePack == OkFiles(pack.evidence, Len(pack.evidence)) \cup {Summary}

\* The command has come this far: nothing is written before everything is
\* collected, and the directory holds what was written.
PackProgress ==
  /\ ~pack.running => pack.at = "idle"
  /\ pack.written <= Len(pack.evidence)
  /\ pack.at \in {"idle", "collect"} => pack.written = 0 /\ disk.dir = {}
  /\ pack.at = "collect" => Len(pack.evidence) < Len(Sources)
  /\ pack.at = "write" => /\ Len(pack.evidence) = Len(Sources)
                          /\ disk.dir = OkFiles(pack.evidence, pack.written)

\* The pack is whole in the directory until it is whole in the archive.
PackWhole ==
  /\ pack.at \in {"compress", "remove"} => pack.compress /\ disk.dir = WholePack
  /\ pack.at = "remove" => disk.archive = WholePack
  /\ pack.at \in {"report", "done"} => PackPlace = WholePack
  /\ pack.at = "done" => pack.report[1] = FilesOf(TRUE)
  /\ pack.at = "failed" => \/ OkFiles(pack.evidence, pack.written) \subseteq disk.dir
                           \/ OkFiles(pack.evidence, pack.written) \subseteq disk.archive

PackInv == PackTypes /\ PackProgress /\ PackWhole

LEMMA FilesOfOk == ASSUME PackTypes PROVE FilesOf(TRUE) = OkFiles(pack.evidence, Len(pack.evidence))
<1>1. pack.evidence \in Seq(Collected)
  BY DEF PackTypes
<1>2. DOMAIN pack.evidence = 1 .. Len(pack.evidence)
  BY <1>1
<1>3. QED
  BY <1>2 DEF FilesOf, OkFiles

LEMMA FilesTypes == ASSUME PackTypes PROVE \A b \in BOOLEAN : FilesOf(b) \in SUBSET PackFiles
<1>1. pack.evidence \in Seq(Collected)
  BY DEF PackTypes
<1>2. \A i \in DOMAIN pack.evidence : pack.evidence[i].file \in PackFiles
  <2>1. \A i \in DOMAIN pack.evidence : pack.evidence[i] \in Collected
    BY <1>1, ElementOfSeq
  <2>2. QED
    BY <2>1 DEF Collected
<1>3. QED
  BY <1>2 DEF FilesOf

\* What was written is part of the whole.
LEMMA WrittenIsPart ==
  ASSUME PackTypes, PackProgress
  PROVE  OkFiles(pack.evidence, pack.written) \subseteq WholePack
<1>1. pack.written \in Nat /\ Len(pack.evidence) \in Nat /\ pack.written <= Len(pack.evidence)
  BY DEF PackTypes, PackProgress
<1>2. QED
  BY <1>1 DEF OkFiles, WholePack

LEMMA PackStart == RaccoonInit => PackInv
<1> SUFFICES ASSUME RaccoonInit
             PROVE  PackInv
  OBVIOUS
<1>1. pack = IdlePack /\ disk = EmptyDisk
  BY DEF RaccoonInit, PackInit
<1>2. << >> \in Seq(Collected) /\ Len(<< >>) = 0
  OBVIOUS
<1>3. PackTypes
  BY <1>1, <1>2 DEF PackTypes, IdlePack, EmptyDisk, PackPlaces
<1>4. PackProgress /\ PackWhole
  BY <1>1, <1>2 DEF PackProgress, PackWhole, IdlePack, EmptyDisk
<1>5. QED
  BY <1>3, <1>4 DEF PackInv

LEMMA StartPackKeeps ==
  ASSUME PackInv, NEW compress \in BOOLEAN, StartPack(compress)
  PROVE  PackInv'
<1>1. PICK at \in {"collect", "failed"} :
        pack' = [IdlePack EXCEPT !.running = TRUE, !.compress = compress, !.at = at]
  BY DEF StartPack
<1>2. pack' = [running |-> TRUE, compress |-> compress, at |-> at, evidence |-> << >>,
               written |-> 0, report |-> << >>]
  BY <1>1 DEF IdlePack
<1>3. << >> \in Seq(Collected) /\ Len(<< >>) = 0
  OBVIOUS
<1>4. Len(Sources) \in Nat \ {0}
  BY SourcesAssumption
<1>5. disk' = disk /\ disk.dir = {}
  BY DEF StartPack, PackInv, PackProgress
<1>6. PackTypes'
  BY <1>2, <1>3, <1>5 DEF PackInv, PackTypes, PackPlaces
<1>7. PackProgress'
  BY <1>2, <1>3, <1>4, <1>5 DEF PackProgress
<1>8. PackWhole'
  <2>1. OkFiles(<< >>, 0) = {}
    BY DEF OkFiles
  <2>2. QED
    BY <1>2, <2>1 DEF PackWhole
<1>9. QED
  BY <1>6, <1>7, <1>8 DEF PackInv

LEMMA CollectKeeps == ASSUME PackInv, Collect PROVE PackInv'
<1> DEFINE source == Sources[Len(pack.evidence) + 1]
<1>1. PICK status \in Evidence(source.kind) :
        pack' = [pack EXCEPT
                   !.evidence = Append(@, [file |-> source.file, status |-> status]),
                   !.at = IF Len(pack.evidence) + 1 = Len(Sources) THEN "write" ELSE @]
  BY DEF Collect
<1>2. pack.evidence \in Seq(Collected) /\ Len(pack.evidence) \in Nat
  BY DEF PackInv, PackTypes
<1>3. pack.at = "collect" /\ Len(pack.evidence) < Len(Sources) /\ Len(Sources) \in Nat
  BY SourcesAssumption DEF PackInv, PackProgress, Collect
<1>4. source \in [file : STRING, kind : STRING]
  <2>1. Len(pack.evidence) + 1 \in 1 .. Len(Sources)
    BY <1>2, <1>3
  <2>2. QED
    BY <2>1, ElementOfSeq, SourcesAssumption
<1>5. [file |-> source.file, status |-> status] \in Collected
  BY <1>4 DEF Collected, Evidence, PackFiles
<1> HIDE DEF source
<1>6. PICK evidence \in Seq(Collected), at \in {"write", "collect"} :
        /\ pack' = [pack EXCEPT !.evidence = evidence, !.at = at]
        /\ Len(evidence) = Len(pack.evidence) + 1
        /\ at = "write" <=> Len(evidence) = Len(Sources)
  <2> DEFINE more == Append(pack.evidence, [file |-> source.file, status |-> status])
             next == IF Len(pack.evidence) + 1 = Len(Sources) THEN "write" ELSE "collect"
  <2>1. more \in Seq(Collected) /\ Len(more) = Len(pack.evidence) + 1
    BY <1>2, <1>5, AppendProperties
  <2>2. pack' = [pack EXCEPT !.evidence = more, !.at = next]
    BY <1>1, <1>3 DEF PackInv, PackTypes
  <2>3. next \in {"write", "collect"} /\ (next = "write" <=> Len(more) = Len(Sources))
    BY <2>1
  <2> HIDE DEF more, next
  <2>4. QED
    BY <2>1, <2>2, <2>3
<1>7. disk' = disk
  BY DEF Collect
<1>8. /\ pack'.at = at /\ pack'.evidence = evidence
      /\ pack'.running = pack.running /\ pack'.written = pack.written
  BY <1>6 DEF PackInv, PackTypes
<1>9. PackTypes'
  BY <1>6, <1>7 DEF PackInv, PackTypes, PackPlaces
<1>10. pack.written = 0 /\ disk.dir = {} /\ pack.running
  BY <1>3 DEF PackInv, PackProgress, PackTypes
<1>11. OkFiles(evidence, 0) = {}
  BY DEF OkFiles
<1>12. Len(evidence) <= Len(Sources) /\ Len(evidence) \in Nat
  BY <1>2, <1>3, <1>6
<1>13. PackProgress'
  BY <1>3, <1>6, <1>7, <1>8, <1>10, <1>11, <1>12 DEF PackProgress
<1>14. PackWhole'
  BY <1>8 DEF PackWhole
<1>15. QED
  BY <1>9, <1>13, <1>14 DEF PackInv

\* A command that gives up leaves what it wrote where it was.
LEMMA FailedKeeps ==
  ASSUME PackInv, pack.at \in {"write", "compress", "remove"}, PackFails,
         NEW dir \in SUBSET PackFiles, disk' = [disk EXCEPT !.dir = dir],
         dir = disk.dir \/ pack.at = "remove"
  PROVE  PackInv'
<1>1. pack' = [pack EXCEPT !.at = "failed"]
  BY DEF PackFails, Ended
<1>2. PackTypes'
  BY <1>1 DEF PackInv, PackTypes, PackPlaces
<1>3. /\ pack'.at = "failed" /\ pack'.evidence = pack.evidence /\ pack'.written = pack.written
      /\ pack'.running = pack.running
      /\ disk'.dir = dir /\ disk'.archive = disk.archive
  BY <1>1 DEF PackInv, PackTypes
<1>4. PackProgress'
  BY <1>3 DEF PackInv, PackProgress
<1>5. OkFiles(pack.evidence, pack.written) \subseteq WholePack
  BY WrittenIsPart DEF PackInv
<1>6. \/ OkFiles(pack.evidence, pack.written) \subseteq disk'.dir
      \/ OkFiles(pack.evidence, pack.written) \subseteq disk'.archive
  BY <1>3, <1>5 DEF PackInv, PackProgress, PackWhole
<1>7. PackWhole'
  BY <1>3, <1>6 DEF PackWhole
<1>8. QED
  BY <1>2, <1>4, <1>7 DEF PackInv

LEMMA SameDisk == ASSUME PackInv PROVE disk.dir \in SUBSET PackFiles /\ disk = [disk EXCEPT !.dir = disk.dir]
BY DEF PackInv, PackTypes

LEMMA WriteEvidenceKeeps == ASSUME PackInv, WriteEvidence PROVE PackInv'
<1> DEFINE e == pack.evidence[pack.written + 1]
<1>1. pack.at = "write" /\ pack.written < Len(Sources)
  BY DEF WriteEvidence
<1>2. CASE PackFails /\ UNCHANGED disk
  BY <1>1, <1>2, FailedKeeps, SameDisk
<1>3. CASE /\ pack' = [pack EXCEPT !.written = @ + 1]
           /\ disk' = IF e.status = "ok" THEN [disk EXCEPT !.dir = @ \cup {e.file}] ELSE disk
  <2>1. /\ pack.written \in Nat /\ pack.evidence \in Seq(Collected) /\ Len(pack.evidence) \in Nat
        /\ Len(pack.evidence) = Len(Sources) /\ disk.dir = OkFiles(pack.evidence, pack.written)
    BY <1>1 DEF PackInv, PackTypes, PackProgress
  <2>2. e \in Collected
    <3>1. pack.written + 1 \in 1 .. Len(pack.evidence)
      BY <1>1, <2>1
    <3>2. QED
      BY <2>1, <3>1, ElementOfSeq
  <2>3. /\ pack'.at = "write" /\ pack'.evidence = pack.evidence
        /\ pack'.written = pack.written + 1 /\ pack'.running = pack.running
    BY <1>1, <1>3 DEF PackInv, PackTypes
  <2>4. e.file \in PackFiles
    BY <2>2 DEF Collected
  <2>5. PackTypes'
    <3>1. pack' \in [running : BOOLEAN, compress : BOOLEAN, at : PackPlaces,
                     evidence : Seq(Collected), written : Nat,
                     report : {<< >>} \cup (SUBSET PackFiles) \X (SUBSET PackFiles)]
      BY <1>3 DEF PackInv, PackTypes
    <3>2. disk' \in [dir : SUBSET PackFiles, archive : SUBSET PackFiles]
      BY <1>3, <2>4 DEF PackInv, PackTypes
    <3>3. QED
      BY <3>1, <3>2 DEF PackTypes
  <2>6. disk'.dir = IF e.status = "ok" THEN disk.dir \cup {e.file} ELSE disk.dir
    BY <1>3 DEF PackInv, PackTypes
  <2>7. OkFiles(pack.evidence, pack.written + 1)
          = IF e.status = "ok" THEN OkFiles(pack.evidence, pack.written) \cup {e.file}
                               ELSE OkFiles(pack.evidence, pack.written)
    <3>1. \A j : j \in 1 .. pack.written + 1 <=> j \in 1 .. pack.written \/ j = pack.written + 1
      BY <2>1
    <3>2. QED
      BY <3>1 DEF OkFiles
  <2>8. PackProgress'
    BY <1>1, <2>1, <2>3, <2>6, <2>7 DEF PackInv, PackProgress
  <2>9. PackWhole'
    BY <2>3 DEF PackWhole
  <2>10. QED
    BY <2>5, <2>8, <2>9 DEF PackInv
<1>4. QED
  BY <1>2, <1>3 DEF WriteEvidence

LEMMA WriteSummaryKeeps == ASSUME PackInv, WriteSummary PROVE PackInv'
<1>1. pack.at = "write" /\ pack.written = Len(Sources)
  BY DEF WriteSummary
<1>2. CASE PackFails /\ UNCHANGED disk
  BY <1>1, <1>2, FailedKeeps, SameDisk
<1>3. CASE /\ pack' = Ended(IF pack.compress THEN "compress" ELSE "report")
           /\ disk' = [disk EXCEPT !.dir = @ \cup {Summary}]
  <2>1. Summary \in PackFiles
    BY DEF PackFiles
  <2>2. /\ pack'.at = IF pack.compress THEN "compress" ELSE "report"
        /\ pack'.evidence = pack.evidence /\ pack'.written = pack.written
        /\ pack'.running = pack.running /\ pack'.compress = pack.compress
        /\ disk'.dir = disk.dir \cup {Summary}
    BY <1>3 DEF Ended, PackInv, PackTypes
  <2>3. PackTypes'
    BY <1>3, <2>1 DEF Ended, PackInv, PackTypes, PackPlaces
  <2>4. disk.dir = OkFiles(pack.evidence, Len(pack.evidence)) /\ pack.running
    BY <1>1 DEF PackInv, PackProgress, PackTypes
  <2>5. disk'.dir = WholePack'
    BY <2>2, <2>4 DEF WholePack
  <2>6. PackProgress'
    BY <2>2, <2>4 DEF PackInv, PackProgress
  <2>7. PackWhole'
    BY <2>2, <2>5 DEF PackWhole, PackPlace, PackInv, PackTypes
  <2>8. QED
    BY <2>3, <2>6, <2>7 DEF PackInv
<1>4. QED
  BY <1>2, <1>3 DEF WriteSummary

LEMMA CompressKeeps == ASSUME PackInv, Compress PROVE PackInv'
<1>1. pack.at = "compress"
  BY DEF Compress
<1>2. CASE PackFails /\ UNCHANGED disk
  BY <1>1, <1>2, FailedKeeps, SameDisk
<1>3. CASE pack' = Ended("remove") /\ disk' = [disk EXCEPT !.archive = disk.dir]
  <2>1. /\ pack'.at = "remove" /\ pack'.evidence = pack.evidence /\ pack'.written = pack.written
        /\ pack'.running = pack.running /\ pack'.compress = pack.compress
        /\ disk'.dir = disk.dir /\ disk'.archive = disk.dir
    BY <1>3 DEF Ended, PackInv, PackTypes
  <2>2. PackTypes'
    BY <1>3 DEF Ended, PackInv, PackTypes, PackPlaces
  <2>3. PackProgress'
    BY <1>1, <2>1 DEF PackInv, PackProgress
  <2>4. PackWhole'
    BY <1>1, <2>1 DEF PackInv, PackWhole, WholePack
  <2>5. QED
    BY <2>2, <2>3, <2>4 DEF PackInv
<1>4. QED
  BY <1>2, <1>3 DEF Compress

LEMMA RemoveKeeps == ASSUME PackInv, RemoveDirectory PROVE PackInv'
<1>1. pack.at = "remove"
  BY DEF RemoveDirectory
<1>2. CASE PackFails /\ \E left \in {disk.dir, disk.dir \ {Summary}} :
                          disk' = [disk EXCEPT !.dir = left]
  <2>1. \A left \in {disk.dir, disk.dir \ {Summary}} : left \in SUBSET PackFiles
    BY DEF PackInv, PackTypes
  <2>2. QED
    BY <1>1, <1>2, <2>1, FailedKeeps
<1>3. CASE pack' = Ended("report") /\ disk' = [disk EXCEPT !.dir = {}]
  <2>1. /\ pack'.at = "report" /\ pack'.evidence = pack.evidence /\ pack'.written = pack.written
        /\ pack'.running = pack.running /\ pack'.compress = pack.compress
        /\ disk'.archive = disk.archive
    BY <1>3 DEF Ended, PackInv, PackTypes
  <2>2. PackTypes'
    BY <1>3 DEF Ended, PackInv, PackTypes, PackPlaces
  <2>3. PackProgress'
    BY <1>1, <2>1 DEF PackInv, PackProgress
  <2>4. PackWhole'
    BY <1>1, <2>1 DEF PackInv, PackWhole, WholePack, PackPlace
  <2>5. QED
    BY <2>2, <2>3, <2>4 DEF PackInv
<1>4. QED
  BY <1>2, <1>3 DEF RemoveDirectory

LEMMA ReportKeeps == ASSUME PackInv, ReportPack PROVE PackInv'
<1>1. /\ pack.at = "report"
      /\ pack' = [pack EXCEPT !.at = "done", !.report = <<FilesOf(TRUE), FilesOf(FALSE)>>]
      /\ UNCHANGED disk
  BY DEF ReportPack
<1>2. FilesOf(TRUE) \in SUBSET PackFiles /\ FilesOf(FALSE) \in SUBSET PackFiles
  BY FilesTypes DEF PackInv
<1>3. PackTypes'
  BY <1>1, <1>2 DEF PackInv, PackTypes, PackPlaces
<1>4. /\ pack'.at = "done" /\ pack'.evidence = pack.evidence /\ pack'.written = pack.written
      /\ pack'.running = pack.running /\ pack'.compress = pack.compress
      /\ pack'.report[1] = FilesOf(TRUE)
  BY <1>1 DEF PackInv, PackTypes
<1>5. FilesOf(TRUE)' = FilesOf(TRUE)
  BY <1>4 DEF FilesOf
<1>6. PackProgress'
  BY <1>1, <1>4 DEF PackInv, PackProgress
<1>7. PackWhole'
  BY <1>1, <1>4, <1>5 DEF PackInv, PackWhole, WholePack, PackPlace
<1>8. QED
  BY <1>3, <1>6, <1>7 DEF PackInv

LEMMA PackNext == ASSUME PackInv, line \in CommandLines, [RaccoonNext]_raccoonVars PROVE PackInv'
<1>1. CASE UNCHANGED packVars
  BY <1>1 DEF packVars, PackInv, PackTypes, PackProgress, PackWhole, WholePack, PackPlace, FilesOf
<1>2. CASE PackCommand
  <2>1. line.compress \in BOOLEAN
    BY CommandLinesAssumption
  <2>2. QED
    BY <1>2, <2>1, StartPackKeeps, CollectKeeps, WriteEvidenceKeeps, WriteSummaryKeeps,
       CompressKeeps, RemoveKeeps, ReportKeeps DEF PackCommand, PackSteps
<1>3. QED
  BY <1>1, <1>2, OwnVariables

LEMMA CommandLineKept == RaccoonSpec => [](line \in CommandLines)
<1>1. RaccoonInit => line \in CommandLines
  BY DEF RaccoonInit
<1>2. line \in CommandLines /\ [RaccoonNext]_raccoonVars => (line \in CommandLines)'
  BY OwnVariables
<1>3. QED
  BY <1>1, <1>2, PTL DEF RaccoonSpec

\* However trace-pack ends, the evidence it wrote is on disk, whole where its
\* report says, for any number of sources and any of them missing.
THEOREM EvidenceSurvives == RaccoonSpec => []EvidenceIsKept
<1>1. RaccoonInit => PackInv
  BY PackStart
<1>2. PackInv /\ line \in CommandLines /\ [RaccoonNext]_raccoonVars => PackInv'
  BY PackNext
<1>3. PackInv => EvidenceIsKept
  <2> SUFFICES ASSUME PackInv
               PROVE  EvidenceIsKept
    OBVIOUS
  <2>1. FilesOf(TRUE) \cup {Summary} = WholePack
    BY FilesOfOk DEF PackInv, WholePack
  <2>2. {pack.evidence[i].file : i \in {j \in 1 .. pack.written : pack.evidence[j].status = "ok"}}
          = OkFiles(pack.evidence, pack.written)
    BY DEF OkFiles
  <2>3. pack.at \in {"compress", "remove", "report", "done"} =>
          WholePack = disk.dir \/ WholePack = disk.archive
    BY DEF PackInv, PackWhole, PackPlace
  <2>4. PackDone => PackPlace = pack.report[1] \cup {Summary}
    BY <2>1 DEF PackInv, PackWhole, PackDone
  <2>5. QED
    BY <2>1, <2>2, <2>3, <2>4 DEF EvidenceIsKept, PackInv, PackWhole
<1>4. QED
  BY <1>1, <1>2, <1>3, CommandLineKept, PTL DEF RaccoonSpec

-----------------------------------------------------------------------------
(* The quality gate *)

StepStatuses == {"pass", "fail", "skip"}

\* The steps by position: six static ones and the smoke test.
LEMMA StepsByPosition ==
  /\ DOMAIN StaticSteps = 1 .. 6
  /\ Len(GateSteps) = 7
  /\ \A i \in 1 .. 6 : GateSteps[i] = StaticSteps[i] /\ GateSteps[i] \in StaticStepNames
  /\ \A s \in StaticStepNames : \E i \in 1 .. 6 : s = GateSteps[i]
  /\ GateSteps[7] = "runtime-smoke"
  /\ "runtime-smoke" \notin StaticStepNames
<1>1. DOMAIN StaticSteps = 1 .. 6
  BY DEF StaticSteps
<1>2. /\ Len(GateSteps) = 7
      /\ \A i \in 1 .. 6 : GateSteps[i] = StaticSteps[i]
      /\ GateSteps[7] = "runtime-smoke"
  BY DEF StaticSteps, GateSteps
<1>3. "runtime-smoke" \notin StaticStepNames
  BY DEF StaticSteps, StaticStepNames
<1>4. QED
  BY <1>1, <1>2, <1>3 DEF StaticStepNames

GateTypes ==
  gate \in [running : BOOLEAN, profile : Profiles, failFast : BOOLEAN, blocked : BOOLEAN,
            steps : Seq(ToSet(gate.steps)), smoking : BOOLEAN]

\* Every step is in its place, and each static one says what it would say by
\* itself, or is skipped behind a step that failed.
StepsInPlace ==
  /\ Len(gate.steps) <= 7
  /\ \A i \in 1 .. Len(gate.steps) :
       /\ gate.steps[i].name = GateSteps[i]
       /\ gate.steps[i].status \in StepStatuses
       /\ i <= 6 => \/ gate.steps[i] = Standalone(GateSteps[i])
                    \/ gate.blocked /\ gate.steps[i].status = "skip"

\* Only fail-fast blocks, and only after a step that failed.
BlockedByFailure ==
  gate.blocked => gate.failFast /\ \E i \in 1 .. Len(gate.steps) : gate.steps[i].status = "fail"

GateInv ==
  /\ GateTypes
  /\ StepsInPlace
  /\ BlockedByFailure
  /\ gate.smoking => Len(gate.steps) = 6

LEMMA OwnElements == ASSUME NEW S, NEW t \in Seq(S) PROVE t \in Seq(ToSet(t))
<1>1. t \in [1 .. Len(t) -> S] /\ Len(t) \in Nat
  OBVIOUS
<1>2. \A i \in 1 .. Len(t) : t[i] \in ToSet(t)
  BY <1>1 DEF ToSet
<1>3. t \in [1 .. Len(t) -> ToSet(t)]
  BY <1>1, <1>2
<1>4. QED
  BY <1>1, <1>3

\* Whatever the elements are, one more is put behind them.
LEMMA Pushes ==
  ASSUME NEW s, s \in Seq(ToSet(s)), NEW x
  PROVE  /\ Append(s, x) \in Seq(ToSet(Append(s, x)))
         /\ Len(Append(s, x)) = Len(s) + 1
         /\ \A i \in 1 .. Len(s) : Append(s, x)[i] = s[i]
         /\ Append(s, x)[Len(s) + 1] = x
<1> DEFINE S == ToSet(s) \cup {x}
<1>1. s \in Seq(S) /\ x \in S
  <2>1. s \in [1 .. Len(s) -> S] /\ Len(s) \in Nat
    OBVIOUS
  <2>2. QED
    BY <2>1
<1>2. /\ Append(s, x) \in Seq(S)
      /\ Len(Append(s, x)) = Len(s) + 1
      /\ \A i \in 1 .. Len(s) : Append(s, x)[i] = s[i]
      /\ Append(s, x)[Len(s) + 1] = x
  BY <1>1, AppendProperties
<1>3. Append(s, x) \in Seq(ToSet(Append(s, x)))
  BY <1>2, OwnElements
<1>4. QED
  BY <1>2, <1>3

\* What a step says of itself.
LEMMA StepSays ==
  ASSUME NEW name, NEW profile, NEW result
  PROVE  /\ StepOf(name, profile, result).name = name
         /\ StepOf(name, profile, result).status \in {"pass", "fail"}
         /\ SkippedStep(name).name = name
         /\ SkippedStep(name).status = "skip"
BY DEF StepOf, SkippedStep

LEMMA PushKeeps ==
  ASSUME GateInv, NEW step, Len(gate.steps) < 7, step.name = NextStep,
         step.status \in StepStatuses,
         Len(gate.steps) < 6 => \/ step = Standalone(NextStep)
                                \/ gate.blocked /\ step.status = "skip",
         gate' = Pushed(step), UNCHANGED tree
  PROVE  GateInv'
<1>1. gate.steps \in Seq(ToSet(gate.steps)) /\ Len(gate.steps) \in Nat
      /\ gate.failFast \in BOOLEAN /\ gate.blocked \in BOOLEAN
  BY DEF GateInv, GateTypes
<1> DEFINE more    == Append(gate.steps, step)
           blocked == gate.blocked \/ (gate.failFast /\ step.status = "fail")
<1>2. /\ more \in Seq(ToSet(more)) /\ Len(more) = Len(gate.steps) + 1
      /\ \A i \in 1 .. Len(gate.steps) : more[i] = gate.steps[i]
      /\ more[Len(gate.steps) + 1] = step
  BY <1>1, Pushes
<1>3. gate' = [gate EXCEPT !.steps = more, !.blocked = blocked, !.smoking = FALSE]
  BY DEF Pushed, GateInv, GateTypes
<1>4. /\ blocked \in BOOLEAN
      /\ gate.blocked => blocked
      /\ blocked => gate.blocked \/ (gate.failFast /\ step.status = "fail")
  <2>1. blocked \in BOOLEAN
    BY <1>1
  <2>2. gate.blocked => blocked
    BY <1>1
  <2>3. blocked => gate.blocked \/ (gate.failFast /\ step.status = "fail")
    BY <1>1
  <2> HIDE DEF blocked
  <2>4. QED
    BY <2>1, <2>2, <2>3
<1> HIDE DEF more, blocked
<1>5. /\ gate'.steps = more /\ gate'.blocked = blocked /\ gate'.smoking = FALSE
      /\ gate'.profile = gate.profile /\ gate'.failFast = gate.failFast
      /\ gate'.running = gate.running
  BY <1>3 DEF GateInv, GateTypes
<1>6. GateTypes'
  <2>1. gate' \in [running : BOOLEAN, profile : Profiles, failFast : BOOLEAN, blocked : BOOLEAN,
                   steps : Seq(ToSet(more)), smoking : BOOLEAN]
    BY <1>2, <1>3, <1>4 DEF GateInv, GateTypes
  <2>2. QED
    BY <1>5, <2>1 DEF GateTypes
<1>7. \A i \in 1 .. Len(more) : i \in 1 .. Len(gate.steps) \/ i = Len(gate.steps) + 1
  BY <1>1, <1>2
<1>8. StepsInPlace'
  <2>1. Len(more) <= 7
    BY <1>1, <1>2
  <2>2. \A s : Standalone(s)' = Standalone(s)
    BY <1>5 DEF Standalone
  <2>3. ASSUME NEW i \in 1 .. Len(gate.steps)
        PROVE  /\ more[i].name = GateSteps[i]
               /\ more[i].status \in StepStatuses
               /\ i <= 6 => \/ more[i] = Standalone(GateSteps[i])
                            \/ blocked /\ more[i].status = "skip"
    BY <1>2, <1>4 DEF GateInv, StepsInPlace
  <2>4. LET i == Len(gate.steps) + 1
        IN  /\ more[i].name = GateSteps[i]
            /\ more[i].status \in StepStatuses
            /\ i <= 6 => \/ more[i] = Standalone(GateSteps[i])
                         \/ blocked /\ more[i].status = "skip"
    BY <1>1, <1>2, <1>4 DEF NextStep
  <2>5. QED
    BY <1>5, <1>7, <2>1, <2>2, <2>3, <2>4 DEF StepsInPlace
<1>9. BlockedByFailure'
  <2>1. Len(gate.steps) + 1 \in 1 .. Len(more) /\ \A i \in 1 .. Len(gate.steps) : i \in 1 .. Len(more)
    BY <1>1, <1>2
  <2>2. CASE gate.blocked
    BY <1>2, <1>5, <2>1, <2>2 DEF GateInv, BlockedByFailure
  <2>3. CASE gate.failFast /\ step.status = "fail"
    BY <1>2, <1>5, <2>1, <2>3 DEF BlockedByFailure
  <2>4. QED
    BY <1>4, <1>5, <2>2, <2>3 DEF BlockedByFailure
<1>10. QED
  BY <1>5, <1>6, <1>8, <1>9 DEF GateInv

LEMMA GateStart == RaccoonInit => GateInv
<1> SUFFICES ASSUME RaccoonInit
             PROVE  GateInv
  OBVIOUS
<1>1. gate = IdleGate
  BY DEF RaccoonInit, GateInit
<1>2. << >> \in Seq(ToSet(<< >>)) /\ Len(<< >>) = 0
  OBVIOUS
<1>3. QED
  BY <1>1, <1>2 DEF GateInv, GateTypes, StepsInPlace, BlockedByFailure, IdleGate, Profiles

LEMMA StartGateKeeps ==
  ASSUME GateInv, NEW profile \in Profiles, NEW failFast \in BOOLEAN, StartGate(profile, failFast)
  PROVE  GateInv'
<1>1. gate' = [running |-> TRUE, profile |-> profile, failFast |-> failFast, blocked |-> FALSE,
               steps |-> << >>, smoking |-> FALSE]
  BY DEF StartGate, IdleGate
<1>2. << >> \in Seq(ToSet(<< >>)) /\ Len(<< >>) = 0
  OBVIOUS
<1>3. QED
  BY <1>1, <1>2 DEF GateInv, GateTypes, StepsInPlace, BlockedByFailure

LEMMA StepCount == ASSUME GateInv PROVE gate.steps \in Seq(ToSet(gate.steps)) /\ Len(gate.steps) \in Nat
<1>1. gate.steps \in Seq(ToSet(gate.steps))
  BY DEF GateInv, GateTypes
<1>2. QED
  BY <1>1

\* Which step is next.
LEMMA NextStepIs ==
  ASSUME GateInv, NEW n \in 0 .. 6, Len(gate.steps) = n
  PROVE  (NextStep = "runtime-smoke") <=> (n = 6)
<1>1. NextStep = GateSteps[n + 1]
  BY DEF NextStep
<1>2. CASE n = 6
  BY <1>1, <1>2, StepsByPosition
<1>3. CASE n \in 0 .. 5
  <2>1. n + 1 \in 1 .. 6
    BY <1>3
  <2>2. GateSteps[n + 1] \in StaticStepNames
    BY <2>1, StepsByPosition
  <2>3. GateSteps[n + 1] # "runtime-smoke"
    BY <2>2, StepsByPosition
  <2>4. QED
    BY <1>1, <1>3, <2>3
<1>4. QED
  BY <1>2, <1>3

LEMMA CountIs == ASSUME GateInv, Len(gate.steps) < 7 PROVE \E n \in 0 .. 6 : Len(gate.steps) = n
<1>1. Len(gate.steps) \in Nat
  BY StepCount
<1>2. \A n \in Nat : n < 7 => n \in 0 .. 6
  OBVIOUS
<1>3. QED
  BY <1>1, <1>2

LEMMA RunStaticKeeps == ASSUME GateInv, RunStatic PROVE GateInv'
<1>1. Len(gate.steps) < 7
  BY StepsByPosition DEF RunStatic, MoreSteps
<1>2. gate' = Pushed(Standalone(NextStep)) /\ UNCHANGED tree
  BY DEF RunStatic, Standalone
<1>3. Standalone(NextStep).name = NextStep /\ Standalone(NextStep).status \in StepStatuses
  BY StepSays DEF Standalone, StepStatuses
<1>4. QED
  BY <1>1, <1>2, <1>3, PushKeeps

LEMMA SkipStepKeeps == ASSUME GateInv, SkipStep PROVE GateInv'
<1>1. Len(gate.steps) < 7
  BY StepsByPosition DEF SkipStep, MoreSteps
<1>2. gate' = Pushed(SkippedStep(NextStep)) /\ UNCHANGED tree
  BY DEF SkipStep
<1>3. /\ SkippedStep(NextStep).name = NextStep
      /\ SkippedStep(NextStep).status = "skip" /\ SkippedStep(NextStep).status \in StepStatuses
  BY StepSays DEF StepStatuses
<1>4. Len(gate.steps) < 6 => gate.blocked
  <2>1. PICK n \in 0 .. 6 : Len(gate.steps) = n
    BY <1>1, CountIs
  <2>2. (NextStep = "runtime-smoke") <=> (n = 6)
    BY <2>1, NextStepIs
  <2>3. gate.blocked \/ NextStep = "runtime-smoke"
    BY DEF SkipStep
  <2>4. QED
    BY <2>1, <2>2, <2>3
<1>5. QED
  BY <1>1, <1>2, <1>3, <1>4, PushKeeps

LEMMA BeginGateSmokeKeeps == ASSUME GateInv, BeginGateSmoke PROVE GateInv'
<1>1. Len(gate.steps) = 6
  <2>1. Len(gate.steps) < 7 /\ NextStep = "runtime-smoke"
    BY StepsByPosition DEF BeginGateSmoke, MoreSteps
  <2>2. QED
    BY <2>1, CountIs, NextStepIs
<1>2. gate' = [gate EXCEPT !.smoking = TRUE] /\ UNCHANGED tree
  BY DEF BeginGateSmoke
<1>3. /\ gate'.steps = gate.steps /\ gate'.blocked = gate.blocked
      /\ gate'.profile = gate.profile /\ gate'.failFast = gate.failFast
  BY <1>2 DEF GateInv, GateTypes
<1>4. gate' \in [running : BOOLEAN, profile : Profiles, failFast : BOOLEAN, blocked : BOOLEAN,
                 steps : Seq(ToSet(gate.steps)), smoking : BOOLEAN]
  BY <1>2 DEF GateInv, GateTypes
<1>5. GateTypes'
  BY <1>3, <1>4 DEF GateTypes
<1>6. StepsInPlace' /\ BlockedByFailure'
  BY <1>2, <1>3 DEF GateInv, StepsInPlace, BlockedByFailure, Standalone
<1>7. QED
  BY <1>1, <1>3, <1>5, <1>6 DEF GateInv

LEMMA EndGateSmokeKeeps ==
  ASSUME GateInv, NEW result, EndGateSmoke(result)
  PROVE  GateInv'
<1>1. Len(gate.steps) = 6 /\ NextStep = "runtime-smoke"
  <2>1. Len(gate.steps) = 6
    BY DEF EndGateSmoke, GateInv
  <2>2. QED
    BY <2>1, NextStepIs
<1> DEFINE step == StepOf("runtime-smoke", gate.profile, result)
<1>2. gate' = Pushed(step) /\ UNCHANGED tree
  BY DEF EndGateSmoke
<1>3. step.name = NextStep /\ step.status \in StepStatuses
  BY <1>1, StepSays DEF StepStatuses
<1> HIDE DEF step
<1>4. QED
  BY <1>1, <1>2, <1>3, PushKeeps

LEMMA GateNext == ASSUME GateInv, line \in CommandLines, [RaccoonNext]_raccoonVars PROVE GateInv'
<1>1. CASE UNCHANGED gateVars
  BY <1>1 DEF gateVars, GateInv, GateTypes, StepsInPlace, BlockedByFailure, Standalone
<1>2. CASE StartGateCommand
  <2>1. line.profile \in Profiles /\ line.failFast \in BOOLEAN
    BY CommandLinesAssumption
  <2>2. QED
    BY <1>2, <2>1, StartGateKeeps DEF StartGateCommand
<1>3. CASE GateStep \/ GateStartsSmoke \/ GateEndsSmoke
  BY <1>3, RunStaticKeeps, SkipStepKeeps, BeginGateSmokeKeeps, EndGateSmokeKeeps
     DEF GateStep, GateStartsSmoke, GateEndsSmoke
<1>4. QED
  BY <1>1, <1>2, <1>3, OwnVariables

\* Whatever the six analyzers find on a tree and the smoke test on a cluster, a
\* gate that passes hides no failure, and one that does not fail fast names all.
THEOREM GreenMeansClean == RaccoonSpec => []GateMeansClean
<1>1. RaccoonInit => GateInv
  BY GateStart
<1>2. GateInv /\ line \in CommandLines /\ [RaccoonNext]_raccoonVars => GateInv'
  BY GateNext
<1>3. GateInv => GateMeansClean
  <2> DEFINE failing == {s \in StaticStepNames : Standalone(s).status = "fail"}
  <2> SUFFICES ASSUME GateInv, GateDone
               PROVE  /\ GatePassed <=> failing = {} /\ gate.steps[7].status # "fail"
                      /\ ~gate.failFast => Verdict.nextSteps \cap StaticStepNames = failing
    BY StepsByPosition DEF GateMeansClean
  <2>1. Len(gate.steps) = 7 /\ DOMAIN gate.steps = 1 .. 7
    BY StepsByPosition DEF GateDone, GateInv, GateTypes
  <2>2. \A i \in 1 .. 6 : \/ gate.steps[i] = Standalone(GateSteps[i])
                          \/ gate.blocked /\ gate.steps[i].status = "skip"
    BY <2>1 DEF GateInv, StepsInPlace
  <2>3. gate.blocked => gate.failFast /\ ~GatePassed
    BY <2>1 DEF GateInv, BlockedByFailure, GatePassed
  <2>4. ASSUME GatePassed
        PROVE  failing = {} /\ gate.steps[7].status # "fail"
    <3>1. \A i \in 1 .. 6 : Standalone(GateSteps[i]).status # "fail"
      BY <2>1, <2>2, <2>3, <2>4 DEF GatePassed
    <3>2. QED
      BY <2>1, <2>4, <3>1, StepsByPosition DEF GatePassed
  <2>5. ASSUME failing = {}, gate.steps[7].status # "fail"
        PROVE  GatePassed
    <3>1. \A i \in 1 .. 6 : Standalone(GateSteps[i]).status # "fail"
      BY <2>5, StepsByPosition
    <3>2. \A i \in 1 .. 6 : gate.steps[i].status # "fail"
      BY <2>2, <3>1
    <3>3. QED
      BY <2>1, <2>5, <3>2 DEF GatePassed
  <2>6. ASSUME ~gate.failFast
        PROVE  Verdict.nextSteps \cap StaticStepNames = failing
    <3>1. \A i \in 1 .. 6 : gate.steps[i] = Standalone(GateSteps[i])
      BY <2>2, <2>3, <2>6
    <3>2. \A i \in 1 .. 7 : gate.steps[i].name = GateSteps[i]
      BY <2>1 DEF GateInv, StepsInPlace
    <3>3. Verdict.nextSteps = {GateSteps[i] : i \in {j \in 1 .. 7 : gate.steps[j].status = "fail"}}
      BY <2>1, <3>2 DEF Verdict, FailedSteps
    <3>4. QED
      BY <3>1, <3>3, StepsByPosition
  <2>7. QED
    BY <2>4, <2>5, <2>6
<1>4. QED
  BY <1>1, <1>2, <1>3, CommandLineKept, PTL DEF RaccoonSpec

-----------------------------------------------------------------------------
(* Reports *)

\* added[i] is the report of the first i checks.
Adds(added, checks) ==
  /\ ReportOf(checks) = added[Len(checks)]
  /\ added[0] = NewReport
  /\ \A i \in Nat \ {0} : added[i] = AddCheck(added[i - 1], checks[i])

\* The report of checks adds one after the other.
LEMMA ReportUnfolds ==
  ASSUME NEW checks
  PROVE  \E added : Adds(added, checks)
<1> DEFINE added[i \in Nat] == IF i = 0 THEN NewReport ELSE AddCheck(added[i - 1], checks[i])
           E == {checks[i] : i \in Nat}
           A == [checks : Seq(E), passed : BOOLEAN]
           F == [i \in Nat |-> [r \in A |-> AddCheck(r, checks[i])]]
           base == NewReport
<1>1. ReportOf(checks) = added[Len(checks)]
  BY DEF ReportOf
<1>2. base \in A
  BY DEF NewReport
<1>3. ASSUME NEW i \in Nat, NEW r \in A
      PROVE  AddCheck(r, checks[i]) \in A
  <2>1. Append(r.checks, checks[i]) \in Seq(E)
    OBVIOUS
  <2>2. (r.passed /\ checks[i].status # "fail") \in BOOLEAN
    OBVIOUS
  <2>3. QED
    BY <2>1, <2>2 DEF AddCheck
<1>4. F \in [Nat -> [A -> A]]
  <2> HIDE DEF A
  <2>1. QED
    BY <1>3
<1>5. PICK f \in [Nat -> A] : Recursive(f, base, F)
  <2> HIDE DEF A, F, base
  <2>1. QED
    BY <1>2, <1>4, RecursionExists
<1>6. f[0] = base /\ \A i \in Nat \ {0} : i - 1 \in Nat /\ f[i - 1] \in A /\ f[i] = F[i][f[i - 1]]
  <2>1. f[0] = base /\ \A i \in Nat \ {0} : f[i] = F[i][f[i - 1]]
    BY <1>5 DEF Recursive
  <2> HIDE DEF F, A
  <2>2. QED
    BY <1>5, <2>1
<1>7. \A i \in Nat : f[i] = IF i = 0 THEN NewReport ELSE AddCheck(f[i - 1], checks[i])
  <2> HIDE DEF A
  <2>1. QED
    BY <1>6
<1>8. f = [i \in Nat |-> IF i = 0 THEN NewReport ELSE AddCheck(f[i - 1], checks[i])]
  <2>1. f = [i \in Nat |-> f[i]]
    BY <1>5
  <2>2. QED
    BY <1>7, <2>1
<1>9. added = [i \in Nat |-> IF i = 0 THEN NewReport ELSE AddCheck(added[i - 1], checks[i])]
  BY <1>8
<1> HIDE DEF added
<1>10. Adds(added, checks)
  BY <1>1, <1>9 DEF Adds
<1>11. QED
  BY <1>10

\* A report holds its checks, and passes when none of them failed.
LEMMA ReportSays ==
  ASSUME NEW S, NEW checks \in Seq(S)
  PROVE  /\ ReportOf(checks).checks = checks
         /\ ReportOf(checks).passed \in BOOLEAN
         /\ ReportOf(checks).passed <=> \A i \in 1 .. Len(checks) : checks[i].status # "fail"
<1>1. PICK added : Adds(added, checks)
  BY ReportUnfolds
<1>2. /\ ReportOf(checks) = added[Len(checks)]
      /\ added[0] = NewReport
      /\ \A i \in Nat \ {0} : added[i] = AddCheck(added[i - 1], checks[i])
  BY <1>1 DEF Adds
<1> DEFINE AsAdded(n) == /\ added[n].checks \in Seq(S)
                         /\ Len(added[n].checks) = n
                         /\ \A i \in 1 .. n : added[n].checks[i] = checks[i]
                         /\ added[n].passed \in BOOLEAN
                         /\ added[n].passed <=> \A i \in 1 .. n : checks[i].status # "fail"
           T == {n \in Nat : n <= Len(checks) => AsAdded(n)}
<1>3. 0 \in T
  <2>1. added[0].checks = << >> /\ added[0].passed = TRUE
    BY <1>2 DEF NewReport
  <2>2. \A i \in 1 .. 0 : FALSE
    OBVIOUS
  <2>3. added[0].passed \in BOOLEAN /\ (added[0].passed <=> \A i \in 1 .. 0 : checks[i].status # "fail")
    BY <2>1, <2>2, Zenon
  <2>4. /\ added[0].checks \in Seq(S)
        /\ Len(added[0].checks) = 0
        /\ \A i \in 1 .. 0 : added[0].checks[i] = checks[i]
    BY <2>1
  <2>5. AsAdded(0)
    BY <2>3, <2>4
  <2>6. QED
    BY <2>5
<1>4. ASSUME NEW n \in Nat, n \in T PROVE n + 1 \in T
  <2> SUFFICES ASSUME n + 1 <= Len(checks)
               PROVE  AsAdded(n + 1)
    OBVIOUS
  <2>1. AsAdded(n) /\ n + 1 \in 1 .. Len(checks) /\ checks[n + 1] \in S
    BY <1>4
  <2>2. added[n + 1] = AddCheck(added[n], checks[n + 1])
    BY <1>2
  <2>3. /\ added[n + 1].checks = Append(added[n].checks, checks[n + 1])
        /\ added[n + 1].passed = (added[n].passed /\ checks[n + 1].status # "fail")
    BY <2>2 DEF AddCheck
  <2>4. /\ added[n + 1].checks \in Seq(S)
        /\ Len(added[n + 1].checks) = n + 1
        /\ \A i \in 1 .. n : added[n + 1].checks[i] = checks[i]
        /\ added[n + 1].checks[n + 1] = checks[n + 1]
    BY <2>1, <2>3, AppendProperties
  <2>5. \A i \in 1 .. n + 1 : added[n + 1].checks[i] = checks[i]
    BY <2>4
  <2>6. /\ added[n + 1].passed \in BOOLEAN
        /\ added[n + 1].passed <=> \A i \in 1 .. n + 1 : checks[i].status # "fail"
    <3>1. \A i \in 1 .. n + 1 : i \in 1 .. n \/ i = n + 1
      OBVIOUS
    <3>2. \A i \in 1 .. n : i \in 1 .. n + 1
      OBVIOUS
    <3>3. n + 1 \in 1 .. n + 1
      OBVIOUS
    <3>4. added[n].passed <=> \A i \in 1 .. n : checks[i].status # "fail"
      BY <2>1
    <3>5. added[n + 1].passed <=> \A i \in 1 .. n + 1 : checks[i].status # "fail"
      BY <2>3, <3>1, <3>2, <3>3, <3>4, Zenon
    <3>6. QED
      BY <2>3, <3>5
  <2>7. QED
    BY <2>4, <2>5, <2>6
<1>5. Nat \subseteq T
  <2> HIDE DEF T
  <2>1. QED
    BY <1>3, <1>4, SetInduction
<1>6. AsAdded(Len(checks))
  <2>1. Len(checks) \in Nat
    OBVIOUS
  <2>2. QED
    BY <1>5, <2>1
<1>7. added[Len(checks)].checks = checks
  BY <1>6
<1>8. QED
  BY <1>2, <1>6, <1>7

-----------------------------------------------------------------------------
(* The stages of the smoke tests *)

\* The tests: the five scenarios, and runtime-smoke itself.
Tests == Scenarios \cup {"runtime-smoke"}

\* The stages after which a test goes on whatever they found.
ResultQueries == {"query-missing-bindings", "query-missing-results"}

StageNames == ResultQueries \cup {"bootstrap", "readiness", "inject", "route", "consume", "validate",
                            "bootstrap-alignment", "create-draft", "validate-draft", "compile",
                            "activate", "verify-active", "wait-for-failures", "verify-violations"}

\* The stages of each test.
LEMMA StagesAre ==
  /\ Stages("runtime-smoke") = SmokeStages
  /\ Stages("happy-path") = Append(SmokeStages, "bootstrap-alignment")
  /\ Stages("config-lifecycle") = <<"bootstrap", "readiness", "create-draft", "validate-draft",
                                    "compile", "activate", "verify-active">>
  /\ Stages("invalid-payload") = <<"bootstrap", "readiness", "inject", "route",
                                   "wait-for-failures", "verify-violations">>
  /\ Stages("missing-binding") = <<"readiness", "query-missing-bindings", "query-missing-results">>
  /\ Stages("readiness-probe") = <<"bootstrap", "readiness">>
BY DEF Stages

\* The facts about the stages of a test that its report depends on.
StagesGiven(stages, t) ==
  /\ stages \in Seq(StageNames)
  /\ Len(stages) \in 2 .. 7
  /\ t # "missing-binding" => \A i \in 1 .. Len(stages) : stages[i] \notin ResultQueries
  /\ t = "missing-binding" => Len(stages) = 3 /\ \A i \in 2 .. 3 : stages[i] \in ResultQueries
                              /\ stages[1] = "readiness"

LEMMA NamesAre ==
  /\ "bootstrap" \in StageNames /\ "readiness" \in StageNames /\ "inject" \in StageNames
  /\ "route" \in StageNames /\ "consume" \in StageNames /\ "validate" \in StageNames
  /\ "bootstrap-alignment" \in StageNames
  /\ "create-draft" \in StageNames /\ "validate-draft" \in StageNames /\ "compile" \in StageNames
  /\ "activate" \in StageNames /\ "verify-active" \in StageNames
  /\ "wait-for-failures" \in StageNames /\ "verify-violations" \in StageNames
  /\ "query-missing-bindings" \in StageNames /\ "query-missing-results" \in StageNames
BY DEF StageNames, ResultQueries

LEMMA StagesOf == ASSUME NEW t \in Tests PROVE StagesGiven(Stages(t), t)
<1> DEFINE stages == Stages(t)
<1>1. CASE t = "missing-binding"
  <2>1. stages = <<"readiness", "query-missing-bindings", "query-missing-results">>
    BY <1>1, StagesAre
  <2> HIDE DEF stages
  <2>2. stages \in Seq(StageNames)
    BY <2>1, NamesAre
  <2>3. Len(stages) = 3 /\ stages[1] = "readiness" /\ \A i \in 2 .. 3 : stages[i] \in ResultQueries
    BY <2>1 DEF ResultQueries
  <2>4. QED
    BY <1>1, <2>2, <2>3 DEF StagesGiven, stages
<1>2. CASE t = "runtime-smoke"
  <2>1. stages = <<"bootstrap", "readiness", "inject", "route", "consume", "validate">>
    BY <1>2, StagesAre DEF SmokeStages
  <2> HIDE DEF stages
  <2>2. stages \in Seq(StageNames)
    BY <2>1, NamesAre
  <2>3. Len(stages) = 6
    BY <2>1
  <2>4. \A i \in 1 .. 6 : stages[i] \notin ResultQueries
    BY <2>1 DEF ResultQueries
  <2>5. QED
    BY <1>2, <2>2, <2>3, <2>4 DEF StagesGiven, stages
<1>3. CASE t = "happy-path"
  <2>1. stages = <<"bootstrap", "readiness", "inject", "route", "consume", "validate", "bootstrap-alignment">>
    BY <1>3, StagesAre DEF SmokeStages
  <2> HIDE DEF stages
  <2>2. stages \in Seq(StageNames)
    BY <2>1, NamesAre
  <2>3. Len(stages) = 7
    BY <2>1
  <2>4. \A i \in 1 .. 7 : stages[i] \notin ResultQueries
    BY <2>1 DEF ResultQueries
  <2>5. QED
    BY <1>3, <2>2, <2>3, <2>4 DEF StagesGiven, stages
<1>4. CASE t = "config-lifecycle"
  <2>1. stages = <<"bootstrap", "readiness", "create-draft", "validate-draft", "compile", "activate", "verify-active">>
    BY <1>4, StagesAre
  <2> HIDE DEF stages
  <2>2. stages \in Seq(StageNames)
    BY <2>1, NamesAre
  <2>3. Len(stages) = 7
    BY <2>1
  <2>4. \A i \in 1 .. 7 : stages[i] \notin ResultQueries
    BY <2>1 DEF ResultQueries
  <2>5. QED
    BY <1>4, <2>2, <2>3, <2>4 DEF StagesGiven, stages
<1>5. CASE t = "invalid-payload"
  <2>1. stages = <<"bootstrap", "readiness", "inject", "route", "wait-for-failures", "verify-violations">>
    BY <1>5, StagesAre
  <2> HIDE DEF stages
  <2>2. stages \in Seq(StageNames)
    BY <2>1, NamesAre
  <2>3. Len(stages) = 6
    BY <2>1
  <2>4. \A i \in 1 .. 6 : stages[i] \notin ResultQueries
    BY <2>1 DEF ResultQueries
  <2>5. QED
    BY <1>5, <2>2, <2>3, <2>4 DEF StagesGiven, stages
<1>6. CASE t = "readiness-probe"
  <2>1. stages = <<"bootstrap", "readiness">>
    BY <1>6, StagesAre
  <2> HIDE DEF stages
  <2>2. stages \in Seq(StageNames)
    BY <2>1, NamesAre
  <2>3. Len(stages) = 2
    BY <2>1
  <2>4. \A i \in 1 .. 2 : stages[i] \notin ResultQueries
    BY <2>1 DEF ResultQueries
  <2>5. QED
    BY <1>6, <2>2, <2>3, <2>4 DEF StagesGiven, stages
<1>7. QED
  BY <1>1, <1>2, <1>3, <1>4, <1>5, <1>6 DEF Tests, Scenarios

\* The hand-written skips of config-lifecycle are the stages that are left.
LEMMA LifecycleSkipsAre ==
  ASSUME NEW n \in 1 .. 7
  PROVE  LET stages == Stages("config-lifecycle")
             skips  == LifecycleSkips(stages[n])
         IN  /\ skips \in Seq(StageNames)
             /\ Len(skips) = 7 - n
             /\ \A i \in 1 .. 7 - n : skips[i] = stages[n + i]
<1> DEFINE stages == Stages("config-lifecycle")
           skips  == LifecycleSkips(stages[n])
<1>0. stages = <<"bootstrap", "readiness", "create-draft", "validate-draft", "compile", "activate", "verify-active">>
  BY StagesAre
<1>1. CASE n = 1
  <2>1. stages[n] = "bootstrap"
    BY <1>0, <1>1
  <2>2. skips = <<"readiness", "create-draft", "validate-draft", "compile", "activate", "verify-active">>
    BY <2>1 DEF LifecycleSkips
  <2> HIDE DEF skips, stages
  <2>3. skips \in Seq(StageNames) /\ Len(skips) = 6
    BY <2>2, NamesAre
  <2>4. /\ skips[1] = stages[2]
        /\ skips[2] = stages[3]
        /\ skips[3] = stages[4]
        /\ skips[4] = stages[5]
        /\ skips[5] = stages[6]
        /\ skips[6] = stages[7]
    BY <1>0, <2>2
  <2>5. \A i \in 1 .. 6 : i = 1 \/ i = 2 \/ i = 3 \/ i = 4 \/ i = 5 \/ i = 6
    OBVIOUS
  <2>6. \A i \in 1 .. 6 : skips[i] = stages[1 + i]
    BY <2>4, <2>5
  <2>7. QED
    BY <1>1, <2>3, <2>6 DEF skips, stages
<1>2. CASE n = 2
  <2>1. stages[n] = "readiness"
    BY <1>0, <1>2
  <2>2. skips = <<"create-draft", "validate-draft", "compile", "activate", "verify-active">>
    BY <2>1 DEF LifecycleSkips
  <2> HIDE DEF skips, stages
  <2>3. skips \in Seq(StageNames) /\ Len(skips) = 5
    BY <2>2, NamesAre
  <2>4. /\ skips[1] = stages[3]
        /\ skips[2] = stages[4]
        /\ skips[3] = stages[5]
        /\ skips[4] = stages[6]
        /\ skips[5] = stages[7]
    BY <1>0, <2>2
  <2>5. \A i \in 1 .. 5 : i = 1 \/ i = 2 \/ i = 3 \/ i = 4 \/ i = 5
    OBVIOUS
  <2>6. \A i \in 1 .. 5 : skips[i] = stages[2 + i]
    BY <2>4, <2>5
  <2>7. QED
    BY <1>2, <2>3, <2>6 DEF skips, stages
<1>3. CASE n = 3
  <2>1. stages[n] = "create-draft"
    BY <1>0, <1>3
  <2>2. skips = <<"validate-draft", "compile", "activate", "verify-active">>
    BY <2>1 DEF LifecycleSkips
  <2> HIDE DEF skips, stages
  <2>3. skips \in Seq(StageNames) /\ Len(skips) = 4
    BY <2>2, NamesAre
  <2>4. /\ skips[1] = stages[4]
        /\ skips[2] = stages[5]
        /\ skips[3] = stages[6]
        /\ skips[4] = stages[7]
    BY <1>0, <2>2
  <2>5. \A i \in 1 .. 4 : i = 1 \/ i = 2 \/ i = 3 \/ i = 4
    OBVIOUS
  <2>6. \A i \in 1 .. 4 : skips[i] = stages[3 + i]
    BY <2>4, <2>5
  <2>7. QED
    BY <1>3, <2>3, <2>6 DEF skips, stages
<1>4. CASE n = 4
  <2>1. stages[n] = "validate-draft"
    BY <1>0, <1>4
  <2>2. skips = <<"compile", "activate", "verify-active">>
    BY <2>1 DEF LifecycleSkips
  <2> HIDE DEF skips, stages
  <2>3. skips \in Seq(StageNames) /\ Len(skips) = 3
    BY <2>2, NamesAre
  <2>4. /\ skips[1] = stages[5]
        /\ skips[2] = stages[6]
        /\ skips[3] = stages[7]
    BY <1>0, <2>2
  <2>5. \A i \in 1 .. 3 : i = 1 \/ i = 2 \/ i = 3
    OBVIOUS
  <2>6. \A i \in 1 .. 3 : skips[i] = stages[4 + i]
    BY <2>4, <2>5
  <2>7. QED
    BY <1>4, <2>3, <2>6 DEF skips, stages
<1>5. CASE n = 5
  <2>1. stages[n] = "compile"
    BY <1>0, <1>5
  <2>2. skips = <<"activate", "verify-active">>
    BY <2>1 DEF LifecycleSkips
  <2> HIDE DEF skips, stages
  <2>3. skips \in Seq(StageNames) /\ Len(skips) = 2
    BY <2>2, NamesAre
  <2>4. /\ skips[1] = stages[6]
        /\ skips[2] = stages[7]
    BY <1>0, <2>2
  <2>5. \A i \in 1 .. 2 : i = 1 \/ i = 2
    OBVIOUS
  <2>6. \A i \in 1 .. 2 : skips[i] = stages[5 + i]
    BY <2>4, <2>5
  <2>7. QED
    BY <1>5, <2>3, <2>6 DEF skips, stages
<1>6. CASE n = 6
  <2>1. stages[n] = "activate"
    BY <1>0, <1>6
  <2>2. skips = <<"verify-active">>
    BY <2>1 DEF LifecycleSkips
  <2> HIDE DEF skips, stages
  <2>3. skips \in Seq(StageNames) /\ Len(skips) = 1
    BY <2>2, NamesAre
  <2>4. /\ skips[1] = stages[7]
    BY <1>0, <2>2
  <2>5. \A i \in 1 .. 1 : i = 1
    OBVIOUS
  <2>6. \A i \in 1 .. 1 : skips[i] = stages[6 + i]
    BY <2>4, <2>5
  <2>7. QED
    BY <1>6, <2>3, <2>6 DEF skips, stages
<1>7. CASE n = 7
  <2>1. stages[n] = "verify-active"
    BY <1>0, <1>7
  <2>2. skips = << >>
    BY <2>1 DEF LifecycleSkips
  <2> HIDE DEF skips, stages
  <2>3. skips \in Seq(StageNames) /\ Len(skips) = 0
    BY <2>2, NamesAre
  <2>4. QED
    BY <1>7, <2>3 DEF skips, stages
<1>8. n = 1 \/ n = 2 \/ n = 3 \/ n = 4 \/ n = 5 \/ n = 6 \/ n = 7
  OBVIOUS
<1>9. QED
  BY <1>1, <1>2, <1>3, <1>4, <1>5, <1>6, <1>7, <1>8

-----------------------------------------------------------------------------
(* A smoke test *)

\* The checks a smoke test makes: one that failed holds an error, no other does.
SmokeChecks ==
  {c \in [name : StageNames, status : CheckStatuses, errors : Nat, warnings : Nat] :
     (c.status = "fail") <=> (c.errors # 0)}

SmokeTypes ==
  smoke \in [running : BOOLEAN, test : Tests, pos : Nat, draft : {smoke.draft},
             polls : {smoke.polls}, checks : Seq(SmokeChecks), seen : {smoke.seen}]

\* The stages before the position have their checks; until the last one none of
\* them failed, and none of them was skipped.
SmokeProgress ==
  LET stages == Stages(smoke.test)
      checks == smoke.checks
  IN  /\ Len(checks) = smoke.pos - 1
      /\ smoke.pos <= Len(stages) + 1
      /\ \A i \in 1 .. Len(checks) : checks[i].name = stages[i]
      /\ smoke.test # "missing-binding" =>
           /\ smoke.pos <= Len(stages) => \A i \in 1 .. Len(checks) : checks[i].status = "pass"
           /\ \A i, j \in 1 .. Len(checks) :
                checks[i].status = "fail" => (j > i <=> checks[j].status = "skip")

SmokeInv == SmokeTypes /\ SmokeProgress

LEMMA SmokeStart == RaccoonInit => SmokeInv
<1> SUFFICES ASSUME RaccoonInit
             PROVE  SmokeInv
  OBVIOUS
<1>1. smoke = [running |-> FALSE, test |-> "runtime-smoke", pos |-> 1, draft |-> None,
               polls |-> 0, checks |-> << >>, seen |-> None]
  BY DEF RaccoonInit, SmokeInit, IdleSmoke
<1>2. "runtime-smoke" \in Tests /\ << >> \in Seq(SmokeChecks) /\ Len(<< >>) = 0
  BY DEF Tests
<1>3. Len(Stages("runtime-smoke")) \in 2 .. 7
  BY <1>2, StagesOf DEF StagesGiven
<1>4. QED
  BY <1>1, <1>2, <1>3 DEF SmokeInv, SmokeTypes, SmokeProgress

LEMMA StartSmokeKeeps ==
  ASSUME SmokeInv, NEW test \in Tests, StartSmoke(test)
  PROVE  SmokeInv'
<1>1. smoke' = [running |-> TRUE, test |-> test, pos |-> 1, draft |-> None,
                polls |-> PollLimit, checks |-> << >>, seen |-> None]
  BY DEF StartSmoke, IdleSmoke
<1>2. << >> \in Seq(SmokeChecks) /\ Len(<< >>) = 0
  OBVIOUS
<1>3. Len(Stages(test)) \in 2 .. 7
  BY StagesOf DEF StagesGiven
<1>4. QED
  BY <1>1, <1>2, <1>3 DEF SmokeInv, SmokeTypes, SmokeProgress

\* Polling, reading a log and sending the next request leave the checks alone.
LEMMA WaitingKeeps ==
  ASSUME SmokeInv, NEW draft, NEW polls, NEW seen,
         smoke' = [smoke EXCEPT !.draft = draft, !.polls = polls, !.seen = seen]
  PROVE  SmokeInv'
<1>1. /\ smoke'.running = smoke.running /\ smoke'.test = smoke.test /\ smoke'.pos = smoke.pos
      /\ smoke'.checks = smoke.checks
      /\ smoke'.draft = draft /\ smoke'.polls = polls /\ smoke'.seen = seen
  BY DEF SmokeInv, SmokeTypes
<1>2. smoke' \in [running : BOOLEAN, test : Tests, pos : Nat, draft : {draft},
                  polls : {polls}, checks : Seq(SmokeChecks), seen : {seen}]
  BY DEF SmokeInv, SmokeTypes
<1>3. QED
  BY <1>1, <1>2 DEF SmokeInv, SmokeTypes, SmokeProgress

\* What is skipped after a stage that did not pass: every stage that is left.
LEMMA SkipsAre ==
  ASSUME SmokeInv, Running, smoke.test = "missing-binding" => Stage \notin ResultQueries
  PROVE  LET n == Len(Stages(smoke.test)) - smoke.pos
         IN  /\ Skips \in Seq(StageNames)
             /\ Len(Skips) = n
             /\ \A i \in 1 .. n : Skips[i] = Stages(smoke.test)[smoke.pos + i]
<1> DEFINE stages == Stages(smoke.test)
           n      == Len(stages) - smoke.pos
<1>1. smoke.test \in Tests /\ smoke.pos \in 1 .. Len(stages) /\ Len(stages) \in 2 .. 7
  <2>1. smoke.test \in Tests /\ smoke.pos \in Nat /\ Len(smoke.checks) \in Nat
        /\ smoke.pos <= Len(stages) /\ Len(smoke.checks) = smoke.pos - 1
    BY DEF SmokeInv, SmokeTypes, SmokeProgress, Running
  <2>2. Len(stages) \in 2 .. 7
    BY <2>1, StagesOf DEF StagesGiven
  <2>3. QED
    BY <2>1, <2>2
<1>2. StagesGiven(stages, smoke.test)
  BY <1>1, StagesOf
<1>3. CASE smoke.test = "config-lifecycle"
  <2>1. Skips = LifecycleSkips(Stages("config-lifecycle")[smoke.pos])
    BY <1>3 DEF Skips, Stage
  <2>2. Len(stages) = 7
    BY <1>3, StagesAre
  <2>3. smoke.pos \in 1 .. 7
    BY <1>1, <2>2
  <2>4. QED
    BY <1>3, <2>1, <2>2, <2>3, LifecycleSkipsAre
<1>4. CASE smoke.test = "missing-binding"
  <2>1. Len(stages) = 3 /\ stages[1] = "readiness" /\ \A i \in 2 .. 3 : stages[i] \in ResultQueries
    BY <1>2, <1>4 DEF StagesGiven
  <2>2. smoke.pos = 1
    <3>1. smoke.pos \in 1 .. 3 /\ stages[smoke.pos] \notin ResultQueries
      BY <1>1, <1>4, <2>1 DEF Stage
    <3>2. QED
      BY <2>1, <3>1
  <2>3. Skips = <<"query-missing-bindings", "query-missing-results">>
    BY <1>4, <2>1, <2>2 DEF Skips, Stage, MissingBindingSkips
  <2>4. stages = <<"readiness", "query-missing-bindings", "query-missing-results">>
    BY <1>4, StagesAre
  <2> DEFINE skips == Skips
  <2>5. skips = <<"query-missing-bindings", "query-missing-results">>
    BY <2>3
  <2> HIDE DEF skips
  <2>6. skips \in Seq(StageNames)
    BY <2>5, NamesAre
  <2>7. Len(skips) = 2 /\ skips[1] = stages[2] /\ skips[2] = stages[3]
    BY <2>4, <2>5
  <2>8. \A i \in 1 .. 2 : skips[i] = stages[1 + i]
    <3>1. \A i \in 1 .. 2 : i = 1 \/ i = 2
      OBVIOUS
    <3>2. QED
      BY <2>7, <3>1
  <2>9. QED
    BY <2>1, <2>2, <2>6, <2>7, <2>8 DEF skips
<1>5. CASE smoke.test # "config-lifecycle" /\ smoke.test # "missing-binding"
  <2>1. Skips = SubSeq(stages, smoke.pos + 1, Len(stages))
    BY <1>5 DEF Skips, SkipsAfter
  <2>2. stages \in Seq(StageNames)
    BY <1>2 DEF StagesGiven
  <2> HIDE DEF stages
  <2>3. smoke.pos + 1 \in 1 .. Len(stages) + 1 /\ Len(stages) \in Nat
    BY <1>1
  <2>4. \A i \in smoke.pos + 1 .. Len(stages) : stages[i] \in StageNames
    BY <1>1, <2>2
  <2>5. /\ SubSeq(stages, smoke.pos + 1, Len(stages)) \in Seq(StageNames)
        /\ Len(SubSeq(stages, smoke.pos + 1, Len(stages))) = n
        /\ \A i \in 1 .. n : SubSeq(stages, smoke.pos + 1, Len(stages))[i] = stages[smoke.pos + i]
    <3>1. CASE smoke.pos + 1 <= Len(stages)
      <4> DEFINE from == smoke.pos + 1
                 till == Len(stages)
      <4>1. /\ from \in Int /\ till \in Int /\ from <= till /\ till - from + 1 = n
            /\ \A i \in 1 .. n : from + i - 1 = smoke.pos + i
        BY <1>1, <2>3, <3>1
      <4>2. \A i \in from .. till : stages[i] \in StageNames
        BY <2>4
      <4> HIDE DEF from, till
      <4>3. /\ SubSeq(stages, from, till) \in Seq(StageNames)
            /\ Len(SubSeq(stages, from, till)) = (IF from <= till THEN till - from + 1 ELSE 0)
            /\ \A i \in 1 .. till - from + 1 : SubSeq(stages, from, till)[i] = stages[from + i - 1]
        BY <4>1, <4>2, SubSeqProperties
      <4>4. QED
        BY <4>1, <4>3 DEF from, till
    <3>2. CASE smoke.pos = Len(stages)
      <4>1. SubSeq(stages, smoke.pos + 1, Len(stages)) = << >>
        BY <1>1, <2>2, <3>2, SubSeqProperties
      <4>2. QED
        BY <3>2, <4>1, <1>1
    <3>3. QED
      BY <1>1, <3>1, <3>2
  <2>6. QED
    BY <2>1, <2>5 DEF stages
<1>6. QED
  BY <1>3, <1>4, <1>5

\* What a stage that ended leaves: its check behind those before it, and skips.
StageEnded(check, draft) ==
  /\ smoke'.seen = None /\ smoke'.draft = draft /\ smoke'.test = smoke.test
  /\ smoke'.pos = IF check.status = "pass" \/ Stage \in ResultQueries
                  THEN smoke.pos + 1 ELSE Len(Stages(smoke.test)) + 1
  /\ \A i \in 1 .. Len(smoke'.checks) :
       \/ smoke'.checks[i].status = "skip"
       \/ i = smoke.pos /\ smoke'.checks[i] = check
       \/ i \in 1 .. smoke.pos - 1 /\ smoke'.checks[i] = smoke.checks[i]


\* A stage has ended: its check is put behind the others, and behind it the skips
\* when the test does not go on.
LEMMA EndStageKeeps ==
  ASSUME SmokeInv, Running, NEW check \in SmokeChecks, check.name = Stage,
         check.status \in {"pass", "fail"}, NEW draft, EndStage(check, draft)
  PROVE  SmokeInv' /\ StageEnded(check, draft)
<1> DEFINE stages  == Stages(smoke.test)
           goOn    == check.status = "pass" \/ Stage \in ResultQueries
           skipped == IF goOn THEN << >> ELSE Skips
           skips   == [i \in DOMAIN skipped |-> SkipCheck(skipped[i])]
           longer  == Append(smoke.checks, check)
           checks  == longer \o skips
           pos     == IF goOn THEN smoke.pos + 1 ELSE Len(stages) + 1
           n       == IF goOn THEN 0 ELSE Len(stages) - smoke.pos
<1>1. /\ smoke.test \in Tests /\ smoke.pos \in 1 .. Len(stages) /\ Len(stages) \in 2 .. 7
      /\ smoke.checks \in Seq(SmokeChecks) /\ Len(smoke.checks) = smoke.pos - 1
  <2>1. smoke.test \in Tests /\ smoke.pos \in Nat /\ Len(smoke.checks) \in Nat
        /\ smoke.pos <= Len(stages) /\ Len(smoke.checks) = smoke.pos - 1
        /\ smoke.checks \in Seq(SmokeChecks)
    BY DEF SmokeInv, SmokeTypes, SmokeProgress, Running
  <2>2. Len(stages) \in 2 .. 7
    BY <2>1, StagesOf DEF StagesGiven
  <2>3. QED
    BY <2>1, <2>2
<1>2. StagesGiven(stages, smoke.test)
  BY <1>1, StagesOf
<1>3. /\ skipped \in Seq(StageNames)
      /\ Len(skipped) = n
      /\ \A i \in 1 .. n : skipped[i] = stages[smoke.pos + i]
  <2>1. CASE goOn
    BY <2>1
  <2>2. CASE ~goOn
    <3>1. Stage \notin ResultQueries
      BY <2>2
    <3>2. QED
      BY <2>2, <3>1, SkipsAre
  <2>3. QED
    BY <2>1, <2>2
<1>4. n \in Nat
  BY <1>1
<1>5. smoke' = [smoke EXCEPT !.checks = checks, !.pos = pos, !.draft = draft,
                             !.polls = PollLimit, !.seen = None]
  BY DEF EndStage, ResultQueries, SmokeInv, SmokeTypes
<1>6. /\ smoke'.running = smoke.running /\ smoke'.test = smoke.test /\ smoke'.pos = pos
      /\ smoke'.checks = checks
      /\ smoke'.draft = draft /\ smoke'.polls = PollLimit /\ smoke'.seen = None
  <2> HIDE DEF checks, pos
  <2>1. QED
    BY <1>5 DEF SmokeInv, SmokeTypes
<1>7. /\ skips \in Seq(SmokeChecks)
      /\ Len(skips) = n
      /\ \A i \in 1 .. n : skips[i].name = stages[smoke.pos + i] /\ skips[i].status = "skip"
  <2> HIDE DEF skipped, n
  <2>1. DOMAIN skipped = 1 .. n
    BY <1>3, <1>4
  <2>2. ASSUME NEW i \in 1 .. n
        PROVE  /\ SkipCheck(skipped[i]) \in SmokeChecks
               /\ SkipCheck(skipped[i]).name = skipped[i] /\ SkipCheck(skipped[i]).status = "skip"
    <3>1. skipped[i] \in StageNames
      BY <1>3
    <3>2. QED
      BY <3>1 DEF SkipCheck, SmokeChecks, CheckStatuses
  <2>3. skips = [i \in 1 .. n |-> SkipCheck(skipped[i])]
    BY <2>1
  <2>4. skips \in [1 .. n -> SmokeChecks]
    BY <2>2, <2>3
  <2>5. QED
    BY <1>3, <1>4, <2>2, <2>3, <2>4
<1> HIDE DEF skips, skipped
<1>8. /\ longer \in Seq(SmokeChecks)
      /\ Len(longer) = smoke.pos
      /\ \A i \in 1 .. smoke.pos - 1 : longer[i] = smoke.checks[i]
      /\ longer[smoke.pos] = check
  <2>1. /\ Append(smoke.checks, check) \in Seq(SmokeChecks)
        /\ Len(Append(smoke.checks, check)) = Len(smoke.checks) + 1
        /\ \A i \in 1 .. Len(smoke.checks) : Append(smoke.checks, check)[i] = smoke.checks[i]
        /\ Append(smoke.checks, check)[Len(smoke.checks) + 1] = check
    BY <1>1, AppendProperties
  <2>2. Len(smoke.checks) = smoke.pos - 1 /\ Len(smoke.checks) + 1 = smoke.pos
    BY <1>1
  <2>3. QED
    BY <2>1, <2>2
<1> HIDE DEF longer
<1>9. /\ checks \in Seq(SmokeChecks)
      /\ Len(checks) = smoke.pos + n
      /\ \A i \in 1 .. smoke.pos + n : checks[i] = IF i <= smoke.pos THEN longer[i]
                                                   ELSE skips[i - smoke.pos]
  <2>1. longer \in Seq(SmokeChecks) /\ skips \in Seq(SmokeChecks)
    BY <1>7, <1>8
  <2>2. /\ longer \o skips \in Seq(SmokeChecks)
        /\ Len(longer \o skips) = Len(longer) + Len(skips)
        /\ \A i \in 1 .. Len(longer) + Len(skips) :
             (longer \o skips)[i] = IF i <= Len(longer) THEN longer[i]
                                    ELSE skips[i - Len(longer)]
    BY <2>1, ConcatProperties
  <2>3. Len(longer) = smoke.pos /\ Len(skips) = n
    BY <1>7, <1>8
  <2>4. QED
    BY <2>2, <2>3
<1> HIDE DEF checks
<1>10. /\ \A i \in 1 .. smoke.pos - 1 : checks[i] = smoke.checks[i]
       /\ checks[smoke.pos] = check
       /\ \A i \in smoke.pos + 1 .. smoke.pos + n :
            checks[i].name = stages[i] /\ checks[i].status = "skip"
  <2>1. \A i \in 1 .. smoke.pos - 1 : i \in 1 .. smoke.pos + n /\ i <= smoke.pos
    BY <1>1, <1>4
  <2>2. smoke.pos \in 1 .. smoke.pos + n
    BY <1>1, <1>4
  <2>3. ASSUME NEW i \in smoke.pos + 1 .. smoke.pos + n
        PROVE  checks[i].name = stages[i] /\ checks[i].status = "skip"
    <3>1. i - smoke.pos \in 1 .. n /\ i \in 1 .. smoke.pos + n /\ ~(i <= smoke.pos)
          /\ smoke.pos + (i - smoke.pos) = i
      BY <1>1, <1>4
    <3>2. QED
      BY <1>7, <1>9, <3>1
  <2>4. \A i \in 1 .. smoke.pos - 1 : checks[i] = smoke.checks[i]
    BY <1>8, <1>9, <2>1
  <2>5. checks[smoke.pos] = longer[smoke.pos]
    BY <1>1, <1>9, <2>2
  <2>6. QED
    BY <1>8, <2>3, <2>4, <2>5
<1>11. /\ \A i \in 1 .. smoke.pos - 1 : smoke.checks[i].name = stages[i]
       /\ smoke.test # "missing-binding" =>
            \A i \in 1 .. smoke.pos - 1 : smoke.checks[i].status = "pass"
  BY <1>1 DEF SmokeInv, SmokeProgress
<1>12. check.name = stages[smoke.pos]
  BY DEF Stage
<1>13. pos \in Nat /\ pos - 1 = smoke.pos + n /\ pos <= Len(stages) + 1
  BY <1>1
<1>14. \A i \in 1 .. smoke.pos + n :
         \/ i \in 1 .. smoke.pos - 1
         \/ i = smoke.pos
         \/ i \in smoke.pos + 1 .. smoke.pos + n
  BY <1>1, <1>4
<1>15. \A i \in 1 .. smoke.pos + n : checks[i].name = stages[i]
  BY <1>10, <1>11, <1>12, <1>14
<1>16. ASSUME smoke.test # "missing-binding"
       PROVE  /\ pos <= Len(stages) => \A i \in 1 .. smoke.pos + n : checks[i].status = "pass"
              /\ \A i, j \in 1 .. smoke.pos + n :
                   checks[i].status = "fail" => (j > i <=> checks[j].status = "skip")
  <2>1. \A i \in 1 .. smoke.pos - 1 : checks[i].status = "pass"
    BY <1>10, <1>11, <1>16
  <2>2. Stage \notin ResultQueries
    BY <1>1, <1>2, <1>16 DEF StagesGiven, Stage
  <2>3. CASE goOn
    <3>1. n = 0 /\ check.status = "pass"
      BY <2>2, <2>3
    <3>2. \A i \in 1 .. smoke.pos + n : i \in 1 .. smoke.pos - 1 \/ i = smoke.pos
      BY <1>1, <3>1
    <3>3. \A i \in 1 .. smoke.pos + n : checks[i].status = "pass"
      BY <1>10, <2>1, <3>1, <3>2
    <3>4. QED
      BY <3>3
  <2>4. CASE ~goOn
    <3>1. check.status = "fail" /\ ~(pos <= Len(stages))
      BY <1>1, <2>4
    <3>2. ASSUME NEW i \in 1 .. smoke.pos + n, NEW j \in 1 .. smoke.pos + n,
                 checks[i].status = "fail"
          PROVE  j > i <=> checks[j].status = "skip"
      <4>1. i = smoke.pos
        BY <1>10, <1>14, <2>1, <3>2
      <4>2. CASE j \in 1 .. smoke.pos - 1
        BY <1>1, <2>1, <4>1, <4>2
      <4>3. CASE j = smoke.pos
        BY <1>1, <1>10, <3>1, <4>1, <4>3
      <4>4. CASE j \in smoke.pos + 1 .. smoke.pos + n
        BY <1>1, <1>10, <4>1, <4>4
      <4>5. QED
        BY <1>14, <4>2, <4>3, <4>4
    <3>3. QED
      BY <3>1, <3>2
  <2>5. QED
    BY <2>3, <2>4
<1> HIDE DEF pos
<1>17. SmokeTypes'
  <2>1. smoke' \in [running : BOOLEAN, test : Tests, pos : Nat, draft : {draft},
                    polls : {PollLimit}, checks : Seq(SmokeChecks), seen : {None}]
    BY <1>5, <1>9, <1>13 DEF SmokeInv, SmokeTypes
  <2>2. QED
    BY <1>6, <2>1 DEF SmokeTypes
<1>18. SmokeProgress'
  <2>1. Len(checks) = pos - 1
    BY <1>9, <1>13
  <2>2. QED
    BY <1>6, <1>9, <1>13, <1>15, <1>16, <2>1 DEF SmokeProgress
<1>19. StageEnded(check, draft)
  <2>1. \A i \in 1 .. Len(checks) :
           \/ checks[i].status = "skip"
           \/ i = smoke.pos /\ checks[i] = check
           \/ i \in 1 .. smoke.pos - 1 /\ checks[i] = smoke.checks[i]
    BY <1>9, <1>10, <1>14
  <2>2. QED
    BY <1>6, <2>1 DEF StageEnded, pos
<1>20. QED
  BY <1>17, <1>18, <1>19 DEF SmokeInv

\* The stage a test is at.
LEMMA StageIs ==
  ASSUME SmokeInv, Running
  PROVE  Stage \in StageNames
<1>1. smoke.test \in Tests /\ smoke.pos \in Nat /\ smoke.pos <= Len(Stages(smoke.test))
      /\ Len(smoke.checks) \in Nat /\ Len(smoke.checks) = smoke.pos - 1
  BY DEF SmokeInv, SmokeTypes, SmokeProgress, Running
<1>2. Stages(smoke.test) \in Seq(StageNames)
  BY <1>1, StagesOf DEF StagesGiven
<1>3. QED
  BY <1>1, <1>2 DEF Stage

\* The checks a stage ends with.
LEMMA ChecksAre ==
  ASSUME NEW name \in StageNames, NEW errors \in Nat, NEW warnings \in Nat
  PROVE  /\ PassCheck(name, warnings) \in SmokeChecks
         /\ PassCheck(name, warnings).name = name
         /\ PassCheck(name, warnings).status = "pass"
         /\ FromFindings(name, errors, warnings) \in SmokeChecks
         /\ FromFindings(name, errors, warnings).name = name
         /\ FromFindings(name, errors, warnings).status \in {"pass", "fail"}
BY DEF PassCheck, FromFindings, SmokeChecks, CheckStatuses

LEMMA PassKeeps ==
  ASSUME SmokeInv, Running, NEW warnings \in Nat, Pass(warnings)
  PROVE  SmokeInv'
BY StageIs, ChecksAre, EndStageKeeps DEF Pass

LEMMA FindingsKeep ==
  ASSUME SmokeInv, Running, NEW errors \in Nat, NEW warnings \in Nat, NEW draft,
         EndStage(FromFindings(Stage, errors, warnings), draft)
  PROVE  SmokeInv'
BY StageIs, ChecksAre, EndStageKeeps

LEMMA FailKeeps ==
  ASSUME SmokeInv, Running, NEW warnings \in Nat, Fail(warnings)
  PROVE  SmokeInv'
BY FindingsKeep DEF Fail

LEMMA PollKeeps ==
  ASSUME SmokeInv, Running, NEW warnings \in Nat, Poll(warnings)
  PROVE  SmokeInv'
<1>1. CASE smoke.polls > 1
  <2>1. smoke' = [smoke EXCEPT !.draft = smoke.draft, !.polls = smoke.polls - 1, !.seen = None]
    BY <1>1 DEF Poll, SmokeInv, SmokeTypes
  <2>2. QED
    BY <2>1, WaitingKeeps
<1>2. CASE ~(smoke.polls > 1)
  BY <1>2, FailKeeps DEF Poll
<1>3. QED
  BY <1>1, <1>2

LEMMA StageRunsKeep == ASSUME SmokeInv, StageRuns PROVE SmokeInv'
<1>1. CASE Bootstrap
  BY <1>1, PassKeeps, FailKeeps DEF Bootstrap, At
<1>2. CASE Readiness
  BY <1>2, PassKeeps, PollKeeps DEF Readiness, At
<1>3. CASE RequestAnswered
  <2>1. PICK valid \in BOOLEAN :
          IF Stage = "validate-draft" /\ ~valid THEN Fail(0)
          ELSE IF Stage = "inject" /\ NextRequest # "activate"
          THEN smoke' = [smoke EXCEPT !.draft = NextRequest]
          ELSE EndStage(PassCheck(Stage, 0), NextRequest)
    BY <1>3 DEF RequestAnswered
  <2>2. Running
    BY <1>3 DEF RequestAnswered
  <2>3. CASE Fail(0)
    BY <2>2, <2>3, FailKeeps
  <2>4. CASE smoke' = [smoke EXCEPT !.draft = NextRequest]
    <3>1. smoke' = [smoke EXCEPT !.draft = NextRequest, !.polls = smoke.polls, !.seen = smoke.seen]
      BY <2>4 DEF SmokeInv, SmokeTypes
    <3>2. QED
      BY <3>1, WaitingKeeps
  <2>5. CASE EndStage(PassCheck(Stage, 0), NextRequest)
    BY <2>2, <2>5, StageIs, ChecksAre, EndStageKeeps
  <2>6. QED
    BY <2>1, <2>3, <2>4, <2>5
<1>4. CASE RequestFailed
  BY <1>4, FailKeeps DEF RequestFailed
<1>5. CASE Route
  BY <1>5, PassKeeps, PollKeeps DEF Route, At
<1>6. CASE Consume
  <2>1. PICK ok, bindings, runtime \in Answers :
          IF ok /\ Page # << >> THEN Pass(0) ELSE Poll(GapWarnings(bindings, runtime))
    BY <1>6 DEF Consume
  <2>2. GapWarnings(bindings, runtime) \in Nat
    BY DEF GapWarnings
  <2>3. Running
    BY <1>6 DEF Consume, At
  <2>4. QED
    BY <2>1, <2>2, <2>3, PassKeeps, PollKeeps
<1>7. CASE Validate
  <2>1. PICK ok \in Answers :
          LET warned == IF PageHas("failed") THEN 0 ELSE 1 IN
          IF ~ok THEN Fail(0) ELSE IF PageHas("passed") THEN Pass(warned) ELSE Fail(warned)
    BY <1>7 DEF Validate
  <2>2. \E w \in {0, 1} : Fail(w) \/ Pass(w)
    BY <2>1
  <2>3. Running
    BY <1>7 DEF Validate, At
  <2>4. QED
    BY <2>2, <2>3, PassKeeps, FailKeeps
<1>8. CASE AlignmentReads
  <2>1. smoke' = [smoke EXCEPT !.draft = smoke.draft, !.polls = smoke.polls,
                               !.seen = cluster.loaded["consumer"]]
    BY <1>8 DEF AlignmentReads, SmokeInv, SmokeTypes
  <2>2. QED
    BY <2>1, WaitingKeeps
<1>9. CASE AlignmentCompares
  BY <1>9, PassKeeps, FailKeeps, PollKeeps DEF AlignmentCompares, At
<1>10. CASE WaitForFailures
  BY <1>10, PassKeeps, PollKeeps DEF WaitForFailures, At
<1>11. CASE VerifyViolations
  BY <1>11, PassKeeps, FailKeeps DEF VerifyViolations, At
<1>12. CASE VerifyActive
  <2>1. \E errors \in {0, 1, 2}, warned \in {0, 1} :
          EndStage(FromFindings(Stage, errors, warned), smoke.draft)
    <3>1. PICK active \in Answers, projections \in Answers :
            LET errors == (IF active /\ cluster.active # None THEN 0 ELSE 1) +
                          (IF projections /\ cluster.active = Own THEN 0 ELSE 1)
                warned == IF active /\ cluster.active \notin {None, Own} THEN 1 ELSE 0
            IN  EndStage(FromFindings(Stage, errors, warned), smoke.draft)
      BY <1>12 DEF VerifyActive
    <3> DEFINE errors == (IF active /\ cluster.active # None THEN 0 ELSE 1) +
                         (IF projections /\ cluster.active = Own THEN 0 ELSE 1)
               warned == IF active /\ cluster.active \notin {None, Own} THEN 1 ELSE 0
    <3>2. errors \in {0, 1, 2} /\ warned \in {0, 1}
      OBVIOUS
    <3>3. EndStage(FromFindings(Stage, errors, warned), smoke.draft)
      BY <3>1
    <3> HIDE DEF errors, warned
    <3>4. QED
      BY <3>2, <3>3
  <2>2. Running
    BY <1>12 DEF VerifyActive, At
  <2>3. \A n \in {0, 1, 2} : n \in Nat
    OBVIOUS
  <2>4. QED
    BY <2>1, <2>2, <2>3, FindingsKeep
<1>13. CASE QueryMissing
  <2>1. \E errors \in {0, 1}, warned \in {0, 1} :
          EndStage(FromFindings(Stage, errors, warned), smoke.draft)
    BY <1>13 DEF QueryMissing
  <2>2. Running
    BY <1>13 DEF QueryMissing
  <2>3. \A n \in {0, 1} : n \in Nat
    OBVIOUS
  <2>4. QED
    BY <2>1, <2>2, <2>3, FindingsKeep
<1>14. QED
  BY <1>1, <1>2, <1>3, <1>4, <1>5, <1>6, <1>7, <1>8, <1>9, <1>10, <1>11, <1>12, <1>13
     DEF StageRuns

LEMMA SameSmoke == ASSUME SmokeInv, UNCHANGED smoke PROVE SmokeInv'
BY DEF SmokeInv, SmokeTypes, SmokeProgress

LEMMA ClusterMovesKeep == ASSUME SmokeInv, ClusterMoves PROVE SmokeInv'
<1>1. UNCHANGED smoke
  BY DEF ClusterMoves, ServiceChanges, OtherActivates, ConsumerFetches,
         ConsumerReports, EmulatorFetches, EmulatorReconciles, ValidatorCaches, Records, Becomes
<1>2. QED
  BY <1>1, SameSmoke

\* Only the two commands that run a smoke test touch it.
LEMMA OwnSmoke ==
  ASSUME [RaccoonNext]_raccoonVars
  PROVE  UNCHANGED smokeVars \/ StartSmokeCommand \/ SmokeStep \/ GateStartsSmoke
<1>1. CASE StaticCommand \/ DriftCommand \/ AdvisorCommand \/ EndGateCommand \/ EndSmokeCommand
           \/ EndPackCommand \/ EndBridgeCommand
  BY <1>1 DEF StaticCommand, DriftCommand, AdvisorCommand, EndGateCommand, EndSmokeCommand,
              EndPackCommand, EndBridgeCommand, EndsWith, smokeVars
<1>2. CASE StartGateCommand \/ GateStep \/ GateEndsSmoke \/ PackCommand \/ BridgeCommand
  BY <1>2 DEF StartGateCommand, GateStep, GateEndsSmoke, PackCommand, BridgeCommand, smokeVars
<1>3. CASE UNCHANGED raccoonVars
  BY <1>3 DEF raccoonVars, smokeVars
<1>4. QED
  BY <1>1, <1>2, <1>3 DEF RaccoonNext

LEMMA SmokeNext ==
  ASSUME SmokeInv, line \in CommandLines, [RaccoonNext]_raccoonVars
  PROVE  SmokeInv'
<1>1. CASE StartSmokeCommand
  <2>1. line.test \in Tests
    BY <1>1, CommandLinesAssumption DEF StartSmokeCommand, Runs, Tests
  <2>2. QED
    BY <1>1, <2>1, StartSmokeKeeps DEF StartSmokeCommand
<1>2. CASE SmokeStep
  BY <1>2, StageRunsKeep, ClusterMovesKeep DEF SmokeStep
<1>3. CASE GateStartsSmoke
  <2>1. "runtime-smoke" \in Tests
    BY DEF Tests
  <2>2. QED
    BY <1>3, <2>1, StartSmokeKeeps DEF GateStartsSmoke
<1>4. QED
  BY <1>1, <1>2, <1>3, OwnSmoke, SameSmoke DEF smokeVars

\* A report of a smoke test that is done is whole: the invariant says so at its end.
LEMMA DoneIsWhole ==
  ASSUME SmokeInv
  PROVE  SmokeReportComplete
<1> SUFFICES ASSUME SmokeDone
             PROVE  LET checks == smoke.checks
                        failed == {i \in DOMAIN checks : checks[i].status = "fail"}
                    IN  /\ [i \in DOMAIN checks |-> checks[i].name] = Stages(smoke.test)
                        /\ SmokeReport.passed <=> failed = {}
                        /\ smoke.test # "missing-binding" =>
                             \A i \in failed, j \in DOMAIN checks :
                                 j > i <=> checks[j].status = "skip"
  BY DEF SmokeReportComplete
<1> DEFINE checks == smoke.checks
           stages == Stages(smoke.test)
           failed == {i \in DOMAIN checks : checks[i].status = "fail"}
<1>1. /\ smoke.test \in Tests /\ smoke.pos \in Nat /\ smoke.pos > Len(stages)
      /\ checks \in Seq(SmokeChecks) /\ Len(checks) = smoke.pos - 1
      /\ smoke.pos <= Len(stages) + 1
      /\ \A i \in 1 .. Len(checks) : checks[i].name = stages[i]
      /\ smoke.test # "missing-binding" =>
           \A i, j \in 1 .. Len(checks) :
             checks[i].status = "fail" => (j > i <=> checks[j].status = "skip")
  BY DEF SmokeInv, SmokeTypes, SmokeProgress, SmokeDone
<1>2. stages \in Seq(StageNames) /\ Len(stages) \in Nat
  BY <1>1, StagesOf DEF StagesGiven
<1>3. Len(checks) = Len(stages)
  BY <1>1, <1>2
<1>4. DOMAIN checks = 1 .. Len(stages)
  BY <1>1, <1>3
<1>5. SmokeReport.passed <=> failed = {}
  <2>1. SmokeReport.passed <=> \A i \in 1 .. Len(checks) : checks[i].status # "fail"
    <3>1. checks \in Seq(SmokeChecks)
      BY <1>1
    <3>2. ReportOf(checks).passed <=> \A i \in 1 .. Len(checks) : checks[i].status # "fail"
      BY <3>1, ReportSays
    <3>3. QED
      BY <3>2 DEF SmokeReport
  <2>2. failed = {} <=> \A i \in 1 .. Len(checks) : checks[i].status # "fail"
    BY <1>3, <1>4
  <2>3. QED
    BY <2>1, <2>2
<1>6. [i \in DOMAIN checks |-> checks[i].name] = stages
  <2> HIDE DEF stages, checks
  <2>1. [i \in 1 .. Len(stages) |-> checks[i].name] = [i \in 1 .. Len(stages) |-> stages[i]]
    BY <1>1, <1>3
  <2>2. stages = [i \in 1 .. Len(stages) |-> stages[i]]
    BY <1>2
  <2>3. QED
    BY <1>4, <2>1, <2>2
<1>7. QED
  BY <1>1, <1>3, <1>4, <1>5, <1>6

LEMMA SmokeInvariant == RaccoonSpec => []SmokeInv
<1>1. RaccoonInit => SmokeInv
  BY SmokeStart
<1>2. SmokeInv /\ line \in CommandLines /\ [RaccoonNext]_raccoonVars => SmokeInv'
  BY SmokeNext
<1>3. QED
  BY <1>1, <1>2, CommandLineKept, PTL DEF RaccoonSpec

\* However the cluster moves while the stages run, and wherever a test ends, its
\* report accounts for every stage and passes exactly when none failed.
THEOREM ReportsAreWhole == RaccoonSpec => []SmokeReportComplete
<1>1. SmokeInv => SmokeReportComplete
  BY DoneIsWhole
<1>2. QED
  BY <1>1, SmokeInvariant, PTL

-----------------------------------------------------------------------------
(* The alignment of the data plane *)

\* The longest smoke test, stage by stage.
LEMMA HappyStages ==
  Stages("happy-path") = <<"bootstrap", "readiness", "inject", "route", "consume", "validate",
                           "bootstrap-alignment">>
BY StagesAre DEF SmokeStages

\* The generations are compared by a stage that is the last one of its test.
LEMMA AlignmentIsLast ==
  ASSUME NEW t \in Tests, NEW i \in 1 .. Len(Stages(t)), Stages(t)[i] = "bootstrap-alignment"
  PROVE  i = 7
<1> DEFINE stages == Stages(t)
<1>1. CASE t = "missing-binding"
  <2>1. stages = <<"readiness", "query-missing-bindings", "query-missing-results">>
    BY <1>1, StagesAre
  <2>2. i = 1 \/ i = 2 \/ i = 3
    BY <2>1
  <2>3. QED
    BY <2>1, <2>2
<1>2. CASE t = "runtime-smoke" \/ t = "happy-path"
  <2>1. \/ stages = <<"bootstrap", "readiness", "inject", "route", "consume", "validate">>
        \/ stages = <<"bootstrap", "readiness", "inject", "route", "consume", "validate",
                      "bootstrap-alignment">>
    BY <1>2, HappyStages, StagesAre DEF SmokeStages
  <2>2. i = 1 \/ i = 2 \/ i = 3 \/ i = 4 \/ i = 5 \/ i = 6 \/ i = 7
    BY <2>1
  <2>3. QED
    BY <2>1, <2>2
<1>3. CASE t = "config-lifecycle"
  <2>1. stages = <<"bootstrap", "readiness", "create-draft", "validate-draft", "compile", "activate", "verify-active">>
    BY <1>3, StagesAre
  <2>2. i = 1 \/ i = 2 \/ i = 3 \/ i = 4 \/ i = 5 \/ i = 6 \/ i = 7
    BY <2>1
  <2>3. QED
    BY <2>1, <2>2
<1>4. CASE t = "invalid-payload"
  <2>1. stages = <<"bootstrap", "readiness", "inject", "route", "wait-for-failures", "verify-violations">>
    BY <1>4, StagesAre
  <2>2. i = 1 \/ i = 2 \/ i = 3 \/ i = 4 \/ i = 5 \/ i = 6
    BY <2>1
  <2>3. QED
    BY <2>1, <2>2
<1>5. CASE t = "readiness-probe"
  <2>1. stages = <<"bootstrap", "readiness">>
    BY <1>5, StagesAre
  <2>2. i = 1 \/ i = 2
    BY <2>1
  <2>3. QED
    BY <2>1, <2>2
<1>6. QED
  BY <1>1, <1>2, <1>3, <1>4, <1>5 DEF Tests, Scenarios

\* Where a running test stands, and the checks of the stages before it.
LEMMA StagePlace ==
  ASSUME SmokeInv, Running
  PROVE  /\ smoke.test \in Tests /\ smoke.pos \in 1 .. Len(Stages(smoke.test))
         /\ Len(Stages(smoke.test)) \in 2 .. 7
         /\ Len(smoke.checks) = smoke.pos - 1 /\ smoke.checks \in Seq(SmokeChecks)
         /\ \A i \in 1 .. smoke.pos - 1 : smoke.checks[i].name = Stages(smoke.test)[i]
<1>1. smoke.test \in Tests /\ smoke.pos \in Nat /\ Len(smoke.checks) \in Nat
      /\ smoke.pos <= Len(Stages(smoke.test)) /\ Len(smoke.checks) = smoke.pos - 1
      /\ smoke.checks \in Seq(SmokeChecks)
      /\ \A i \in 1 .. smoke.pos - 1 : smoke.checks[i].name = Stages(smoke.test)[i]
  BY DEF SmokeInv, SmokeTypes, SmokeProgress, Running
<1>2. Len(Stages(smoke.test)) \in 2 .. 7
  BY <1>1, StagesOf DEF StagesGiven
<1>3. QED
  BY <1>1, <1>2

\* While a test runs no check of the alignment is in its report.
LEMMA NotPassedYet == ASSUME SmokeInv, Running PROVE ~AlignmentPassed
<1>1. SUFFICES ASSUME NEW i \in DOMAIN smoke.checks, smoke.checks[i].name = "bootstrap-alignment"
               PROVE  FALSE
  BY DEF AlignmentPassed
<1>2. /\ smoke.test \in Tests /\ smoke.pos \in 1 .. Len(Stages(smoke.test))
      /\ Len(Stages(smoke.test)) \in 2 .. 7
      /\ Len(smoke.checks) = smoke.pos - 1 /\ smoke.checks \in Seq(SmokeChecks)
      /\ \A j \in 1 .. smoke.pos - 1 : smoke.checks[j].name = Stages(smoke.test)[j]
  BY StagePlace
<1>3. i \in 1 .. smoke.pos - 1 /\ i \in 1 .. Len(Stages(smoke.test)) /\ i < 7
  <2> DEFINE last == Len(Stages(smoke.test))
             pos  == smoke.pos
             n    == Len(smoke.checks)
  <2>1. DOMAIN smoke.checks = 1 .. n
    BY <1>2
  <2>2. pos \in 1 .. last /\ last \in 2 .. 7 /\ n = pos - 1 /\ i \in 1 .. n
    BY <1>1, <1>2, <2>1
  <2> HIDE DEF last, pos, n
  <2>3. i \in 1 .. pos - 1 /\ i \in 1 .. last /\ i < 7
    BY <2>2
  <2>4. QED
    BY <2>3 DEF last, pos
<1>4. i = 7
  BY <1>1, <1>2, <1>3, AlignmentIsLast
<1>5. QED
  BY <1>3, <1>4

\* The processes whose logs the alignment reads.
Logging == {"consumer", "emulator"}

\* The fields of a cluster.
ClusterShape(c) ==
  c \in [up : {c.up}, flapped : {c.flapped}, own : {c.own},
         active : {c.active}, others : {c.others},
         loaded : [Logging -> {c.loaded["consumer"], c.loaded["emulator"]}],
         queued : {c.queued}, fetched : {c.fetched}, cached : {c.cached},
         results : {c.results}, held : BOOLEAN, again : BOOLEAN]

\* The generation the alignment has read of is the last the consumer has fetched
\* as long as it is active, and once the emulator has it both had it at one
\* moment, unless it was activated again.
ReadHolds(c, seen) ==
  /\ c.again \/ c.active # seen \/ (c.loaded["consumer"] = seen /\ c.queued = << >>)
  /\ EmulatorHas(c, seen) => c.again \/ c.held

\* A cluster a test may start on.
LEMMA ClusterStart == ASSUME NEW c \in Clusters PROVE ClusterShape(c)
<1> DEFINE versions == {None} \cup 1 .. c.others
<1>1. c \in [up : SUBSET AllServices, flapped : BOOLEAN,
             own : {None}, active : versions, others : {c.others},
             loaded : [{"consumer", "emulator"} -> versions],
             queued : {<< >>}, fetched : {None}, cached : BOOLEAN,
             results : Seq({"passed", "failed"}),
             held : BOOLEAN, again : BOOLEAN]
  BY ClustersAssumption
<1> HIDE DEF versions
<1>2. c.loaded \in [Logging -> {c.loaded["consumer"], c.loaded["emulator"]}]
  BY <1>1 DEF Logging
<1>3. QED
  BY <1>1, <1>2 DEF ClusterShape

\* A move keeps what the alignment has read of when it keeps it up to held, which
\* is recorded in the same move.
LEMMA BecomesHolds ==
  ASSUME NEW c, ClusterShape(c), Becomes(c),
         smoke.seen # None =>
            /\ c.again \/ c.active # smoke.seen
                 \/ (c.loaded["consumer"] = smoke.seen /\ c.queued = << >>)
            /\ EmulatorHas(c, smoke.seen)
                 => c.again \/ c.held \/ c.loaded["consumer"] = smoke.seen
  PROVE  /\ ClusterShape(cluster')
         /\ smoke.seen # None => ReadHolds(cluster', smoke.seen)
<1> DEFINE seen == smoke.seen
           read == seen # None /\ c.loaded["consumer"] = seen
           held == c.held \/ (read /\ EmulatorHas(c, seen))
           d    == cluster'
<1>1. d = [c EXCEPT !.held = held] /\ held \in BOOLEAN
  BY DEF Becomes, ClusterShape
<1>2. (c.held => held) /\ (read /\ EmulatorHas(c, seen) => held)
  OBVIOUS
<1>3. ClusterShape(c)
  OBVIOUS
<1>4. read <=> seen # None /\ c.loaded["consumer"] = seen
  OBVIOUS
<1> HIDE DEF held, read, d, seen
<1>5. /\ d.active = c.active /\ d.loaded = c.loaded /\ d.queued = c.queued
      /\ d.fetched = c.fetched /\ d.again = c.again /\ d.held = held
  BY <1>1, <1>3 DEF ClusterShape
<1>6. ClusterShape(d)
  BY <1>1, <1>3 DEF ClusterShape
<1>7. EmulatorHas(d, seen) <=> EmulatorHas(c, seen)
  BY <1>5 DEF EmulatorHas
<1>8. seen # None => ReadHolds(d, seen)
  BY <1>2, <1>4, <1>5, <1>7 DEF ReadHolds, seen
<1>9. QED
  BY <1>6, <1>8 DEF d, seen

\* Nothing the cluster does by itself gets between the two reads.
LEMMA MovesHold ==
  ASSUME ClusterShape(cluster), smoke.seen # None => ReadHolds(cluster, smoke.seen), ClusterMoves
  PROVE  /\ ClusterShape(cluster')
         /\ smoke.seen # None => ReadHolds(cluster', smoke.seen)
<1> DEFINE c == cluster
           seen == smoke.seen
           Keeps(e) == /\ ClusterShape(e) /\ Becomes(e)
                       /\ seen # None =>
                            /\ e.again \/ e.active # seen
                                 \/ (e.loaded["consumer"] = seen /\ e.queued = << >>)
                            /\ EmulatorHas(e, seen)
                                 => e.again \/ e.held \/ e.loaded["consumer"] = seen
<1>0. ASSUME NEW e, Keeps(e)
      PROVE  ClusterShape(cluster') /\ (seen # None => ReadHolds(cluster', seen))
  BY <1>0, BecomesHolds
<1>1. ClusterShape(c) /\ (seen # None => ReadHolds(c, seen))
  OBVIOUS
<1>2. CASE ServiceChanges
  <2>1. PICK s \in {"server", "emulator"} :
          Becomes([c EXCEPT !.up = IF s \in @ THEN @ \ {s} ELSE @ \cup {s}, !.flapped = TRUE,
                            !.fetched = IF s = "emulator" THEN None ELSE @])
    BY <1>2 DEF ServiceChanges
  <2> DEFINE up == IF s \in c.up THEN c.up \ {s} ELSE c.up \cup {s}
             fetched == IF s = "emulator" THEN None ELSE c.fetched
             e == [c EXCEPT !.up = up, !.flapped = TRUE, !.fetched = fetched]
  <2>2. Becomes(e) /\ fetched \in {None, c.fetched}
    BY <1>1, <2>1 DEF ClusterShape
  <2> HIDE DEF up, fetched
  <2>3. /\ e.active = c.active /\ e.loaded = c.loaded /\ e.queued = c.queued
        /\ e.fetched = fetched /\ e.again = c.again /\ e.held = c.held /\ ClusterShape(e)
    BY <1>1 DEF ClusterShape
  <2> HIDE DEF e, c, seen
  <2>4. seen # None /\ EmulatorHas(e, seen) => EmulatorHas(c, seen)
    BY <2>2, <2>3 DEF EmulatorHas
  <2>5. Keeps(e)
    BY <1>1, <2>2, <2>3, <2>4 DEF ReadHolds
  <2>6. QED
    BY <1>0, <2>5 DEF c, seen
<1>3. CASE ValidatorCaches \/ Records
  <2>1. PICK cached, results : Becomes([c EXCEPT !.cached = cached, !.results = results])
    <3>1. CASE ValidatorCaches
      <4>1. [c EXCEPT !.cached = TRUE] = [c EXCEPT !.cached = TRUE, !.results = c.results]
        BY <1>1 DEF ClusterShape
      <4>2. QED
        BY <3>1, <4>1 DEF ValidatorCaches
    <3>2. CASE Records
      <4>1. PICK status : Becomes([c EXCEPT !.results = <<status>> \o @])
        BY <3>2 DEF Records
      <4> DEFINE results == <<status>> \o c.results
      <4>2. Becomes([c EXCEPT !.results = results])
        BY <4>1
      <4> HIDE DEF results
      <4>3. [c EXCEPT !.results = results] = [c EXCEPT !.cached = c.cached, !.results = results]
        BY <1>1 DEF ClusterShape
      <4>4. QED
        BY <4>2, <4>3
    <3>3. QED
      BY <1>3, <3>1, <3>2
  <2> DEFINE e == [c EXCEPT !.cached = cached, !.results = results]
  <2>2. /\ e.active = c.active /\ e.loaded = c.loaded /\ e.queued = c.queued
        /\ e.fetched = c.fetched /\ e.again = c.again /\ e.held = c.held /\ ClusterShape(e)
    BY <1>1 DEF ClusterShape
  <2>3. Becomes(e)
    BY <2>1
  <2> HIDE DEF e, c, seen
  <2>4. Keeps(e)
    BY <1>1, <2>2, <2>3 DEF ReadHolds, EmulatorHas
  <2>5. QED
    BY <1>0, <2>4 DEF c, seen
<1>4. CASE OtherActivates
  <2>1. PICK v : v # c.active
                 /\ Becomes([c EXCEPT !.active = v, !.others = @ + 1, !.again = @ \/ v = seen])
    BY <1>4 DEF OtherActivates
  <2> DEFINE again == c.again \/ v = seen
             others == c.others + 1
             e == [c EXCEPT !.active = v, !.others = others, !.again = again]
  <2>2. Becomes(e) /\ again \in BOOLEAN /\ (again <=> c.again \/ v = seen)
    BY <1>1, <2>1 DEF ClusterShape
  <2> HIDE DEF again, others
  <2>3. /\ e.active = v /\ e.loaded = c.loaded /\ e.queued = c.queued
        /\ e.fetched = c.fetched /\ e.again = again /\ e.held = c.held /\ ClusterShape(e)
    BY <1>1, <2>2 DEF ClusterShape
  <2> HIDE DEF e, c, seen
  <2>4. Keeps(e)
    BY <1>1, <2>2, <2>3 DEF ReadHolds, EmulatorHas
  <2>5. QED
    BY <1>0, <2>4 DEF c, seen
<1>5. CASE ConsumerFetches
  <2>1. Becomes([c EXCEPT !.queued = Append(@, c.active)]) /\ c.active # LastFetched
    BY <1>5 DEF ConsumerFetches
  <2> DEFINE queued == Append(c.queued, c.active)
             e == [c EXCEPT !.queued = queued]
  <2>2. Becomes(e) /\ (c.queued = << >> => c.active # c.loaded["consumer"])
    BY <2>1 DEF LastFetched
  <2> HIDE DEF queued
  <2>3. /\ e.active = c.active /\ e.loaded = c.loaded
        /\ e.fetched = c.fetched /\ e.again = c.again /\ e.held = c.held /\ ClusterShape(e)
    BY <1>1 DEF ClusterShape
  <2> HIDE DEF e, c, seen
  <2>4. Keeps(e)
    BY <1>1, <2>2, <2>3 DEF ReadHolds, EmulatorHas
  <2>5. QED
    BY <1>0, <2>4 DEF c, seen
<1>6. CASE ConsumerReports
  <2>1. PICK i \in DOMAIN c.queued :
          Becomes([c EXCEPT !.loaded["consumer"] = c.queued[i],
                            !.queued = SubSeq(@, i + 1, Len(@))])
    BY <1>6 DEF ConsumerReports
  <2> DEFINE log == c.queued[i]
             queued == SubSeq(c.queued, i + 1, Len(c.queued))
             e == [c EXCEPT !.loaded = [@ EXCEPT !["consumer"] = log], !.queued = queued]
  <2>2. Becomes(e) /\ c.queued # << >>
    BY <2>1
  <2> HIDE DEF log, queued
  <2>3. /\ e.active = c.active /\ e.loaded["emulator"] = c.loaded["emulator"]
        /\ e.fetched = c.fetched /\ e.again = c.again /\ e.held = c.held
    BY <1>1 DEF ClusterShape, Logging
  <2>4. ClusterShape(e)
    <3> DEFINE loaded == [c.loaded EXCEPT !["consumer"] = log]
    <3>1. loaded \in [Logging -> {loaded["consumer"], loaded["emulator"]}]
      BY <1>1 DEF ClusterShape, Logging
    <3>2. e = [c EXCEPT !.loaded = loaded, !.queued = queued]
      BY <1>1 DEF ClusterShape
    <3> HIDE DEF loaded, e
    <3>3. QED
      BY <1>1, <3>1, <3>2 DEF ClusterShape
  <2> HIDE DEF e, c, seen
  <2>5. Keeps(e)
    BY <1>1, <2>2, <2>3, <2>4 DEF ReadHolds, EmulatorHas
  <2>6. QED
    BY <1>0, <2>5 DEF c, seen
<1>7. CASE EmulatorFetches
  <2>1. Becomes([c EXCEPT !.fetched = c.active])
    BY <1>7 DEF EmulatorFetches
  <2> DEFINE e == [c EXCEPT !.fetched = c.active]
  <2>2. /\ e.active = c.active /\ e.loaded = c.loaded /\ e.queued = c.queued
        /\ e.fetched = c.active /\ e.again = c.again /\ e.held = c.held /\ ClusterShape(e)
    BY <1>1 DEF ClusterShape
  <2>3. Becomes(e)
    BY <2>1
  <2> HIDE DEF e, c, seen
  <2>4. Keeps(e)
    BY <1>1, <2>2, <2>3 DEF ReadHolds, EmulatorHas
  <2>5. QED
    BY <1>0, <2>4 DEF c, seen
<1>8. CASE EmulatorReconciles
  <2>1. PICK ensured \in BOOLEAN :
          Becomes([c EXCEPT !.loaded["emulator"] = IF ensured THEN c.fetched ELSE @,
                            !.fetched = None])
    BY <1>8 DEF EmulatorReconciles
  <2> DEFINE log == IF ensured THEN c.fetched ELSE c.loaded["emulator"]
             e == [c EXCEPT !.loaded = [@ EXCEPT !["emulator"] = log], !.fetched = None]
  <2>2. Becomes(e) /\ log \in {c.loaded["emulator"], c.fetched}
    BY <2>1
  <2> HIDE DEF log
  <2>3. /\ e.active = c.active /\ e.loaded["consumer"] = c.loaded["consumer"]
        /\ e.loaded["emulator"] = log /\ e.queued = c.queued
        /\ e.fetched = None /\ e.again = c.again /\ e.held = c.held
    BY <1>1 DEF ClusterShape, Logging
  <2>4. ClusterShape(e)
    <3> DEFINE loaded == [c.loaded EXCEPT !["emulator"] = log]
    <3>1. loaded \in [Logging -> {loaded["consumer"], loaded["emulator"]}]
      BY <1>1 DEF ClusterShape, Logging
    <3>2. e = [c EXCEPT !.loaded = loaded, !.fetched = None]
      BY <1>1 DEF ClusterShape
    <3> HIDE DEF loaded, e
    <3>3. QED
      BY <1>1, <3>1, <3>2 DEF ClusterShape
  <2> HIDE DEF e, c, seen
  <2>5. seen # None /\ EmulatorHas(e, seen) => EmulatorHas(c, seen)
    BY <2>2, <2>3 DEF EmulatorHas
  <2>6. Keeps(e)
    BY <1>1, <2>2, <2>3, <2>4, <2>5 DEF ReadHolds
  <2>7. QED
    BY <1>0, <2>6 DEF c, seen
<1>9. QED
  BY <1>2, <1>3, <1>4, <1>5, <1>6, <1>7, <1>8 DEF ClusterMoves

\* What holds along a test: what the alignment has read of is kept while its
\* stage runs, and a passed alignment saw one moment.
AlignInv ==
  /\ ClusterShape(cluster)
  /\ smoke.seen # None => /\ Running /\ Stage = "bootstrap-alignment"
                          /\ ReadHolds(cluster, smoke.seen)
  /\ HeldAtOneMoment

\* A stage has ended, and if it was the alignment it passed for a reason.
LEMMA EndedAligns ==
  ASSUME SmokeInv, Running, NEW check \in SmokeChecks, NEW draft,
         check.name = Stage, check.status \in {"pass", "fail"}, EndStage(check, draft),
         ClusterShape(cluster'),
         Stage = "bootstrap-alignment" /\ check.status = "pass" => cluster'.held \/ cluster'.again
  PROVE  AlignInv'
<1>1. StageEnded(check, draft) /\ SmokeInv'
  BY EndStageKeeps
<1>2. smoke'.seen = None
  BY <1>1 DEF StageEnded
<1>3. DOMAIN smoke'.checks = 1 .. Len(smoke'.checks)
  <2>1. smoke'.checks \in Seq(SmokeChecks)
    BY <1>1 DEF SmokeInv, SmokeTypes
  <2>2. QED
    BY <2>1
<1>4. DOMAIN smoke.checks = 1 .. smoke.pos - 1
  BY StagePlace
<1>5. HeldAtOneMoment'
  <2>1. SUFFICES ASSUME NEW i \in DOMAIN smoke'.checks,
                        smoke'.checks[i].name = "bootstrap-alignment",
                        smoke'.checks[i].status = "pass"
                 PROVE  cluster'.held \/ cluster'.again
    BY DEF HeldAtOneMoment, AlignmentPassed
  <2>2. \/ smoke'.checks[i] = check
        \/ i \in 1 .. smoke.pos - 1 /\ smoke'.checks[i] = smoke.checks[i]
    BY <1>1, <1>3, <2>1 DEF StageEnded
  <2>3. CASE smoke'.checks[i] = check
    BY <2>1, <2>3
  <2>4. CASE i \in 1 .. smoke.pos - 1 /\ smoke'.checks[i] = smoke.checks[i]
    BY <1>4, <2>1, <2>4, NotPassedYet DEF AlignmentPassed
  <2>5. QED
    BY <2>2, <2>3, <2>4
<1>6. QED
  BY <1>2, <1>5 DEF AlignInv

\* A step of the test that ends no stage, or one of the cluster.
LEMMA WaitingAligns ==
  ASSUME SmokeInv, Running,
         smoke'.running = smoke.running, smoke'.test = smoke.test,
         smoke'.pos = smoke.pos, smoke'.checks = smoke.checks,
         ClusterShape(cluster'),
         smoke'.seen # None => Stage = "bootstrap-alignment" /\ ReadHolds(cluster', smoke'.seen)
  PROVE  AlignInv'
<1>1. ~AlignmentPassed'
  BY NotPassedYet DEF AlignmentPassed
<1>2. Running' /\ Stage' = Stage
  BY DEF Running, Stage
<1>3. QED
  BY <1>1, <1>2 DEF AlignInv, HeldAtOneMoment

\* The stages that leave the cluster alone, by how they end.
LEMMA QuietPass ==
  ASSUME SmokeInv, AlignInv, Running, NEW warnings \in Nat, Pass(warnings), UNCHANGED cluster,
         Stage = "bootstrap-alignment" => cluster.held \/ cluster.again
  PROVE  AlignInv'
<1> DEFINE check == PassCheck(Stage, warnings)
<1>1. check \in SmokeChecks /\ check.name = Stage /\ check.status = "pass"
  BY StageIs, ChecksAre
<1>2. EndStage(check, smoke.draft)
  BY DEF Pass
<1>3. ClusterShape(cluster')
  BY DEF AlignInv
<1> HIDE DEF check
<1>4. QED
  BY <1>1, <1>2, <1>3, EndedAligns

LEMMA QuietFindings ==
  ASSUME SmokeInv, AlignInv, Running, NEW errors \in Nat, NEW warnings \in Nat,
         EndStage(FromFindings(Stage, errors, warnings), smoke.draft), UNCHANGED cluster,
         Stage # "bootstrap-alignment" \/ errors # 0
  PROVE  AlignInv'
<1> DEFINE check == FromFindings(Stage, errors, warnings)
<1>1. check \in SmokeChecks /\ check.name = Stage /\ check.status \in {"pass", "fail"}
  BY StageIs, ChecksAre
<1>2. errors # 0 => check.status = "fail"
  BY DEF FromFindings
<1>3. EndStage(check, smoke.draft)
  OBVIOUS
<1>4. ClusterShape(cluster')
  BY DEF AlignInv
<1> HIDE DEF check
<1>5. QED
  BY <1>1, <1>2, <1>3, <1>4, EndedAligns

LEMMA QuietFail ==
  ASSUME SmokeInv, AlignInv, Running, NEW warnings \in Nat, Fail(warnings), UNCHANGED cluster
  PROVE  AlignInv'
BY QuietFindings DEF Fail

LEMMA QuietPoll ==
  ASSUME SmokeInv, AlignInv, Running, NEW warnings \in Nat, Poll(warnings), UNCHANGED cluster
  PROVE  AlignInv'
<1>1. CASE smoke.polls > 1
  <2>1. smoke' = [smoke EXCEPT !.polls = @ - 1, !.seen = None]
    BY <1>1 DEF Poll
  <2>2. /\ smoke'.running = smoke.running /\ smoke'.test = smoke.test
        /\ smoke'.pos = smoke.pos /\ smoke'.checks = smoke.checks /\ smoke'.seen = None
    BY <2>1 DEF SmokeInv, SmokeTypes
  <2>3. ClusterShape(cluster')
    BY DEF AlignInv
  <2>4. QED
    BY <2>2, <2>3, WaitingAligns
<1>2. CASE ~(smoke.polls > 1)
  BY <1>2, QuietFail DEF Poll
<1>3. QED
  BY <1>1, <1>2

\* A request changes the version of this run, and perhaps what is active.
LEMMA AppliedShape ==
  ASSUME ClusterShape(cluster), NEW request, NEW valid
  PROVE  ClusterShape(Applied(request, valid))
<1> DEFINE lifecycle == IF valid THEN "validated" ELSE cluster.own
<1>1. \/ \E own : Applied(request, valid) = [cluster EXCEPT !.own = own]
      \/ Applied(request, valid) = [cluster EXCEPT !.own = "active", !.active = Own]
  BY DEF Applied
<1>2. QED
  BY <1>1 DEF ClusterShape

\* The requests: their answers move the draft, or the stage fails.
LEMMA AnsweredAligns == ASSUME SmokeInv, AlignInv, RequestAnswered PROVE AlignInv'
<1>1. Running /\ Stage \in RequestStages
  BY DEF RequestAnswered
<1>2. PICK valid \in BOOLEAN :
        /\ cluster' = Applied(NextRequest, valid)
        /\ IF Stage = "validate-draft" /\ ~valid THEN Fail(0)
           ELSE IF Stage = "inject" /\ NextRequest # "activate"
           THEN smoke' = [smoke EXCEPT !.draft = NextRequest]
           ELSE EndStage(PassCheck(Stage, 0), NextRequest)
  BY DEF RequestAnswered
<1>3. ClusterShape(cluster')
  BY <1>2, AppliedShape DEF AlignInv
<1>4. Stage # "bootstrap-alignment"
  BY <1>1 DEF RequestStages
<1>5. CASE Fail(0)
  <2> DEFINE check == FromFindings(Stage, 1, 0)
  <2>1. check \in SmokeChecks /\ check.name = Stage /\ check.status \in {"pass", "fail"}
    BY <1>1, StageIs, ChecksAre
  <2>2. EndStage(check, smoke.draft)
    BY <1>5 DEF Fail
  <2> HIDE DEF check
  <2>3. QED
    BY <1>1, <1>3, <1>4, <2>1, <2>2, EndedAligns
<1>6. CASE smoke' = [smoke EXCEPT !.draft = NextRequest]
  <2>1. /\ smoke'.running = smoke.running /\ smoke'.test = smoke.test
        /\ smoke'.pos = smoke.pos /\ smoke'.checks = smoke.checks /\ smoke'.seen = smoke.seen
    BY <1>6 DEF SmokeInv, SmokeTypes
  <2>2. smoke.seen = None
    BY <1>4 DEF AlignInv
  <2>3. QED
    BY <1>1, <1>3, <2>1, <2>2, WaitingAligns
<1>7. CASE EndStage(PassCheck(Stage, 0), NextRequest)
  <2> DEFINE check == PassCheck(Stage, 0)
  <2>1. check \in SmokeChecks /\ check.name = Stage /\ check.status = "pass"
    BY <1>1, StageIs, ChecksAre
  <2>2. EndStage(check, NextRequest)
    BY <1>7
  <2> HIDE DEF check
  <2>3. QED
    BY <1>1, <1>3, <1>4, <2>1, <2>2, EndedAligns
<1>8. QED
  BY <1>2, <1>5, <1>6, <1>7

\* A refused request fails its stage; the cluster may have taken it.
LEMMA RefusedAligns == ASSUME SmokeInv, AlignInv, RequestFailed PROVE AlignInv'
<1>1. Running /\ Stage \in RequestStages /\ Fail(0)
  BY DEF RequestFailed
<1>2. ClusterShape(cluster')
  BY AppliedShape DEF RequestFailed, AlignInv
<1> DEFINE check == FromFindings(Stage, 1, 0)
<1>3. check \in SmokeChecks /\ check.name = Stage /\ check.status \in {"pass", "fail"}
  BY <1>1, StageIs, ChecksAre
<1>4. EndStage(check, smoke.draft)
  BY <1>1 DEF Fail
<1> HIDE DEF check
<1>5. Stage # "bootstrap-alignment"
  BY <1>1 DEF RequestStages
<1>6. QED
  BY <1>1, <1>2, <1>3, <1>4, <1>5, EndedAligns

\* The alignment reads the consumer's log: from here on again and held are about
\* this read.
LEMMA ReadAligns == ASSUME SmokeInv, AlignInv, AlignmentReads PROVE AlignInv'
<1> DEFINE c == cluster
           d == cluster'
           log == c.loaded["consumer"]
           again == c.active = log /\ c.queued # << >>
           held == EmulatorHas(c, log)
<1>1. /\ Running /\ Stage = "bootstrap-alignment"
      /\ smoke' = [smoke EXCEPT !.seen = log]
      /\ d = [c EXCEPT !.again = again, !.held = held]
  BY DEF AlignmentReads, At
<1>2. /\ smoke'.running = smoke.running /\ smoke'.test = smoke.test
      /\ smoke'.pos = smoke.pos /\ smoke'.checks = smoke.checks /\ smoke'.seen = log
  BY <1>1 DEF SmokeInv, SmokeTypes
<1>3. ClusterShape(c) /\ again \in BOOLEAN /\ held \in BOOLEAN
  BY DEF AlignInv, EmulatorHas
<1>4. (again <=> c.active = log /\ c.queued # << >>) /\ (held <=> EmulatorHas(c, log))
      /\ c.loaded["consumer"] = log
  OBVIOUS
<1> HIDE DEF again, held, c, d, log
<1>5. /\ d.active = c.active /\ d.loaded = c.loaded /\ d.queued = c.queued
      /\ d.fetched = c.fetched /\ d.again = again /\ d.held = held /\ ClusterShape(d)
  BY <1>1, <1>3 DEF ClusterShape
<1>6. ReadHolds(d, log)
  BY <1>4, <1>5 DEF ReadHolds, EmulatorHas
<1>7. QED
  BY <1>1, <1>2, <1>5, <1>6, WaitingAligns DEF d

\* The alignment compares the emulator's log with what it read of the consumer's.
LEMMA ComparesAligns == ASSUME SmokeInv, AlignInv, AlignmentCompares PROVE AlignInv'
<1>1. Running /\ Stage = "bootstrap-alignment" /\ UNCHANGED cluster
  BY DEF AlignmentCompares, At
<1>2. CASE Fail(0)
  BY <1>1, <1>2, QuietFail
<1>3. CASE Poll(0)
  BY <1>1, <1>3, QuietPoll
<1>4. CASE smoke.seen # None /\ cluster.loaded["emulator"] = smoke.seen /\ Pass(0)
  <2>1. cluster.held \/ cluster.again
    BY <1>4 DEF AlignInv, ReadHolds, EmulatorHas
  <2>2. QED
    BY <1>1, <1>4, <2>1, QuietPass
<1>5. QED
  BY <1>2, <1>3, <1>4 DEF AlignmentCompares

LEMMA StageRunsAlign == ASSUME SmokeInv, AlignInv, StageRuns PROVE AlignInv'
<1>0. \A s \in {"bootstrap", "readiness", "route", "consume", "validate", "wait-for-failures",
                "verify-violations", "verify-active", "query-missing-bindings",
                "query-missing-results"} :
        s # "bootstrap-alignment"
  OBVIOUS
<1>1. CASE Bootstrap
  BY <1>0, <1>1, QuietPass, QuietFail DEF Bootstrap, At
<1>2. CASE Readiness
  BY <1>0, <1>2, QuietPass, QuietPoll DEF Readiness, At
<1>3. CASE Route
  BY <1>0, <1>3, QuietPass, QuietPoll DEF Route, At
<1>4. CASE Consume
  <2>1. PICK ok, bindings, runtime \in Answers :
          IF ok /\ Page # << >> THEN Pass(0) ELSE Poll(GapWarnings(bindings, runtime))
    BY <1>4 DEF Consume
  <2>2. GapWarnings(bindings, runtime) \in Nat
    BY DEF GapWarnings
  <2>3. Running /\ Stage = "consume" /\ UNCHANGED cluster
    BY <1>4 DEF Consume, At
  <2>4. QED
    BY <1>0, <2>1, <2>2, <2>3, QuietPass, QuietPoll
<1>5. CASE Validate
  <2>1. PICK ok \in Answers :
          LET warned == IF PageHas("failed") THEN 0 ELSE 1 IN
          IF ~ok THEN Fail(0) ELSE IF PageHas("passed") THEN Pass(warned) ELSE Fail(warned)
    BY <1>5 DEF Validate
  <2>2. \E w \in {0, 1} : Fail(w) \/ Pass(w)
    BY <2>1
  <2>3. Running /\ Stage = "validate" /\ UNCHANGED cluster
    BY <1>5 DEF Validate, At
  <2>4. QED
    BY <1>0, <2>2, <2>3, QuietPass, QuietFail
<1>6. CASE WaitForFailures
  BY <1>0, <1>6, QuietPass, QuietPoll DEF WaitForFailures, At
<1>7. CASE VerifyViolations
  BY <1>0, <1>7, QuietPass, QuietFail DEF VerifyViolations, At
<1>8. CASE VerifyActive
  <2>1. \E errors \in {0, 1, 2}, warned \in {0, 1} :
          EndStage(FromFindings(Stage, errors, warned), smoke.draft)
    <3>1. PICK active \in Answers, projections \in Answers :
            LET errors == (IF active /\ cluster.active # None THEN 0 ELSE 1) +
                          (IF projections /\ cluster.active = Own THEN 0 ELSE 1)
                warned == IF active /\ cluster.active \notin {None, Own} THEN 1 ELSE 0
            IN  EndStage(FromFindings(Stage, errors, warned), smoke.draft)
      BY <1>8 DEF VerifyActive
    <3> DEFINE errors == (IF active /\ cluster.active # None THEN 0 ELSE 1) +
                         (IF projections /\ cluster.active = Own THEN 0 ELSE 1)
               warned == IF active /\ cluster.active \notin {None, Own} THEN 1 ELSE 0
    <3>2. errors \in {0, 1, 2} /\ warned \in {0, 1}
      OBVIOUS
    <3>3. EndStage(FromFindings(Stage, errors, warned), smoke.draft)
      BY <3>1
    <3> HIDE DEF errors, warned
    <3>4. QED
      BY <3>2, <3>3
  <2>2. Running /\ Stage = "verify-active" /\ UNCHANGED cluster
    BY <1>8 DEF VerifyActive, At
  <2>3. \A n \in {0, 1, 2} : n \in Nat
    OBVIOUS
  <2>4. QED
    BY <1>0, <2>1, <2>2, <2>3, QuietFindings
<1>9. CASE QueryMissing
  <2>1. \E errors \in {0, 1}, warned \in {0, 1} :
          EndStage(FromFindings(Stage, errors, warned), smoke.draft)
    BY <1>9 DEF QueryMissing
  <2>2. Running /\ Stage \in {"query-missing-bindings", "query-missing-results"} /\ UNCHANGED cluster
    BY <1>9 DEF QueryMissing
  <2>3. \A n \in {0, 1} : n \in Nat
    OBVIOUS
  <2>4. QED
    BY <1>0, <2>1, <2>2, <2>3, QuietFindings
<1>10. QED
  BY <1>1, <1>2, <1>3, <1>4, <1>5, <1>6, <1>7, <1>8, <1>9, AnsweredAligns, RefusedAligns,
     ReadAligns, ComparesAligns DEF StageRuns

LEMMA MovesAlign == ASSUME SmokeInv, AlignInv, ClusterMoves PROVE AlignInv'
<1>1. UNCHANGED smoke /\ Running
  BY DEF ClusterMoves, ServiceChanges, OtherActivates, ConsumerFetches,
         ConsumerReports, EmulatorFetches, EmulatorReconciles, ValidatorCaches, Records, Becomes
<1>2. ClusterShape(cluster') /\ (smoke.seen # None => ReadHolds(cluster', smoke.seen))
  BY MovesHold DEF AlignInv
<1>3. smoke.seen # None => Stage = "bootstrap-alignment"
  BY DEF AlignInv
<1>4. QED
  BY <1>1, <1>2, <1>3, WaitingAligns

LEMMA StartAligns ==
  ASSUME AlignInv, NEW test, StartSmoke(test)
  PROVE  AlignInv'
<1>1. smoke' = [running |-> TRUE, test |-> test, pos |-> 1, draft |-> None,
                polls |-> PollLimit, checks |-> << >>, seen |-> None] /\ UNCHANGED cluster
  BY DEF StartSmoke, IdleSmoke
<1>2. HeldAtOneMoment'
  BY <1>1 DEF HeldAtOneMoment, AlignmentPassed
<1>3. QED
  BY <1>1, <1>2 DEF AlignInv

LEMMA AlignNext ==
  ASSUME SmokeInv, AlignInv, [RaccoonNext]_raccoonVars
  PROVE  AlignInv'
<1>1. CASE UNCHANGED smokeVars
  BY <1>1 DEF smokeVars, AlignInv, HeldAtOneMoment, AlignmentPassed, Running, Stage
<1>2. CASE StartSmokeCommand
  BY <1>2, StartAligns DEF StartSmokeCommand
<1>3. CASE SmokeStep
  BY <1>3, StageRunsAlign, MovesAlign DEF SmokeStep
<1>4. CASE GateStartsSmoke
  BY <1>4, StartAligns DEF GateStartsSmoke
<1>5. QED
  BY <1>1, <1>2, <1>3, <1>4, OwnSmoke

LEMMA AlignStart == RaccoonInit => AlignInv
<1> SUFFICES ASSUME RaccoonInit
             PROVE  AlignInv
  OBVIOUS
<1>1. /\ cluster \in Clusters
      /\ smoke = [running |-> FALSE, test |-> "runtime-smoke", pos |-> 1, draft |-> None,
                  polls |-> 0, checks |-> << >>, seen |-> None]
  BY DEF RaccoonInit, SmokeInit, IdleSmoke
<1>2. ClusterShape(cluster)
  BY <1>1, ClusterStart
<1>3. HeldAtOneMoment
  BY <1>1 DEF HeldAtOneMoment, AlignmentPassed
<1>4. QED
  BY <1>1, <1>2, <1>3 DEF AlignInv

\* However the two processes fetch, load and log while other operators activate,
\* an alignment that passed compared a generation the consumer had logged last
\* when the emulator had fetched it.
THEOREM AlignmentIsHeld == RaccoonSpec => []HeldAtOneMoment
<1>1. RaccoonInit => AlignInv
  BY AlignStart
<1>2. SmokeInv /\ AlignInv /\ [RaccoonNext]_raccoonVars => AlignInv'
  BY AlignNext
<1>3. AlignInv => HeldAtOneMoment
  BY DEF AlignInv
<1>4. QED
  BY <1>1, <1>2, <1>3, SmokeInvariant, PTL DEF RaccoonSpec

-----------------------------------------------------------------------------
(* Finite sets *)

\* What is part of a finite set is finite.
LEMMA FinitePart ==
  ASSUME NEW S, IsFiniteSet(S), NEW T, T \subseteq S
  PROVE  IsFiniteSet(T)
BY FS_Subset

\* What a function takes the elements of a finite set to.
LEMMA FiniteImage ==
  ASSUME NEW S, IsFiniteSet(S), NEW f, DOMAIN f = S, NEW T,
         \A y \in T : \E x \in S : y = f[x]
  PROVE  IsFiniteSet(T)
<1> DEFINE R == {f[x] : x \in S}
           g == [x \in S |-> f[x]]
<1>1. g \in Surjection(S, R)
  BY DEF Surjection
<1>2. IsFiniteSet(R)
  BY <1>1, FS_Surjection
<1>3. T \subseteq R
  OBVIOUS
<1>4. QED
  BY <1>2, <1>3, FinitePart

\* What finitely many finite sets hold between them.
LEMMA FiniteCover ==
  ASSUME NEW S, IsFiniteSet(S), NEW f, DOMAIN f = S, \A x \in S : IsFiniteSet(f[x]),
         NEW T, \A y \in T : \E x \in S : y \in f[x]
  PROVE  IsFiniteSet(T)
<1>1. PICK n \in Nat : ExistsSurjection(1 .. n, S)
  BY FS_NatSurjection
<1>2. PICK g \in Surjection(1 .. n, S) : TRUE
  BY <1>1 DEF ExistsSurjection
<1>3. /\ \A i \in 1 .. n : g[i] \in S
      /\ \A x \in S : \E i \in 1 .. n : x = g[i]
  BY <1>2 DEF Surjection
<1> DEFINE U(k) == UNION {f[g[i]] : i \in 1 .. k}
           K == {k \in Nat : k <= n => IsFiniteSet(U(k))}
<1>4. 0 \in K
  <2>1. U(0) = {}
    OBVIOUS
  <2> HIDE DEF U
  <2>2. QED
    BY <2>1, FS_EmptySet
<1>5. ASSUME NEW k \in Nat, k \in K PROVE k + 1 \in K
  <2> SUFFICES ASSUME k + 1 <= n
               PROVE  IsFiniteSet(U(k + 1))
    OBVIOUS
  <2>1. IsFiniteSet(U(k)) /\ g[k + 1] \in S
    BY <1>3, <1>5
  <2>2. IsFiniteSet(U(k) \cup f[g[k + 1]])
    <3> HIDE DEF U
    <3>1. QED
      BY <2>1, FS_Union
  <2>3. U(k + 1) \subseteq U(k) \cup f[g[k + 1]]
    <3>1. \A i \in 1 .. k + 1 : i \in 1 .. k \/ i = k + 1
      OBVIOUS
    <3>2. QED
      BY <3>1
  <2> HIDE DEF U
  <2>4. QED
    BY <2>2, <2>3, FinitePart
<1>6. Nat \subseteq K
  <2> HIDE DEF K
  <2>1. QED
    BY <1>4, <1>5, SetInduction
<1>7. IsFiniteSet(U(n))
  <2>1. n \in K
    BY <1>6
  <2> HIDE DEF U
  <2>2. QED
    BY <2>1
<1>8. T \subseteq U(n)
  BY <1>3
<1> HIDE DEF U
<1>9. QED
  BY <1>7, <1>8, FinitePart

\* Pairs from two finite sets.
LEMMA FinitePairs ==
  ASSUME NEW S, IsFiniteSet(S), NEW R, IsFiniteSet(R), NEW T, T \subseteq S \X R
  PROVE  IsFiniteSet(T)
<1> DEFINE f == [x \in S |-> {<<x, y>> : y \in R}]
<1>1. ASSUME NEW x \in S PROVE IsFiniteSet(f[x])
  <2> DEFINE g == [y \in R |-> <<x, y>>]
  <2>1. DOMAIN g = R /\ \A z \in f[x] : \E y \in R : z = g[y]
    OBVIOUS
  <2> HIDE DEF f, g
  <2>2. QED
    BY <2>1, FiniteImage
<1>2. DOMAIN f = S /\ \A z \in T : \E x \in S : z \in f[x]
  OBVIOUS
<1> HIDE DEF f
<1>3. QED
  BY <1>1, <1>2, FiniteCover

\* Sets that are written down.
LEMMA FiniteLists ==
  ASSUME NEW a, NEW b, NEW c, NEW d, NEW e, NEW f, NEW g
  PROVE  /\ IsFiniteSet({})
         /\ IsFiniteSet({a})
         /\ IsFiniteSet({a, b})
         /\ IsFiniteSet({a, b, c})
         /\ IsFiniteSet({a, b, c, d})
         /\ IsFiniteSet({a, b, c, d, e})
         /\ IsFiniteSet({a, b, c, d, e, f})
         /\ IsFiniteSet({a, b, c, d, e, f, g})
<1>1. IsFiniteSet({}) /\ IsFiniteSet({a})
  BY FS_EmptySet, FS_Singleton
<1>2. IsFiniteSet({a, b})
  <2>1. {a, b} = {a} \cup {b}
    OBVIOUS
  <2> DEFINE S == {a}
  <2>2. IsFiniteSet(S)
    BY <1>1
  <2> HIDE DEF S
  <2>3. IsFiniteSet(S \cup {b})
    BY <2>2, FS_AddElement
  <2>4. QED
    BY <2>1, <2>3 DEF S
<1>3. IsFiniteSet({a, b, c})
  <2>1. {a, b, c} = {a, b} \cup {c}
    OBVIOUS
  <2> DEFINE S == {a, b}
  <2>2. IsFiniteSet(S)
    BY <1>2
  <2> HIDE DEF S
  <2>3. IsFiniteSet(S \cup {c})
    BY <2>2, FS_AddElement
  <2>4. QED
    BY <2>1, <2>3 DEF S
<1>4. IsFiniteSet({a, b, c, d})
  <2>1. {a, b, c, d} = {a, b, c} \cup {d}
    OBVIOUS
  <2> DEFINE S == {a, b, c}
  <2>2. IsFiniteSet(S)
    BY <1>3
  <2> HIDE DEF S
  <2>3. IsFiniteSet(S \cup {d})
    BY <2>2, FS_AddElement
  <2>4. QED
    BY <2>1, <2>3 DEF S
<1>5. IsFiniteSet({a, b, c, d, e})
  <2>1. {a, b, c, d, e} = {a, b, c, d} \cup {e}
    OBVIOUS
  <2> DEFINE S == {a, b, c, d}
  <2>2. IsFiniteSet(S)
    BY <1>4
  <2> HIDE DEF S
  <2>3. IsFiniteSet(S \cup {e})
    BY <2>2, FS_AddElement
  <2>4. QED
    BY <2>1, <2>3 DEF S
<1>6. IsFiniteSet({a, b, c, d, e, f})
  <2>1. {a, b, c, d, e, f} = {a, b, c, d, e} \cup {f}
    OBVIOUS
  <2> DEFINE S == {a, b, c, d, e}
  <2>2. IsFiniteSet(S)
    BY <1>5
  <2> HIDE DEF S
  <2>3. IsFiniteSet(S \cup {f})
    BY <2>2, FS_AddElement
  <2>4. QED
    BY <2>1, <2>3 DEF S
<1>7. IsFiniteSet({a, b, c, d, e, f, g})
  <2>1. {a, b, c, d, e, f, g} = {a, b, c, d, e, f} \cup {g}
    OBVIOUS
  <2> DEFINE S == {a, b, c, d, e, f}
  <2>2. IsFiniteSet(S)
    BY <1>6
  <2> HIDE DEF S
  <2>3. IsFiniteSet(S \cup {g})
    BY <2>2, FS_AddElement
  <2>4. QED
    BY <2>1, <2>3 DEF S
<1>8. QED
  BY <1>1, <1>2, <1>3, <1>4, <1>5, <1>6, <1>7

-----------------------------------------------------------------------------
(* Checks and lists of them *)

\* What an analyzer adds to its report: a check of some findings, or a skip.
IsCheck(c) ==
  \E name, errors, warnings :
    c \in {FromFindings(name, errors, warnings), PassCheck(name, warnings), SkipCheck(name)}

\* The constructors of checks make checks.
LEMMA ChecksAreChecks ==
  ASSUME NEW name, NEW errors, NEW warnings
  PROVE  /\ IsCheck(FromFindings(name, errors, warnings))
         /\ IsCheck(PassCheck(name, warnings))
         /\ IsCheck(SkipCheck(name))
         /\ IsCheck(FindsAll(name, errors, warnings))
BY DEF IsCheck, FindsAll

\* A check of finitely many findings that neither failed nor would if its
\* warnings counted found nothing.
LEMMA NothingFound ==
  ASSUME NEW errors, NEW warnings, IsFiniteSet(errors), IsFiniteSet(warnings),
         ~(Cardinality(errors) > 0), ~(Cardinality(warnings) > 0)
  PROVE  errors = {} /\ warnings = {}
<1>1. Cardinality(errors) \in Nat /\ Cardinality(warnings) \in Nat
  BY FS_CardinalityType
<1>2. Cardinality(errors) = 0 /\ Cardinality(warnings) = 0
  BY <1>1
<1>3. QED
  BY <1>2, FS_EmptySet

CheckList(s) == s \in Seq(ToSet(s)) /\ \A i \in 1 .. Len(s) : IsCheck(s[i])

\* A list of checks: a length, and a check at each position.
LEMMA ListOfChecks ==
  ASSUME NEW n \in Nat, NEW s, s = [i \in 1 .. n |-> s[i]], \A i \in 1 .. n : IsCheck(s[i])
  PROVE  CheckList(s) /\ Len(s) = n
<1>1. \A i \in 1 .. n : s[i] \in ToSet(s)
  BY DEF ToSet
<1>2. s \in [1 .. n -> ToSet(s)]
  BY <1>1
<1>3. s \in Seq(ToSet(s)) /\ Len(s) = n
  BY <1>2
<1>4. QED
  BY <1>3 DEF CheckList

\* A list of checks behind another is one.
LEMMA JoinOfChecks ==
  ASSUME NEW s, NEW t, CheckList(s), CheckList(t)
  PROVE  /\ CheckList(s \o t)
         /\ ToSet(s) \subseteq ToSet(s \o t) /\ ToSet(t) \subseteq ToSet(s \o t)
<1> DEFINE S == ToSet(s) \cup ToSet(t)
<1>1. s \in Seq(S) /\ t \in Seq(S)
  BY DEF CheckList
<1> HIDE DEF S
<1>2. /\ s \o t \in Seq(S)
      /\ Len(s \o t) = Len(s) + Len(t)
      /\ \A i \in 1 .. Len(s) + Len(t) :
           (s \o t)[i] = IF i <= Len(s) THEN s[i] ELSE t[i - Len(s)]
  BY <1>1, ConcatProperties
<1>3. Len(s) \in Nat /\ Len(t) \in Nat
  BY <1>1
<1> DEFINE u == s \o t
<1>4. u \in Seq(S) /\ Len(u) = Len(s) + Len(t)
  BY <1>2
<1>5. ASSUME NEW i \in 1 .. Len(s) PROVE u[i] = s[i] /\ i \in 1 .. Len(u)
  BY <1>2, <1>3
<1>6. ASSUME NEW i \in 1 .. Len(t) PROVE u[Len(s) + i] = t[i] /\ Len(s) + i \in 1 .. Len(u)
  <2>1. Len(s) + i \in 1 .. Len(s) + Len(t) /\ ~(Len(s) + i <= Len(s)) /\ (Len(s) + i) - Len(s) = i
    BY <1>3
  <2>2. QED
    BY <1>2, <2>1
<1>7. ASSUME NEW i \in 1 .. Len(u) PROVE IsCheck(u[i])
  <2>1. CASE i <= Len(s)
    <3>1. i \in 1 .. Len(s)
      BY <1>3, <2>1
    <3>2. QED
      BY <1>5, <3>1 DEF CheckList
  <2>2. CASE ~(i <= Len(s))
    <3>1. i - Len(s) \in 1 .. Len(t) /\ Len(s) + (i - Len(s)) = i
      BY <1>3, <1>4, <2>2
    <3>2. QED
      BY <1>6, <3>1 DEF CheckList
  <2>3. QED
    BY <2>1, <2>2
<1> HIDE DEF u
<1>8. DOMAIN u = 1 .. Len(u) /\ DOMAIN s = 1 .. Len(s) /\ DOMAIN t = 1 .. Len(t)
  BY <1>1, <1>4
<1>9. u = [i \in 1 .. Len(u) |-> u[i]] /\ Len(u) \in Nat
  BY <1>4
<1>10. CheckList(u)
  BY <1>7, <1>9, ListOfChecks
<1>11. ToSet(s) \subseteq ToSet(u) /\ ToSet(t) \subseteq ToSet(u)
  BY <1>5, <1>6, <1>8 DEF ToSet
<1>12. QED
  BY <1>10, <1>11 DEF u

\* The short lists of checks the analyzers build, and what they hold.
LEMMA ShortLists ==
  ASSUME NEW a, NEW b, NEW c, NEW d, NEW e, NEW f, NEW g
  PROVE  /\ CheckList(<< >>)
         /\ IsCheck(a) => CheckList(<<a>>) /\ a \in ToSet(<<a>>)
         /\ IsCheck(a) /\ IsCheck(b) => CheckList(<<a, b>>) /\ {a, b} \subseteq ToSet(<<a, b>>)
         /\ IsCheck(a) /\ IsCheck(b) /\ IsCheck(c) =>
              CheckList(<<a, b, c>>) /\ {a, b, c} \subseteq ToSet(<<a, b, c>>)
         /\ IsCheck(a) /\ IsCheck(b) /\ IsCheck(c) /\ IsCheck(d) /\ IsCheck(e) /\ IsCheck(f) =>
              CheckList(<<a, b, c, d, e, f>>)
              /\ {a, b, c, d, e, f} \subseteq ToSet(<<a, b, c, d, e, f>>)
         /\ IsCheck(a) /\ IsCheck(b) /\ IsCheck(c) /\ IsCheck(d) /\ IsCheck(e) /\ IsCheck(f) /\ IsCheck(g) =>
              CheckList(<<a, b, c, d, e, f, g>>)
              /\ {a, b, c, d, e, f, g} \subseteq ToSet(<<a, b, c, d, e, f, g>>)
<1>1. CheckList(<< >>)
  <2> DEFINE s == << >>
  <2>1. s = [i \in 1 .. 0 |-> s[i]] /\ \A i \in 1 .. 0 : IsCheck(s[i])
    OBVIOUS
  <2> HIDE DEF s
  <2>2. CheckList(s)
    BY <2>1, ListOfChecks
  <2>3. QED
    BY <2>2 DEF s
<1>2. ASSUME IsCheck(a)
      PROVE  CheckList(<<a>>) /\ a \in ToSet(<<a>>)
  <2> DEFINE s == <<a>>
  <2>1. s = [i \in 1 .. 1 |-> s[i]] /\ s[1] = a /\ DOMAIN s = 1 .. 1
    OBVIOUS
  <2> HIDE DEF s
  <2>2. \A i \in 1 .. 1 : i = 1
    OBVIOUS
  <2>3. \A i \in 1 .. 1 : IsCheck(s[i])
    BY <1>2, <2>1, <2>2
  <2>4. CheckList(s)
    BY <2>1, <2>3, ListOfChecks
  <2>5. a \in ToSet(s)
    BY <2>1 DEF ToSet
  <2>6. QED
    BY <2>4, <2>5 DEF s
<1>3. ASSUME IsCheck(a), IsCheck(b)
      PROVE  CheckList(<<a, b>>) /\ {a, b} \subseteq ToSet(<<a, b>>)
  <2> DEFINE s == <<a, b>>
  <2>1. s = [i \in 1 .. 2 |-> s[i]] /\ s[1] = a /\ s[2] = b /\ DOMAIN s = 1 .. 2
    OBVIOUS
  <2> HIDE DEF s
  <2>2. \A i \in 1 .. 2 : i = 1 \/ i = 2
    OBVIOUS
  <2>3. \A i \in 1 .. 2 : IsCheck(s[i])
    BY <1>3, <2>1, <2>2
  <2>4. CheckList(s)
    BY <2>1, <2>3, ListOfChecks
  <2>5. {a, b} \subseteq ToSet(s)
    BY <2>1 DEF ToSet
  <2>6. QED
    BY <2>4, <2>5 DEF s
<1>4. ASSUME IsCheck(a), IsCheck(b), IsCheck(c)
      PROVE  CheckList(<<a, b, c>>) /\ {a, b, c} \subseteq ToSet(<<a, b, c>>)
  <2> DEFINE s == <<a, b, c>>
  <2>1. s = [i \in 1 .. 3 |-> s[i]] /\ s[1] = a /\ s[2] = b /\ s[3] = c /\ DOMAIN s = 1 .. 3
    OBVIOUS
  <2> HIDE DEF s
  <2>2. \A i \in 1 .. 3 : i = 1 \/ i = 2 \/ i = 3
    OBVIOUS
  <2>3. \A i \in 1 .. 3 : IsCheck(s[i])
    BY <1>4, <2>1, <2>2
  <2>4. CheckList(s)
    BY <2>1, <2>3, ListOfChecks
  <2>5. {a, b, c} \subseteq ToSet(s)
    BY <2>1 DEF ToSet
  <2>6. QED
    BY <2>4, <2>5 DEF s
<1>5. ASSUME IsCheck(a), IsCheck(b), IsCheck(c), IsCheck(d), IsCheck(e), IsCheck(f)
      PROVE  CheckList(<<a, b, c, d, e, f>>)
             /\ {a, b, c, d, e, f} \subseteq ToSet(<<a, b, c, d, e, f>>)
  <2> DEFINE s == <<a, b, c, d, e, f>>
  <2>1. s = [i \in 1 .. 6 |-> s[i]] /\ DOMAIN s = 1 .. 6
        /\ s[1] = a /\ s[2] = b /\ s[3] = c /\ s[4] = d /\ s[5] = e /\ s[6] = f
    OBVIOUS
  <2> HIDE DEF s
  <2>2. \A i \in 1 .. 6 : i = 1 \/ i = 2 \/ i = 3 \/ i = 4 \/ i = 5 \/ i = 6
    OBVIOUS
  <2>3. \A i \in 1 .. 6 : IsCheck(s[i])
    BY <1>5, <2>1, <2>2
  <2>4. CheckList(s)
    BY <2>1, <2>3, ListOfChecks
  <2>5. {a, b, c, d, e, f} \subseteq ToSet(s)
    BY <2>1 DEF ToSet
  <2>6. QED
    BY <2>4, <2>5 DEF s
<1>6. ASSUME IsCheck(a), IsCheck(b), IsCheck(c), IsCheck(d), IsCheck(e), IsCheck(f), IsCheck(g)
      PROVE  CheckList(<<a, b, c, d, e, f, g>>)
             /\ {a, b, c, d, e, f, g} \subseteq ToSet(<<a, b, c, d, e, f, g>>)
  <2> DEFINE s == <<a, b, c, d, e, f, g>>
  <2>1. s = [i \in 1 .. 7 |-> s[i]] /\ DOMAIN s = 1 .. 7
        /\ s[1] = a /\ s[2] = b /\ s[3] = c /\ s[4] = d /\ s[5] = e /\ s[6] = f /\ s[7] = g
    OBVIOUS
  <2> HIDE DEF s
  <2>2. \A i \in 1 .. 7 : i = 1 \/ i = 2 \/ i = 3 \/ i = 4 \/ i = 5 \/ i = 6 \/ i = 7
    OBVIOUS
  <2>3. \A i \in 1 .. 7 : IsCheck(s[i])
    BY <1>6, <2>1, <2>2
  <2>4. CheckList(s)
    BY <2>1, <2>3, ListOfChecks
  <2>5. {a, b, c, d, e, f, g} \subseteq ToSet(s)
    BY <2>1 DEF ToSet
  <2>6. QED
    BY <2>4, <2>5 DEF s
<1>7. QED
  BY <1>1, <1>2, <1>3, <1>4, <1>5, <1>6

-----------------------------------------------------------------------------
(* What the six reports are made of *)

\* A report of a list of checks, which has these among them.
ReportWith(report, wanted) ==
  \E checks : report = ReportOf(checks) /\ CheckList(checks) /\ wanted \subseteq ToSet(checks)

\* doctor reports whether compose file, internal/ and configurations are there.
LEMMA DoctorChecks ==
  ASSUME NEW p
  PROVE  ReportWith(DoctorReport(p),
           {Finds("compose-file", "warning", "compose" \notin p.entries),
            Finds("internal", "warning", "internal" \notin p.entries),
            Finds("config-files", "warning", "configs" \notin p.entries \/ DOMAIN p.configs = {})})
<1> DEFINE a == Finds("project-root", "error", "go.work" \notin p.entries)
           dir == <<"internal", "deploy", "tests", "tools">>
           b == [i \in 1 .. 4 |-> LET d == dir[i] IN Finds(d, "warning", d \notin p.entries)]
           c == Finds("compose-file", "warning", "compose" \notin p.entries)
           d == Finds("config-files", "warning", "configs" \notin p.entries \/ DOMAIN p.configs = {})
           e == Finds("internal", "warning", "internal" \notin p.entries)
<1>1. DoctorReport(p) = ReportOf(<<a>> \o b \o <<c, d>>)
  BY DEF DoctorReport
<1>2. IsCheck(a) /\ IsCheck(c) /\ IsCheck(d) /\ \A i \in 1 .. 4 : IsCheck(b[i])
  BY ChecksAreChecks DEF Finds
<1>3. b = [i \in 1 .. 4 |-> b[i]] /\ b[1] = e /\ 1 \in DOMAIN b
  OBVIOUS
<1> HIDE DEF a, b, c, d, e
<1>4. e \in ToSet(b) /\ CheckList(b)
  <2>1. e \in ToSet(b)
    BY <1>3 DEF ToSet
  <2>2. QED
    BY <1>2, <1>3, <2>1, ListOfChecks
<1>5. CheckList(<<a>>) /\ CheckList(<<c, d>>) /\ {c, d} \subseteq ToSet(<<c, d>>)
  BY <1>2, ShortLists
<1>6. CheckList(<<a>> \o b) /\ ToSet(b) \subseteq ToSet(<<a>> \o b)
  BY <1>4, <1>5, JoinOfChecks
<1>7. /\ CheckList(<<a>> \o b \o <<c, d>>)
      /\ ToSet(<<a>> \o b) \subseteq ToSet(<<a>> \o b \o <<c, d>>)
      /\ ToSet(<<c, d>>) \subseteq ToSet(<<a>> \o b \o <<c, d>>)
  BY <1>5, <1>6, JoinOfChecks
<1>8. {c, e, d} \subseteq ToSet(<<a>> \o b \o <<c, d>>)
  BY <1>4, <1>5, <1>6, <1>7
<1>9. QED
  BY <1>1, <1>7, <1>8 DEF ReportWith, c, d, e

\* The checks of topology-doctor on a project that has all it reads.
TopologyOf(p) ==
  LET configs  == ParsedConfigs(p)
      services == ParseCompose(p.compose)
      st       == ScanSource(p.source)
  IN  {CheckConfigs(configs), CheckCompose(services), CheckComposeDependencies(services),
       CheckSourceStreams(st), CheckSourceDurables(st),
       CheckKafkaBrokers(configs, services, p.order), CheckNatsUrls(configs, p.order)}

\* A project that has all topology-doctor reads, and what is there and cannot be.
Complete(p) == {"configs", "compose", "internal"} \subseteq p.entries
Readable(p) == "configs" \in p.entries /\ Parses(p) /\ Scans(p)
Unparsed(p) == "compose" \in p.entries /\ ~Parses(p)
Unscanned(p) == "internal" \in p.entries /\ ~Scans(p)

\* topology-doctor reports its five comparisons, or what it cannot read.
TopologyTells(p) ==
  (IF Readable(p) THEN TopologyOf(p) ELSE {})
  \cup (IF Unparsed(p) THEN {Finds("compose-parse", "error", TRUE)} ELSE {})
  \cup (IF Unscanned(p) THEN {Finds("source-scan", "error", TRUE)} ELSE {})

LEMMA TopologyChecks ==
  ASSUME NEW p
  PROVE  ReportWith(TopologyReport(p), IF "configs" \in p.entries THEN TopologyTells(p) ELSE {})
<1> DEFINE configs  == ParsedConfigs(p)
           composed == Parses(p)
           scanned  == Scans(p)
           services == IF composed THEN ParseCompose(p.compose) ELSE << >>
           st == IF scanned THEN ScanSource(p.source)
                 ELSE [streams |-> << >>, durables |-> << >>, subjects |-> {}]
           x1 == PassCheck("configs-dir-exists", 0)
           x2 == CheckConfigs(configs)
           y1 == CheckCompose(services)
           y2 == CheckComposeDependencies(services)
           y3 == CheckComposeRuntimeContract(services)
           y4 == Finds("compose-exists", "warning", TRUE)
           y5 == Finds("compose-parse", "error", TRUE)
           z1 == CheckSourceStreams(st)
           z2 == CheckSourceDurables(st)
           z3 == CheckSourceSubjects(st)
           z4 == Finds("source-scan", "error", TRUE)
           w1 == CheckKafkaBrokers(configs, services, p.order)
           w2 == CheckNatsUrls(configs, p.order)
           w3 == CheckBootstrapUrls(configs, services, p.order)
           w4 == CheckReconcile(configs)
           w5 == IF scanned THEN CheckStreamSubjects(st) ELSE SkipCheck("stream-subject-alignment")
           w6 == IF scanned THEN CheckDurableStreams(st) ELSE SkipCheck("durable-stream-alignment")
           w7 == CheckPipeline(configs, scanned, st)
           w0 == Finds("configs-dir-exists", "error", TRUE)
           y == IF composed THEN <<y1, y2, y3>> ELSE IF "compose" \in p.entries THEN <<y5>> ELSE <<y4>>
           z == IF scanned THEN <<z1, z2, z3>> ELSE IF "internal" \in p.entries THEN <<z4>> ELSE << >>
           w == <<w1, w2, w3, w4, w5, w6, w7>>
<1>1. TopologyReport(p) = IF "configs" \notin p.entries THEN ReportOf(<<w0>>)
                          ELSE ReportOf(<<x1, x2>> \o y \o z \o w)
  BY DEF TopologyReport
<1>2. /\ IsCheck(x1) /\ IsCheck(x2) /\ IsCheck(y1) /\ IsCheck(y2) /\ IsCheck(y3) /\ IsCheck(y4)
      /\ IsCheck(w0) /\ IsCheck(y5)
  BY ChecksAreChecks DEF CheckConfigs, CheckCompose, CheckComposeDependencies,
     CheckComposeRuntimeContract, Finds
<1>3. IsCheck(z1) /\ IsCheck(z2) /\ IsCheck(z3) /\ IsCheck(z4)
  BY ChecksAreChecks DEF CheckSourceStreams, CheckSourceDurables, CheckSourceSubjects, Finds
<1>4. IsCheck(w1) /\ IsCheck(w2) /\ IsCheck(w3) /\ IsCheck(w4)
  BY ChecksAreChecks DEF CheckKafkaBrokers, CheckNatsUrls, CheckBootstrapUrls, CheckReconcile, Finds
<1>5. IsCheck(w5) /\ IsCheck(w6) /\ IsCheck(w7)
  BY ChecksAreChecks DEF CheckStreamSubjects, CheckDurableStreams, CheckPipeline
<1>6. /\ Readable(p) => composed /\ scanned /\ TopologyOf(p) = {x2, y1, y2, z1, z2, w1, w2}
      /\ TopologyTells(p) = (IF Readable(p) THEN TopologyOf(p) ELSE {})
           \cup (IF Unparsed(p) THEN {y5} ELSE {}) \cup (IF Unscanned(p) THEN {z4} ELSE {})
  BY DEF TopologyOf, Readable, TopologyTells
<1> HIDE DEF configs, services, st, x1, x2, y1, y2, y3, y4, y5, z1, z2, z3, z4, w0, w1, w2, w3, w4, w5, w6, w7
<1>7. CheckList(<<w0>>) /\ CheckList(<<x1, x2>>) /\ {x1, x2} \subseteq ToSet(<<x1, x2>>)
  BY <1>2, ShortLists
<1>8. /\ CheckList(y) /\ (composed => {y1, y2, y3} \subseteq ToSet(y))
      /\ Unparsed(p) => y5 \in ToSet(y)
  BY <1>2, ShortLists DEF Unparsed
<1>9. /\ CheckList(z) /\ (scanned => {z1, z2, z3} \subseteq ToSet(z))
      /\ Unscanned(p) => z4 \in ToSet(z)
  BY <1>3, ShortLists DEF Unscanned
<1>10. CheckList(w) /\ {w1, w2, w3, w4, w5, w6, w7} \subseteq ToSet(w)
  BY <1>4, <1>5, ShortLists
<1> DEFINE x == <<x1, x2>>
<1> HIDE DEF y, z, w, x
<1>11. CheckList(x \o y) /\ ToSet(x) \subseteq ToSet(x \o y) /\ ToSet(y) \subseteq ToSet(x \o y)
  BY <1>7, <1>8, JoinOfChecks DEF x
<1>12. /\ CheckList(x \o y \o z) /\ ToSet(x \o y) \subseteq ToSet(x \o y \o z)
       /\ ToSet(z) \subseteq ToSet(x \o y \o z)
  BY <1>9, <1>11, JoinOfChecks
<1>13. /\ CheckList(x \o y \o z \o w) /\ ToSet(x \o y \o z) \subseteq ToSet(x \o y \o z \o w)
       /\ ToSet(w) \subseteq ToSet(x \o y \o z \o w)
  BY <1>10, <1>12, JoinOfChecks
<1>14. CASE "configs" \notin p.entries
  BY <1>1, <1>7, <1>14 DEF ReportWith
<1>15. CASE "configs" \in p.entries
  <2>1. TopologyReport(p) = ReportOf(x \o y \o z \o w)
    BY <1>1, <1>15 DEF x
  <2>2. /\ composed /\ scanned => {x2, y1, y2, z1, z2, w1, w2} \subseteq ToSet(x \o y \o z \o w)
        /\ Unparsed(p) => y5 \in ToSet(x \o y \o z \o w)
        /\ Unscanned(p) => z4 \in ToSet(x \o y \o z \o w)
    BY <1>7, <1>8, <1>9, <1>10, <1>11, <1>12, <1>13 DEF x
  <2>3. TopologyTells(p) \subseteq ToSet(x \o y \o z \o w)
    <3> HIDE DEF composed, scanned
    <3>1. QED
      BY <1>6, <2>2
  <2>4. QED
    BY <1>13, <1>15, <2>1, <2>3 DEF ReportWith
<1>16. QED
  BY <1>14, <1>15

\* The fixtures runtime-bindings reads.
FixturesRead(p) == IF "http" \in p.entries \ p.unreadable THEN Fixtures(p) ELSE {}

\* runtime-bindings reports its checks of the source, or that it could not scan it.
BindingsTells(p) ==
  {IF SourceReadable(p) /\ "config" \notin p.unreadable
   THEN CheckBindingDrift(ScanBindings(p), FixturesRead(p))
   ELSE FromFindings("source-scan", 1, 0)}

LEMMA BindingsChecks ==
  ASSUME NEW p
  PROVE  ReportWith(BindingsReport(p), IF "internal" \in p.entries THEN BindingsTells(p) ELSE {})
<1> DEFINE scanned == SourceReadable(p) /\ "config" \notin p.unreadable
           src == ScanBindings(p)
           bindings == FixturesRead(p)
           Check(name, check) == IF scanned THEN check ELSE SkipCheck(name)
           x4 == FromFindings("source-scan", 1, 0)
           x0 == FromFindings("internal-dir", 1, 0)
           x1 == CheckSubjectPattern(src)
           x2 == CheckRouting(src)
           x3 == CheckLifecycle(src)
           y1 == PassCheck("config-bindings", 0)
           z1 == CheckFixtures(bindings)
           w1 == CheckResolved(src, IF scanned THEN bindings ELSE {})
           w2 == Check("topic-subject-mapping", CheckTopicSubjects(src, bindings))
           w3 == Check("consumer-coverage",
                       CheckEntries("consumer-coverage", p, {"bootstrap-client", "topology-builder"}))
           w4 == Check("validator-coverage",
                       CheckEntries("validator-coverage", p, {"runtime-cache", "validation-worker"}))
           w5 == CheckScopes(bindings)
           w6 == CheckEntries("bootstrap-runtime-contract", p, BootstrapLines)
           w7 == Check("drift-detection", CheckBindingDrift(src, bindings))
           x == IF scanned THEN <<x1, x2, x3>> ELSE <<x4>>
           y == IF "configs" \in p.entries THEN <<y1>> ELSE << >>
           z == IF "http" \in p.entries \ p.unreadable THEN <<z1>> ELSE << >>
           w == <<w1, w2, w3, w4, w5, w6, w7>>
<1>1. BindingsReport(p) = IF "internal" \notin p.entries THEN ReportOf(<<x0>>)
                          ELSE ReportOf(x \o y \o z \o w)
  BY DEF BindingsReport, FixturesRead
<1>2. IsCheck(x0) /\ IsCheck(x4) /\ IsCheck(x1) /\ IsCheck(x2) /\ IsCheck(x3) /\ IsCheck(y1) /\ IsCheck(z1)
  BY ChecksAreChecks DEF CheckSubjectPattern, CheckRouting, CheckLifecycle, CheckFixtures
<1>3. IsCheck(w1) /\ IsCheck(w2) /\ IsCheck(w3) /\ IsCheck(w4) /\ IsCheck(w5) /\ IsCheck(w6) /\ IsCheck(w7)
  BY ChecksAreChecks DEF CheckResolved, CheckTopicSubjects, CheckEntries, CheckScopes, CheckBindingDrift
<1>12. BindingsTells(p) = IF scanned THEN {w7} ELSE {x4}
  BY DEF BindingsTells
<1> HIDE DEF x0, x1, x2, x3, x4, y1, z1, w1, w2, w3, w4, w5, w6, w7, Check
<1>4. /\ CheckList(<<x0>>) /\ CheckList(x) /\ CheckList(y) /\ CheckList(z)
      /\ ~scanned => x4 \in ToSet(x)
  BY <1>2, ShortLists
<1>5. CheckList(w) /\ {w1, w2, w3, w4, w5, w6, w7} \subseteq ToSet(w)
  BY <1>3, ShortLists
<1> HIDE DEF y, z, w, x
<1>6. CheckList(x \o y) /\ ToSet(x) \subseteq ToSet(x \o y)
  BY <1>4, JoinOfChecks
<1>7. CheckList(x \o y \o z) /\ ToSet(x \o y) \subseteq ToSet(x \o y \o z)
  BY <1>4, <1>6, JoinOfChecks
<1>8. /\ CheckList(x \o y \o z \o w) /\ ToSet(w) \subseteq ToSet(x \o y \o z \o w)
      /\ ToSet(x \o y \o z) \subseteq ToSet(x \o y \o z \o w)
  BY <1>5, <1>7, JoinOfChecks
<1>9. CASE "internal" \notin p.entries
  BY <1>1, <1>4, <1>9 DEF ReportWith
<1>10. CASE "internal" \in p.entries
  <2>1. BindingsReport(p) = ReportOf(x \o y \o z \o w)
    BY <1>1, <1>10
  <2>2. BindingsTells(p) \subseteq ToSet(x \o y \o z \o w)
    <3> HIDE DEF scanned
    <3>1. QED
      BY <1>4, <1>5, <1>6, <1>7, <1>8, <1>12
  <2>3. QED
    BY <1>8, <1>10, <2>1, <2>2 DEF ReportWith
<1>11. QED
  BY <1>9, <1>10

\* contract-audit builds a report of checks.
LEMMA ContractChecks == ASSUME NEW p PROVE ReportWith(ContractReport(p), {})
<1> DEFINE r == p.registry
           x0 == FromFindings("internal-dir", 1, 0)
           s == <<CheckControls(r), CheckEvents(r), CheckConvention(r), CheckSymmetry(r),
                  CheckQueueGroups(r), CheckStreamCoverage(r), CheckFilters(r),
                  CheckEnvelope(p.envelope), CheckCodec(p.codec),
                  CheckMessage(p.message), CheckDefaults(p.message),
                  CheckMetadata(p.events), CheckAlignment(r, p.events)>>
<1>1. ContractReport(p) = IF "internal" \notin p.entries THEN ReportOf(<<x0>>) ELSE ReportOf(s)
  BY DEF ContractReport
<1>2. /\ IsCheck(x0) /\ IsCheck(CheckControls(r)) /\ IsCheck(CheckEvents(r))
      /\ IsCheck(CheckConvention(r)) /\ IsCheck(CheckSymmetry(r)) /\ IsCheck(CheckQueueGroups(r))
  BY ChecksAreChecks DEF CheckControls, CheckEvents, CheckConvention, CheckSymmetry, CheckQueueGroups
<1>3. /\ IsCheck(CheckStreamCoverage(r)) /\ IsCheck(CheckFilters(r))
      /\ IsCheck(CheckEnvelope(p.envelope)) /\ IsCheck(CheckCodec(p.codec))
  BY ChecksAreChecks DEF CheckStreamCoverage, CheckFilters, CheckEnvelope, CheckCodec
<1>4. /\ IsCheck(CheckMessage(p.message)) /\ IsCheck(CheckDefaults(p.message))
      /\ IsCheck(CheckMetadata(p.events)) /\ IsCheck(CheckAlignment(r, p.events))
  BY ChecksAreChecks DEF CheckMessage, CheckDefaults, CheckMetadata, CheckAlignment
<1>5. /\ s = [i \in 1 .. 13 |-> s[i]]
      /\ s[1] = CheckControls(r) /\ s[2] = CheckEvents(r) /\ s[3] = CheckConvention(r)
      /\ s[4] = CheckSymmetry(r) /\ s[5] = CheckQueueGroups(r) /\ s[6] = CheckStreamCoverage(r)
      /\ s[7] = CheckFilters(r) /\ s[8] = CheckEnvelope(p.envelope) /\ s[9] = CheckCodec(p.codec)
      /\ s[10] = CheckMessage(p.message) /\ s[11] = CheckDefaults(p.message)
      /\ s[12] = CheckMetadata(p.events) /\ s[13] = CheckAlignment(r, p.events)
  OBVIOUS
<1> HIDE DEF s, x0
<1>6. \A i \in 1 .. 13 : IsCheck(s[i])
  <2>1. \A i \in 1 .. 13 : i = 1 \/ i = 2 \/ i = 3 \/ i = 4 \/ i = 5 \/ i = 6 \/ i = 7 \/ i = 8
                           \/ i = 9 \/ i = 10 \/ i = 11 \/ i = 12 \/ i = 13
    OBVIOUS
  <2>2. QED
    BY <1>2, <1>3, <1>4, <1>5, <2>1
<1>7. CheckList(s)
  BY <1>5, <1>6, ListOfChecks
<1>8. CheckList(<<x0>>)
  BY <1>2, ShortLists
<1>9. QED
  BY <1>1, <1>7, <1>8 DEF ReportWith

\* arch-guard checks the imports between layers when there is an internal/.
LEMMA ArchChecks ==
  ASSUME NEW p
  PROVE  ReportWith(ArchReport(p),
           IF "internal" \in p.entries THEN {CheckLayerDeps(IndexFiles(p.gofiles))} ELSE {})
<1> DEFINE index == IndexFiles(p.gofiles)
           x0 == FindsAll("setup", {"internal"}, {})
           s == <<CheckLayerDeps(index), CheckDomainPurity(index),
                  CheckApplicationIsolation(index), CheckInterfacesIsolation(index),
                  CheckCmdBoundary(index), CheckToolingBoundary(p),
                  CheckNoCrossCmd(index), CheckDeployBoundary(p),
                  CheckPortLeaks(index), CheckDomainTypes(index),
                  CheckExportedSignatures(index)>>
<1>1. ArchReport(p) = IF "internal" \notin p.entries THEN ReportOf(<<x0>>) ELSE ReportOf(s)
  BY DEF ArchReport
<1> HIDE DEF index
<1>2. /\ IsCheck(x0) /\ IsCheck(CheckLayerDeps(index)) /\ IsCheck(CheckDomainPurity(index))
      /\ IsCheck(CheckApplicationIsolation(index)) /\ IsCheck(CheckInterfacesIsolation(index))
      /\ IsCheck(CheckCmdBoundary(index))
  BY ChecksAreChecks DEF CheckFiles, CheckLayerDeps, CheckDomainPurity, CheckApplicationIsolation,
     CheckInterfacesIsolation, CheckCmdBoundary
<1>3. /\ IsCheck(CheckToolingBoundary(p)) /\ IsCheck(CheckNoCrossCmd(index))
      /\ IsCheck(CheckDeployBoundary(p)) /\ IsCheck(CheckPortLeaks(index))
      /\ IsCheck(CheckDomainTypes(index)) /\ IsCheck(CheckExportedSignatures(index))
  BY ChecksAreChecks DEF CheckFiles, CheckToolingBoundary, CheckNoCrossCmd, CheckDeployBoundary,
     CheckPortLeaks, CheckDomainTypes, CheckExportedSignatures
<1>4. /\ s = [i \in 1 .. 11 |-> s[i]]
      /\ s[1] = CheckLayerDeps(index) /\ s[2] = CheckDomainPurity(index)
      /\ s[3] = CheckApplicationIsolation(index) /\ s[4] = CheckInterfacesIsolation(index)
      /\ s[5] = CheckCmdBoundary(index) /\ s[6] = CheckToolingBoundary(p)
      /\ s[7] = CheckNoCrossCmd(index) /\ s[8] = CheckDeployBoundary(p)
      /\ s[9] = CheckPortLeaks(index) /\ s[10] = CheckDomainTypes(index)
      /\ s[11] = CheckExportedSignatures(index)
  OBVIOUS
<1>5. 1 \in DOMAIN s
  OBVIOUS
<1> HIDE DEF s, x0
<1>6. \A i \in 1 .. 11 : IsCheck(s[i])
  <2>1. \A i \in 1 .. 11 : i = 1 \/ i = 2 \/ i = 3 \/ i = 4 \/ i = 5 \/ i = 6 \/ i = 7 \/ i = 8
                           \/ i = 9 \/ i = 10 \/ i = 11
    OBVIOUS
  <2>2. QED
    BY <1>2, <1>3, <1>4, <2>1
<1>7. CheckList(s)
  BY <1>4, <1>6, ListOfChecks
<1>8. CheckList(<<x0>>)
  BY <1>2, ShortLists
<1>9. {CheckLayerDeps(index)} \subseteq ToSet(s)
  BY <1>4, <1>5 DEF ToSet
<1>10. CASE "internal" \notin p.entries
  BY <1>1, <1>8, <1>10 DEF ReportWith
<1>11. CASE "internal" \in p.entries
  BY <1>1, <1>7, <1>9, <1>11 DEF ReportWith, index
<1>12. QED
  BY <1>10, <1>11

\* drift-detect builds a report of checks.
LEMMA DriftChecks == ASSUME NEW p PROVE ReportWith(DriftReport(p), {})
<1> DEFINE composed == Parses(p)
           scanned  == Scans(p)
           configs  == IF "configs" \in p.entries THEN ParsedConfigs(p) ELSE << >>
           services == IF composed THEN ParseCompose(p.compose) ELSE << >>
           st       == ScanSource(p.source)
           a == CheckConfigCompose(composed, configs, services)
           b == CheckConfigSource(scanned, st)
           c == CheckBindingTopology(scanned, st, IF scanned THEN ConfigBindings(p) ELSE {})
           d == CheckWorkflow(p)
           e == IF "internal" \in p.entries THEN CheckContractDomain(p)
                ELSE SkipCheck("contract-domain-drift")
           f == CheckComposeProfiles(composed, services)
<1>1. DriftReport(p) = ReportOf(<<a, b, c, d, e, f>>)
  BY DEF DriftReport
<1>2. IsCheck(a) /\ IsCheck(b) /\ IsCheck(c)
  BY ChecksAreChecks DEF CheckConfigCompose, CheckConfigSource, CheckBindingTopology
<1>3. IsCheck(d) /\ IsCheck(e) /\ IsCheck(f)
  BY ChecksAreChecks DEF CheckWorkflow, CheckContractDomain, CheckComposeProfiles
<1> HIDE DEF a, b, c, d, e, f
<1>4. CheckList(<<a, b, c, d, e, f>>)
  BY <1>2, <1>3, ShortLists
<1>5. QED
  BY <1>1, <1>4 DEF ReportWith

\* Each of the six reports is a list of checks.
LEMMA StaticReports ==
  ASSUME NEW p
  PROVE  /\ DOMAIN Results(p) = StaticStepNames
         /\ \A s \in StaticStepNames :
              \/ Results(p)[s] = Failed
              \/ \E report : Results(p)[s] = Ok(report) /\ ReportWith(report, {})
<1> DEFINE W == {DoctorReport(p), TopologyReport(p), ContractReport(p), BindingsReport(p),
                 ArchReport(p), DriftReport(p)}
<1>1. \A report \in W : ReportWith(report, {})
  <2>1. \A report, wanted : ReportWith(report, wanted) => ReportWith(report, {})
    BY DEF ReportWith
  <2>2. QED
    BY <2>1, DoctorChecks, TopologyChecks, ContractChecks, BindingsChecks, ArchChecks, DriftChecks
<1>2. StaticStepNames = {"doctor", "topology-doctor", "contract-audit", "runtime-bindings",
                         "arch-guard", "drift-detect"}
  <2>1. \A i : i \in 1 .. 6 <=> i = 1 \/ i = 2 \/ i = 3 \/ i = 4 \/ i = 5 \/ i = 6
    OBVIOUS
  <2>2. DOMAIN StaticSteps = 1 .. 6
    BY DEF StaticSteps
  <2>3. StaticStepNames = {StaticSteps[1], StaticSteps[2], StaticSteps[3], StaticSteps[4],
                           StaticSteps[5], StaticSteps[6]}
    BY <2>1, <2>2 DEF StaticStepNames
  <2>4. QED
    BY <2>3 DEF StaticSteps
<1>3. /\ Results(p)["doctor"] \in {Failed, Ok(DoctorReport(p))}
      /\ Results(p)["topology-doctor"] \in {Failed, Ok(TopologyReport(p))}
      /\ Results(p)["contract-audit"] \in {Failed, Ok(ContractReport(p))}
      /\ Results(p)["runtime-bindings"] \in {Failed, Ok(BindingsReport(p))}
      /\ Results(p)["arch-guard"] \in {Failed, Ok(ArchReport(p))}
      /\ Results(p)["drift-detect"] \in {Failed, Ok(DriftReport(p))}
  BY <1>2 DEF Results
<1> HIDE DEF W
<1>4. ASSUME NEW s \in StaticStepNames
      PROVE  Results(p)[s] = Failed \/ \E report \in W : Results(p)[s] = Ok(report)
  BY <1>2, <1>3 DEF W
<1>5. DOMAIN Results(p) = StaticStepNames
  BY DEF Results
<1>6. QED
  BY <1>1, <1>4, <1>5

\* No command changes the tree or its own command line.
LEMMA TreeKept == RaccoonSpec => [](tree = Results(line.project))
<1>1. RaccoonInit => tree = Results(line.project)
  BY DEF RaccoonInit
<1>2. tree = Results(line.project) /\ [RaccoonNext]_raccoonVars => (tree = Results(line.project))'
  <2>1. ASSUME [RaccoonNext]_raccoonVars
        PROVE  UNCHANGED <<tree, line>>
    <3>1. CASE UNCHANGED raccoonVars
      BY <3>1 DEF raccoonVars
    <3>2. CASE StaticCommand \/ DriftCommand \/ AdvisorCommand
      BY <3>2 DEF StaticCommand, DriftCommand, AdvisorCommand, EndsWith
    <3>3. CASE StartGateCommand \/ GateStep
      BY <3>3 DEF StartGateCommand, GateStep, StartGate, RunStatic, SkipStep
    <3>4. CASE GateStartsSmoke \/ GateEndsSmoke
      BY <3>4 DEF GateStartsSmoke, GateEndsSmoke, BeginGateSmoke, EndGateSmoke
    <3>5. CASE EndGateCommand \/ EndSmokeCommand \/ EndPackCommand \/ EndBridgeCommand
      BY <3>5 DEF EndGateCommand, EndSmokeCommand, EndPackCommand, EndBridgeCommand, EndsWith
    <3>6. CASE StartSmokeCommand \/ SmokeStep \/ PackCommand \/ BridgeCommand
      BY <3>6 DEF StartSmokeCommand, SmokeStep, PackCommand, BridgeCommand, gateVars
    <3>7. QED
      BY <2>1, <3>1, <3>2, <3>3, <3>4, <3>5, <3>6 DEF RaccoonNext
  <2>2. QED
    BY <2>1
<1>3. QED
  BY <1>1, <1>2, PTL DEF RaccoonSpec

\* The invariant of the gate holds in every behaviour.
LEMMA GateInvariant == RaccoonSpec => []GateInv
<1>1. RaccoonInit => GateInv
  BY GateStart
<1>2. GateInv /\ line \in CommandLines /\ [RaccoonNext]_raccoonVars => GateInv'
  BY GateNext
<1>3. QED
  BY <1>1, <1>2, CommandLineKept, PTL DEF RaccoonSpec

\* A gate that passes ran every static step, and none of them failed.
LEMMA NoneFails ==
  ASSUME GateInv, GateDone, GatePassed, NEW s \in StaticStepNames
  PROVE  Standalone(s).status # "fail"
<1>1. Len(gate.steps) = 7 /\ DOMAIN gate.steps = 1 .. 7
  BY StepsByPosition DEF GateDone, GateInv, GateTypes
<1>2. \A i \in 1 .. 6 : \/ gate.steps[i] = Standalone(GateSteps[i])
                        \/ gate.blocked /\ gate.steps[i].status = "skip"
  BY <1>1 DEF GateInv, StepsInPlace
<1>3. ~gate.blocked
  BY <1>1 DEF GateInv, BlockedByFailure, GatePassed
<1>4. \A i \in 1 .. 6 : Standalone(GateSteps[i]).status # "fail"
  BY <1>1, <1>2, <1>3 DEF GatePassed
<1>5. QED
  BY <1>4, StepsByPosition

\* A check of a report that does not fail the ci gate found nothing that counts.
LEMMA CleanCheck ==
  ASSUME NEW report, NEW wanted, ReportWith(report, wanted),
         NEW step, StepOf(step, "ci", Ok(report)).status # "fail",
         NEW name, NEW errors, NEW warnings, FromFindings(name, errors, warnings) \in wanted
  PROVE  ~(errors > 0) /\ ~(warnings > 0)
<1> DEFINE c == FromFindings(name, errors, warnings)
<1>1. PICK checks : report = ReportOf(checks) /\ CheckList(checks) /\ wanted \subseteq ToSet(checks)
  BY DEF ReportWith
<1>2. checks \in Seq(ToSet(checks)) /\ c \in ToSet(checks)
  BY <1>1 DEF CheckList
<1>3. /\ report.checks = checks
      /\ report.passed <=> \A i \in 1 .. Len(checks) : checks[i].status # "fail"
  BY <1>1, <1>2, ReportSays
<1>4. PICK i \in DOMAIN checks : checks[i] = c
  BY <1>2 DEF ToSet
<1>5. DOMAIN checks = 1 .. Len(checks)
  BY <1>2
<1>6. PromoteWarnings(report).passed
  BY DEF StepOf, WarningsAreErrors, Ok
<1>7. report.passed /\ (checks[i].status = "pass" => Promoted(checks[i]).status = "pass")
  BY <1>3, <1>4, <1>6 DEF PromoteWarnings
<1>8. c.status # "fail" /\ (c.status = "pass" => Promoted(c).status = "pass")
  BY <1>3, <1>4, <1>5, <1>7
<1>9. ~(errors > 0) /\ c.status = "pass"
  BY <1>8 DEF FromFindings
<1>10. Promoted(c).status = IF warnings > 0 THEN "fail" ELSE "pass"
  BY <1>9 DEF Promoted, FromFindings
<1>11. QED
  BY <1>8, <1>9, <1>10

\* The same of a check over sets of findings.
LEMMA CleanSets ==
  ASSUME NEW report, NEW wanted, ReportWith(report, wanted),
         NEW step, StepOf(step, "ci", Ok(report)).status # "fail",
         NEW name, NEW errors, NEW warnings, FindsAll(name, errors, warnings) \in wanted,
         IsFiniteSet(errors), IsFiniteSet(warnings)
  PROVE  errors = {} /\ warnings = {}
<1>1. FromFindings(name, Cardinality(errors), Cardinality(warnings)) \in wanted
  BY DEF FindsAll
<1> DEFINE e == Cardinality(errors)
           w == Cardinality(warnings)
<1>2. FromFindings(name, e, w) \in wanted
  BY <1>1
<1> HIDE DEF e, w
<1>3. ~(e > 0) /\ ~(w > 0)
  BY <1>2, CleanCheck
<1>4. QED
  BY <1>3, NothingFound DEF e, w

\* What a static step of the ci gate that does not fail says of its report.
Clean(report) == \E step : StepOf(step, "ci", Ok(report)).status # "fail"

\* Finiteness of what a deploy directory holds.
FinitelyDeployed(p) ==
  IsFiniteSet(DOMAIN p.configs) /\ \A s \in DOMAIN p.configs : IsFiniteSet(p.configs[s].brokers)

\* A tree doctor finds nothing wrong with is complete.
LEMMA AllIsThere ==
  ASSUME NEW p, Clean(DoctorReport(p))
  PROVE  Complete(p)
<1> DEFINE c == Finds("compose-file", "warning", "compose" \notin p.entries)
           d == Finds("config-files", "warning", "configs" \notin p.entries \/ DOMAIN p.configs = {})
           e == Finds("internal", "warning", "internal" \notin p.entries)
           wanted == {c, e, d}
<1>1. ReportWith(DoctorReport(p), wanted)
  BY DoctorChecks
<1>2. PICK step : StepOf(step, "ci", Ok(DoctorReport(p))).status # "fail"
  BY DEF Clean
<1>3. ASSUME NEW name, NEW found \in BOOLEAN, Finds(name, "warning", found) \in wanted
      PROVE  ~found
  <2> DEFINE errors == IF found /\ "warning" = "error" THEN 1 ELSE 0
             warnings == IF found /\ "warning" = "warning" THEN 1 ELSE 0
  <2>1. FromFindings(name, errors, warnings) \in wanted
    BY <1>3 DEF Finds
  <2>2. found => warnings > 0
    OBVIOUS
  <2> HIDE DEF errors, warnings, wanted
  <2>3. ~(warnings > 0)
    BY <1>1, <1>2, <2>1, CleanCheck
  <2>4. QED
    BY <2>2, <2>3
<1>4. c \in wanted /\ d \in wanted /\ e \in wanted
  OBVIOUS
<1> HIDE DEF wanted
<1>5. ~("compose" \notin p.entries)
  BY <1>3, <1>4
<1>6. ~("internal" \notin p.entries)
  BY <1>3, <1>4
<1>7. ~("configs" \notin p.entries \/ DOMAIN p.configs = {})
  BY <1>3, <1>4
<1>8. QED
  BY <1>5, <1>6, <1>7 DEF Complete

\* A check that found an error is in no clean report.
LEMMA NothingFoundWrong ==
  ASSUME NEW report, NEW wanted, ReportWith(report, wanted), Clean(report),
         NEW name
  PROVE  FromFindings(name, 1, 0) \notin wanted
<1>1. PICK step : StepOf(step, "ci", Ok(report)).status # "fail"
  BY DEF Clean
<1>2. 1 > 0
  OBVIOUS
<1>3. QED
  BY <1>1, <1>2, CleanCheck

\* A clean tree could be read.
LEMMA AllIsRead == ASSUME NEW p, Clean(TopologyReport(p)), Complete(p) PROVE Readable(p)
<1>1. ReportWith(TopologyReport(p), TopologyTells(p))
  BY TopologyChecks DEF Complete
<1>2. \A name : Finds(name, "error", TRUE) \notin TopologyTells(p)
  <2>1. \A name : Finds(name, "error", TRUE) = FromFindings(name, 1, 0)
    BY DEF Finds
  <2>2. QED
    BY <1>1, <2>1, NothingFoundWrong
<1>3. ~Unparsed(p) /\ ~Unscanned(p)
  BY <1>2 DEF TopologyTells
<1>4. QED
  BY <1>3 DEF Complete, Readable, Unparsed, Unscanned

LEMMA TopologyRead ==
  ASSUME NEW p, Readable(p) PROVE ReportWith(TopologyReport(p), TopologyOf(p))
<1>1. ReportWith(TopologyReport(p), TopologyTells(p))
  BY TopologyChecks DEF Readable
<1>2. TopologyOf(p) \subseteq TopologyTells(p)
  BY DEF TopologyTells
<1>3. QED
  BY <1>1, <1>2 DEF ReportWith

LEMMA BindingsRead ==
  ASSUME NEW p, ReportWith(BindingsReport(p), BindingsTells(p)), Clean(BindingsReport(p))
  PROVE  SourceReadable(p) /\ "config" \notin p.unreadable
<1>1. FromFindings("source-scan", 1, 0) \notin BindingsTells(p)
  BY NothingFoundWrong
<1>2. QED
  BY <1>1 DEF BindingsTells

\* Which configurations and services there are, and what they have.
LEMMA ConfigsComplete ==
  ASSUME NEW p, Clean(TopologyReport(p)), Readable(p)
  PROVE  LET configs == ParsedConfigs(p) IN
         /\ {"consumer", "emulator", "validator"} \subseteq DOMAIN configs
         /\ \A s \in {"consumer", "emulator"} : configs[s].brokers # {}
         /\ \A s \in {"consumer", "emulator", "validator"} : configs[s].nats # None
<1> DEFINE configs == ParsedConfigs(p)
           Has(s) == s \in DOMAIN configs
           two == {"consumer", "emulator"}
           three == {"consumer", "emulator", "validator"}
           kafka == {s \in two : Has(s) /\ configs[s].brokers = {}}
           nats == {s \in three : Has(s) /\ configs[s].nats = None}
           interval == {s \in two : Has(s) /\ configs[s].interval \in {None, ""}}
           present == {s \in three : ~Has(s)}
           group == {s \in {"consumer"} : Has(s) /\ ~configs[s].group}
           zero == {s \in two : Has(s) /\ configs[s].interval = "0s"}
           errors == {<<s, "kafka">> : s \in kafka} \cup {<<s, "nats">> : s \in nats}
                     \cup {<<s, "interval">> : s \in interval}
           warnings == {<<s, "present">> : s \in present} \cup {<<s, "group">> : s \in group}
                       \cup {<<s, "zero">> : s \in zero}
<1>1. CheckConfigs(configs) = FindsAll("config-completeness", errors, warnings)
  BY DEF CheckConfigs
<1>2. FindsAll("config-completeness", errors, warnings) \in TopologyOf(p)
  BY <1>1 DEF TopologyOf
<1>3. ReportWith(TopologyReport(p), TopologyOf(p))
  BY TopologyRead
<1>4. PICK step : StepOf(step, "ci", Ok(TopologyReport(p))).status # "fail"
  BY DEF Clean
<1> DEFINE six == {"kafka", "nats", "interval", "present", "group", "zero"}
<1>5. IsFiniteSet(three) /\ IsFiniteSet(six)
  <2>1. IsFiniteSet(three)
    BY FiniteLists
  <2>2. IsFiniteSet(six)
    BY FiniteLists
  <2> HIDE DEF three, six
  <2>3. QED
    BY <2>1, <2>2
<1>6. /\ kafka \subseteq three /\ nats \subseteq three /\ interval \subseteq three
      /\ present \subseteq three /\ group \subseteq three /\ zero \subseteq three
  OBVIOUS
<1>7. errors \subseteq three \X six /\ warnings \subseteq three \X six
  <2> HIDE DEF kafka, nats, interval, present, group, zero, three
  <2>1. errors \subseteq three \X six
    BY <1>6
  <2>2. warnings \subseteq three \X six
    BY <1>6
  <2>3. QED
    BY <2>1, <2>2
<1> HIDE DEF errors, warnings, three, six
<1>8. IsFiniteSet(errors) /\ IsFiniteSet(warnings)
  BY <1>5, <1>7, FinitePairs
<1>9. errors = {} /\ warnings = {}
  BY <1>2, <1>3, <1>4, <1>8, CleanSets
<1>10. kafka = {} /\ nats = {} /\ present = {}
  BY <1>9 DEF errors, warnings
<1>11. QED
  BY <1>10 DEF three

\* The compose file of a clean tree has the services and what they wait for.
LEMMA ServicesComplete ==
  ASSUME NEW p, Clean(TopologyReport(p)), Readable(p)
  PROVE  LET services == ParseCompose(p.compose) IN
         /\ {"kafka", "consumer"} \subseteq DOMAIN services
         /\ {"kafka", "nats"} \subseteq services["consumer"].deps
<1> DEFINE services == ParseCompose(p.compose)
           absent == Services \ DOMAIN services
           missing == Missing(services, ExpectedDeps, "deps")
<1>1. /\ FindsAll("compose-services", absent, {}) \in TopologyOf(p)
      /\ FindsAll("compose-dependencies", {}, missing) \in TopologyOf(p)
  BY DEF TopologyOf, CheckCompose, CheckComposeDependencies
<1>2. ReportWith(TopologyReport(p), TopologyOf(p))
  BY TopologyRead
<1>3. PICK step : StepOf(step, "ci", Ok(TopologyReport(p))).status # "fail"
  BY DEF Clean
<1> HIDE DEF services
<1>4. IsFiniteSet({}) /\ IsFiniteSet(Services) /\ IsFiniteSet(absent)
  <2>1. IsFiniteSet({}) /\ IsFiniteSet(Services)
    BY FiniteLists DEF Services
  <2>2. QED
    BY <2>1, FinitePart
<1>5. absent = {}
  <2> HIDE DEF absent
  <2>1. QED
    BY <1>1, <1>2, <1>3, <1>4, CleanSets
<1>6. IsFiniteSet(missing)
  <2> DEFINE five == {"consumer", "emulator", "validator", "server", "configctl"}
             all == {"nats", "server", "kafka", "consumer", "validator", "configctl"}
  <2>1. IsFiniteSet(five) /\ IsFiniteSet(all) /\ IsFiniteSet({"deps"})
    BY FiniteLists
  <2>2. DOMAIN ExpectedDeps = five /\ \A s \in five : ExpectedDeps[s] \subseteq all
    BY DEF ExpectedDeps
  <2> DEFINE later == {"deps"} \X all
             named == [s \in five |-> {<<s, "deps", x>> : x \in all}]
  <2>3. ASSUME NEW s \in five PROVE IsFiniteSet(named[s])
    <3> DEFINE f == [x \in all |-> <<s, "deps", x>>]
    <3>1. DOMAIN f = all /\ \A y \in named[s] : \E x \in all : y = f[x]
      OBVIOUS
    <3> HIDE DEF f, named, all, five
    <3>2. QED
      BY <2>1, <3>1, FiniteImage
  <2>4. \A y \in missing : \E s \in five : y \in named[s]
    BY <2>2 DEF Missing
  <2>5. DOMAIN named = five
    OBVIOUS
  <2> HIDE DEF named, five, missing
  <2>6. QED
    BY <2>1, <2>3, <2>4, <2>5, FiniteCover
<1>7. missing = {}
  <2> HIDE DEF missing
  <2>1. QED
    BY <1>1, <1>2, <1>3, <1>4, <1>6, CleanSets
<1>8. {"kafka", "consumer"} \subseteq DOMAIN services
  BY <1>5 DEF Services
<1>9. "consumer" \in DOMAIN ExpectedDeps /\ {"kafka", "nats"} \subseteq ExpectedDeps["consumer"]
  BY DEF ExpectedDeps
<1>10. {"kafka", "nats"} \subseteq services["consumer"].deps
  <2>1. ASSUME NEW x \in {"kafka", "nats"}, x \notin services["consumer"].deps
        PROVE  FALSE
    <3>1. x \in ExpectedDeps["consumer"] \ services["consumer"]["deps"]
      BY <1>9, <2>1
    <3>2. <<"consumer", "deps", x>> \in missing
      BY <1>8, <1>9, <3>1 DEF Missing
    <3>3. QED
      BY <1>7, <3>2
  <2>2. QED
    BY <2>1
<1>11. QED
  BY <1>8, <1>10 DEF services

\* The brokers and the NATS of the configurations.
LEMMA SameBrokers ==
  ASSUME NEW p, FinitelyDeployed(p), Clean(TopologyReport(p)),
         Readable(p),
         NEW s, NEW t, {s, t} \subseteq DOMAIN p.configs,
         ParsedConfigs(p)[s].brokers # {}, ParsedConfigs(p)[t].brokers # {}
  PROVE  /\ ParsedConfigs(p)[s].brokers = ParsedConfigs(p)[t].brokers
         /\ LET services == ParseCompose(p.compose) IN
            "kafka" \in DOMAIN services =>
              \A b \in ParsedConfigs(p)[s].brokers :
                b[2] \in {None, IF services["kafka"].port # None THEN services["kafka"].port ELSE "9092"}
<1> DEFINE configs == ParsedConfigs(p)
           services == ParseCompose(p.compose)
           having == {x \in DOMAIN configs : configs[x].brokers # {}}
           first == IF p.order \in having THEN p.order ELSE CHOOSE x \in having : TRUE
           used == UNION {{<<x, b>> : b \in configs[x].brokers} : x \in DOMAIN configs}
           kafka == "kafka" \in DOMAIN services
           port == IF kafka /\ services["kafka"].port # None THEN services["kafka"].port ELSE "9092"
           errors == {u \in used : kafka /\ u[2][2] # None /\ u[2][2] # port}
           differ == {x \in having : configs[x].brokers # configs[first].brokers}
           strange == {u \in used : kafka /\ u[2][1] \notin {"kafka", "localhost", "127.0.0.1"}}
           warnings == differ \cup strange
<1>1. FindsAll("kafka-broker-consistency", errors, warnings) \in TopologyOf(p)
  <2>1. CheckKafkaBrokers(configs, services, p.order)
          = FindsAll("kafka-broker-consistency", errors, warnings)
    BY DEF CheckKafkaBrokers
  <2> HIDE DEF errors, warnings
  <2>2. QED
    BY <2>1 DEF TopologyOf
<1>2. ReportWith(TopologyReport(p), TopologyOf(p))
  BY TopologyRead
<1>3. PICK step : StepOf(step, "ci", Ok(TopologyReport(p))).status # "fail"
  BY DEF Clean
<1>4. DOMAIN configs = DOMAIN p.configs /\ IsFiniteSet(DOMAIN configs)
  BY DEF ParsedConfigs, FinitelyDeployed
<1>5. IsFiniteSet(used)
  <2> DEFINE f == [x \in DOMAIN configs |-> {<<x, b>> : b \in configs[x].brokers}]
  <2>1. ASSUME NEW x \in DOMAIN configs PROVE IsFiniteSet(f[x])
    <3>1. IsFiniteSet(configs[x].brokers)
      <4>1. CASE p.configs[x].broken
        BY <1>4, <4>1, FiniteLists DEF ParsedConfigs, EmptyConfig
      <4>2. CASE ~p.configs[x].broken
        BY <1>4, <4>2 DEF ParsedConfigs, FinitelyDeployed
      <4>3. QED
        BY <4>1, <4>2
    <3> DEFINE B == configs[x].brokers
               g == [b \in B |-> <<x, b>>]
    <3>2. DOMAIN g = B /\ \A y \in f[x] : \E b \in B : y = g[b]
      OBVIOUS
    <3>3. IsFiniteSet(B)
      BY <3>1
    <3> HIDE DEF f, g, B
    <3>4. QED
      BY <3>2, <3>3, FiniteImage
  <2>2. DOMAIN f = DOMAIN configs /\ \A y \in used : \E x \in DOMAIN configs : y \in f[x]
    OBVIOUS
  <2> HIDE DEF f, used, configs
  <2>3. QED
    BY <1>4, <2>1, <2>2, FiniteCover
<1>6. errors \subseteq used /\ strange \subseteq used /\ differ \subseteq DOMAIN configs
  OBVIOUS
<1> HIDE DEF errors, strange, differ, used
<1>7. IsFiniteSet(errors) /\ IsFiniteSet(warnings)
  <2>1. IsFiniteSet(errors) /\ IsFiniteSet(strange) /\ IsFiniteSet(differ)
    BY <1>4, <1>5, <1>6, FinitePart
  <2>2. QED
    BY <2>1, FS_Union
<1>8. errors = {} /\ warnings = {}
  <2> HIDE DEF warnings
  <2>1. QED
    BY <1>1, <1>2, <1>3, <1>7, CleanSets
<1>9. \A x \in having : configs[x].brokers = configs[first].brokers
  BY <1>8 DEF differ
<1>10. s \in having /\ t \in having
  BY <1>4
<1>11. configs[s].brokers = configs[t].brokers
  <2> HIDE DEF having, first
  <2>1. QED
    BY <1>9, <1>10
<1>12. ASSUME kafka, NEW b \in configs[s].brokers
       PROVE  b[2] \in {None, port}
  <2>1. <<s, b>> \in used
    BY <1>10, <1>12 DEF used
  <2>2. <<s, b>> \notin errors
    BY <1>8
  <2>3. QED
    BY <1>12, <2>1, <2>2 DEF errors
<1>13. QED
  BY <1>11, <1>12

\* Two services of a clean tree are configured with one NATS.
LEMMA SameNats ==
  ASSUME NEW p, FinitelyDeployed(p), Clean(TopologyReport(p)),
         Readable(p),
         NEW s, NEW t, {s, t} \subseteq DOMAIN p.configs,
         ParsedConfigs(p)[s].nats # None, ParsedConfigs(p)[t].nats # None
  PROVE  ParsedConfigs(p)[s].nats = ParsedConfigs(p)[t].nats
<1> DEFINE configs == ParsedConfigs(p)
           having == {x \in DOMAIN configs : configs[x].nats # None}
           first == IF p.order \in having THEN p.order ELSE CHOOSE x \in having : TRUE
           warnings == {x \in having : configs[x].nats # configs[first].nats}
<1>1. FindsAll("nats-url-consistency", {}, warnings) \in TopologyOf(p)
  <2>1. CheckNatsUrls(configs, p.order) = FindsAll("nats-url-consistency", {}, warnings)
    BY DEF CheckNatsUrls
  <2> HIDE DEF warnings
  <2>2. QED
    BY <2>1 DEF TopologyOf
<1>2. ReportWith(TopologyReport(p), TopologyOf(p))
  BY TopologyRead
<1>3. PICK step : StepOf(step, "ci", Ok(TopologyReport(p))).status # "fail"
  BY DEF Clean
<1>4. DOMAIN configs = DOMAIN p.configs /\ IsFiniteSet(DOMAIN configs)
  BY DEF ParsedConfigs, FinitelyDeployed
<1>5. warnings \subseteq DOMAIN configs
  OBVIOUS
<1>6. IsFiniteSet({}) /\ IsFiniteSet(warnings)
  BY <1>4, <1>5, FinitePart, FiniteLists
<1>7. warnings = {}
  <2> HIDE DEF warnings
  <2>1. QED
    BY <1>1, <1>2, <1>3, <1>6, CleanSets
<1>8. \A x \in having : configs[x].nats = configs[first].nats
  BY <1>7
<1>9. s \in having /\ t \in having
  BY <1>4
<1> HIDE DEF having, first
<1>10. QED
  BY <1>8, <1>9

\* The durable of the validator and the stream it is bound to.
LEMMA BoundToStream ==
  ASSUME NEW p, Clean(TopologyReport(p)), Clean(BindingsReport(p)),
         Readable(p)
  PROVE  LET st == ScanSource(p.source) IN
         /\ "DATA_PLANE_INGESTION" \in DOMAIN st.streams
         /\ st.durables["validator-dataplane-v1"] = "DATA_PLANE_INGESTION"
<1> DEFINE st == ScanSource(p.source)
           two == {"DATA_PLANE_INGESTION", "CONFIGCTL_EVENTS"}
           four == {"validator-dataplane-v1", "validator-runtime-cache-v1",
                    "consumer-runtime-refresh-v1", "emulator-runtime-refresh-v1"}
           streams == two \ DOMAIN st.streams
           durables == four \ DOMAIN st.durables
<1>1. /\ FindsAll("source-streams", streams, {}) \in TopologyOf(p)
      /\ FindsAll("source-durables", durables, {}) \in TopologyOf(p)
  BY DEF TopologyOf, CheckSourceStreams, CheckSourceDurables
<1>2. ReportWith(TopologyReport(p), TopologyOf(p))
  BY TopologyRead
<1>3. PICK step : StepOf(step, "ci", Ok(TopologyReport(p))).status # "fail"
  BY DEF Clean
<1>4. IsFiniteSet({}) /\ IsFiniteSet(streams) /\ IsFiniteSet(durables)
  <2>1. IsFiniteSet({}) /\ IsFiniteSet(two)
    BY FiniteLists
  <2>2. IsFiniteSet(four)
    BY FiniteLists
  <2> HIDE DEF two, four
  <2>3. QED
    BY <2>1, <2>2, FinitePart
<1>5. streams = {}
  <2> HIDE DEF streams, durables
  <2>1. QED
    BY <1>1, <1>2, <1>3, <1>4, CleanSets
<1>6. durables = {}
  <2> HIDE DEF streams, durables
  <2>1. QED
    BY <1>1, <1>2, <1>3, <1>4, CleanSets
<1> DEFINE bindings == FixturesRead(p)
           src == ScanBindings(p)
           home == [d \in four |-> IF d = "validator-dataplane-v1" THEN "DATA_PLANE_INGESTION"
                                   ELSE "CONFIGCTL_EVENTS"]
           moved == {d \in DOMAIN home \cap DOMAIN src.durables : src.durables[d] # home[d]}
           prefix == {x \in {"prefix"} : src.prefix \notin
                                   {None, <<"dataplane", "ingestion", "received">>}}
           events == {"CONFIGCTL_EVENTS"} \ DOMAIN src.streams
           scope == {x \in {"scope"} : /\ bindings # {} /\ src.scopes # {}
                                       /\ DefaultScope \notin src.scopes}
           errors == moved \cup prefix
           warnings == events \cup scope
<1>7. CheckBindingDrift(src, bindings) = FindsAll("drift-detection", errors, warnings)
  BY DEF CheckBindingDrift
<1> DEFINE wanted == {CheckBindingDrift(src, bindings)}
<1>8. ReportWith(BindingsReport(p), wanted)
  <2>1. ReportWith(BindingsReport(p), BindingsTells(p))
    BY BindingsChecks DEF Readable, Scans
  <2>2. SourceReadable(p) /\ "config" \notin p.unreadable
    BY <2>1, BindingsRead
  <2>3. QED
    BY <2>1, <2>2 DEF BindingsTells
<1>9. PICK other : StepOf(other, "ci", Ok(BindingsReport(p))).status # "fail"
  BY DEF Clean
<1>10. IsFiniteSet(errors) /\ IsFiniteSet(warnings)
  <2>1. IsFiniteSet(four) /\ moved \subseteq four
    <3>1. IsFiniteSet(four)
      BY FiniteLists
    <3>2. QED
      BY <3>1
  <2>2. IsFiniteSet({"prefix"}) /\ prefix \subseteq {"prefix"}
    BY FiniteLists
  <2>3. IsFiniteSet({"CONFIGCTL_EVENTS"}) /\ events \subseteq {"CONFIGCTL_EVENTS"}
    BY FiniteLists
  <2>4. IsFiniteSet({"scope"}) /\ scope \subseteq {"scope"}
    BY FiniteLists
  <2> HIDE DEF moved, prefix, events, scope, four
  <2>5. IsFiniteSet(moved) /\ IsFiniteSet(prefix) /\ IsFiniteSet(events) /\ IsFiniteSet(scope)
    BY <2>1, <2>2, <2>3, <2>4, FinitePart
  <2>6. QED
    BY <2>5, FS_Union
<1>11. errors = {}
  <2>1. FindsAll("drift-detection", errors, warnings) \in wanted
    BY <1>7
  <2> HIDE DEF errors, warnings, wanted
  <2>2. QED
    BY <1>8, <1>9, <1>10, <2>1, CleanSets
<1>12. moved = {}
  BY <1>11
<1>13. src.durables = st.durables
  BY DEF ScanBindings, ScanSource
<1>14. "validator-dataplane-v1" \in DOMAIN st.durables /\ "DATA_PLANE_INGESTION" \in DOMAIN st.streams
  BY <1>5, <1>6
<1>15. st.durables["validator-dataplane-v1"] = "DATA_PLANE_INGESTION"
  <2> HIDE DEF src, st
  <2>1. QED
    BY <1>12, <1>13, <1>14
<1>16. QED
  BY <1>14, <1>15

\* Every tree the ci gate lets through is wired, whatever its configurations,
\* its compose file and its source say.
THEOREM GreenTreesAreWired == RaccoonSpec => []GreenIsWired
<1>1. ASSUME GateInv, line \in CommandLines, tree = Results(line.project)
      PROVE  GreenIsWired
  <2> SUFFICES ASSUME GateDone, gate.profile = "ci", GatePassed
               PROVE  LET p        == line.project
                          configs  == ParsedConfigs(p)
                          services == ParseCompose(p.compose)
                          st       == ScanSource(p.source)
                      IN  /\ configs["emulator"].brokers = configs["consumer"].brokers
                          /\ \A b \in configs["consumer"].brokers :
                                b[2] \in {None, IF services["kafka"].port # None
                                                THEN services["kafka"].port ELSE "9092"}
                          /\ configs["consumer"].nats = configs["validator"].nats
                          /\ {"kafka", "nats"} \subseteq services["consumer"].deps
                          /\ st.durables["validator-dataplane-v1"] = "DATA_PLANE_INGESTION"
                          /\ "DATA_PLANE_INGESTION" \in DOMAIN st.streams
    BY DEF GreenIsWired
  <2> DEFINE p == line.project
  <2>1. {"doctor", "topology-doctor", "runtime-bindings"} \subseteq StaticStepNames
    <3>1. {1, 2, 4} \subseteq DOMAIN StaticSteps
      BY StepsByPosition
    <3>2. StaticSteps[1] = "doctor" /\ StaticSteps[2] = "topology-doctor"
          /\ StaticSteps[4] = "runtime-bindings"
      BY DEF StaticSteps
    <3>3. QED
      BY <3>1, <3>2 DEF StaticStepNames
  <2>2. /\ tree["doctor"] \in {Failed, Ok(DoctorReport(p))}
        /\ tree["topology-doctor"] \in {Failed, Ok(TopologyReport(p))}
        /\ tree["runtime-bindings"] \in {Failed, Ok(BindingsReport(p))}
    BY <1>1, <2>1 DEF Results
  <2>3. \A s \in StaticStepNames : StepOf(s, "ci", tree[s]).status # "fail"
    BY <1>1, NoneFails DEF Standalone
  <2>15. \A s : StepOf(s, "ci", Failed).status = "fail"
    BY DEF StepOf, Failed
  <2>4. /\ Clean(DoctorReport(p)) /\ Clean(TopologyReport(p)) /\ Clean(BindingsReport(p))
    BY <2>1, <2>2, <2>3, <2>15 DEF Clean
  <2>5. FinitelyDeployed(p)
    BY <1>1, DeploymentsAreFinite DEF FinitelyDeployed
  <2> HIDE DEF p
  <2>6. Readable(p)
    BY <2>4, AllIsThere, AllIsRead
  <2>7. /\ {"consumer", "emulator", "validator"} \subseteq DOMAIN ParsedConfigs(p)
        /\ ParsedConfigs(p)["consumer"].brokers # {} /\ ParsedConfigs(p)["emulator"].brokers # {}
        /\ ParsedConfigs(p)["consumer"].nats # None /\ ParsedConfigs(p)["validator"].nats # None
    BY <2>4, <2>6, ConfigsComplete
  <2>8. DOMAIN ParsedConfigs(p) = DOMAIN p.configs
    BY DEF ParsedConfigs
  <2>9. /\ {"kafka", "consumer"} \subseteq DOMAIN ParseCompose(p.compose)
        /\ {"kafka", "nats"} \subseteq ParseCompose(p.compose)["consumer"].deps
    BY <2>4, <2>6, ServicesComplete
  <2>10. ParsedConfigs(p)["emulator"].brokers = ParsedConfigs(p)["consumer"].brokers
    <3>1. {"emulator", "consumer"} \subseteq DOMAIN p.configs
      BY <2>7, <2>8
    <3>2. QED
      BY <2>4, <2>5, <2>6, <2>7, <3>1, SameBrokers
  <2>11. \A b \in ParsedConfigs(p)["consumer"].brokers :
           b[2] \in {None, IF ParseCompose(p.compose)["kafka"].port # None
                           THEN ParseCompose(p.compose)["kafka"].port ELSE "9092"}
    <3>1. {"consumer", "consumer"} \subseteq DOMAIN p.configs
      BY <2>7, <2>8
    <3>2. "kafka" \in DOMAIN ParseCompose(p.compose)
      BY <2>9
    <3>3. QED
      BY <2>4, <2>5, <2>6, <2>7, <3>1, <3>2, SameBrokers
  <2>12. ParsedConfigs(p)["consumer"].nats = ParsedConfigs(p)["validator"].nats
    <3>1. {"consumer", "validator"} \subseteq DOMAIN p.configs
      BY <2>7, <2>8
    <3>2. QED
      BY <2>4, <2>5, <2>6, <2>7, <3>1, SameNats
  <2>13. /\ ScanSource(p.source).durables["validator-dataplane-v1"] = "DATA_PLANE_INGESTION"
         /\ "DATA_PLANE_INGESTION" \in DOMAIN ScanSource(p.source).streams
    BY <2>4, <2>6, BoundToStream
  <2>14. QED
    BY <2>9, <2>10, <2>11, <2>12, <2>13 DEF p
<1>2. QED
  BY <1>1, GateInvariant, CommandLineKept, TreeKept, PTL

-----------------------------------------------------------------------------
(* Counting *)

\* t[i] is the total of the first i of n values.
Totals(t, n, values) ==
  /\ t[0] = 0
  /\ \A i \in 1 .. n : t[i] = t[i - 1] + values[i]

\* There is such a function.
LEMMA TotalsExist ==
  ASSUME NEW n \in Nat, NEW values \in [1 .. n -> Nat]
  PROVE  \E t \in [0 .. n -> Nat] :
           t = [i \in 0 .. n |-> IF i = 0 THEN 0 ELSE t[i - 1] + values[i]]
<1> DEFINE F == [i \in Nat |-> [x \in Nat |-> IF i \in 1 .. n THEN x + values[i] ELSE x]]
<1>1. 0 \in Nat /\ F \in [Nat -> [Nat -> Nat]]
  OBVIOUS
<1>2. \A i \in 1 .. n, x \in Nat : F[i][x] = x + values[i]
  OBVIOUS
<1> HIDE DEF F
<1> DEFINE base == 0
           A == Nat
<1>3. PICK g \in [Nat -> A] : Recursive(g, base, F)
  <2>1. base \in A /\ F \in [Nat -> [A -> A]]
    BY <1>1
  <2> HIDE DEF base, A
  <2>2. \E g \in [Nat -> A] : Recursive(g, base, F)
    BY <2>1, RecursionExists
  <2>3. QED
    BY <2>2
<1>4. g[0] = 0 /\ \A i \in Nat \ {0} : i - 1 \in Nat /\ g[i - 1] \in Nat /\ g[i] = F[i][g[i - 1]]
  <2>1. g[0] = base /\ \A i \in Nat \ {0} : g[i] = F[i][g[i - 1]]
    BY <1>3 DEF Recursive
  <2>2. QED
    BY <1>3, <2>1
<1> DEFINE t == [i \in 0 .. n |-> g[i]]
<1>5. t \in [0 .. n -> Nat]
  BY <1>3
<1>6. ASSUME NEW i \in 0 .. n
      PROVE  t[i] = IF i = 0 THEN 0 ELSE t[i - 1] + values[i]
  <2>1. CASE i = 0
    BY <1>4, <2>1
  <2>2. CASE i # 0
    <3>1. i \in 1 .. n /\ i - 1 \in 0 .. n /\ i \in Nat \ {0}
      BY <2>2
    <3>2. t[i] = g[i] /\ t[i - 1] = g[i - 1]
      BY <3>1
    <3>3. g[i] = g[i - 1] + values[i]
      BY <1>2, <1>4, <3>1
    <3>4. QED
      BY <2>2, <3>2, <3>3
  <2>3. QED
    BY <2>1, <2>2
<1>7. t = [i \in 0 .. n |-> IF i = 0 THEN 0 ELSE t[i - 1] + values[i]]
  <2> HIDE DEF t
  <2>1. t = [i \in 0 .. n |-> t[i]]
    BY <1>5
  <2>2. QED
    BY <1>6, <2>1
<1>8. QED
  BY <1>5, <1>7

\* A total is a number, and zero when every value is.
LEMMA TotalIsZero ==
  ASSUME NEW n \in Nat, NEW values \in [1 .. n -> Nat], NEW t, Totals(t, n, values)
  PROVE  t[n] \in Nat /\ (t[n] = 0 <=> \A i \in 1 .. n : values[i] = 0)
<1> DEFINE T == {k \in Nat : k <= n =>
                   t[k] \in Nat /\ (t[k] = 0 <=> \A i \in 1 .. k : values[i] = 0)}
<1>1. 0 \in T
  BY DEF Totals
<1>2. ASSUME NEW k \in Nat, k \in T PROVE k + 1 \in T
  <2> SUFFICES ASSUME k + 1 <= n
               PROVE  t[k + 1] \in Nat /\ (t[k + 1] = 0 <=> \A i \in 1 .. k + 1 : values[i] = 0)
    OBVIOUS
  <2>1. t[k] \in Nat /\ (t[k] = 0 <=> \A i \in 1 .. k : values[i] = 0)
    BY <1>2
  <2>2. k + 1 \in 1 .. n /\ t[k + 1] = t[k] + values[k + 1] /\ values[k + 1] \in Nat
    BY DEF Totals
  <2>3. (\A i \in 1 .. k + 1 : values[i] = 0) <=> (\A i \in 1 .. k : values[i] = 0) /\ values[k + 1] = 0
    OBVIOUS
  <2>4. t[k + 1] \in Nat /\ (t[k + 1] = 0 <=> t[k] = 0 /\ values[k + 1] = 0)
    BY <2>1, <2>2
  <2>5. QED
    BY <2>1, <2>3, <2>4, Zenon
<1>3. Nat \subseteq T
  <2> HIDE DEF T
  <2>1. QED
    BY <1>1, <1>2, SetInduction
<1>4. QED
  BY <1>3

\* Counts of the findings of a report that holds finitely many.
LEMMA ErrorsCounted ==
  ASSUME NEW report, NEW n \in Nat, Len(report.checks) = n,
         \A i \in 1 .. n : report.checks[i].errors \in Nat
  PROVE  /\ CountErrors(report) \in Nat
         /\ CountErrors(report) = 0 <=> \A i \in 1 .. n : report.checks[i].errors = 0
<1> DEFINE values == [i \in 1 .. n |-> report.checks[i].errors]
           counted[i \in 0 .. Len(report.checks)] ==
             IF i = 0 THEN 0 ELSE counted[i - 1] + report.checks[i].errors
<1>1. CountErrors(report) = counted[n]
  BY DEF CountErrors
<1>2. values \in [1 .. n -> Nat]
  OBVIOUS
<1>3. PICK t \in [0 .. n -> Nat] : t = [i \in 0 .. n |-> IF i = 0 THEN 0 ELSE t[i - 1] + values[i]]
  <2> HIDE DEF values
  <2>1. QED
    BY <1>2, TotalsExist
<1>4. t = [i \in 0 .. n |-> IF i = 0 THEN 0 ELSE t[i - 1] + report.checks[i].errors]
  <2>1. \A i \in 0 .. n : i # 0 => values[i] = report.checks[i].errors
    OBVIOUS
  <2> HIDE DEF values
  <2>2. \A i \in 0 .. n : t[i] = IF i = 0 THEN 0 ELSE t[i - 1] + report.checks[i].errors
    BY <1>3, <2>1
  <2>3. QED
    BY <1>3, <2>2
<1>5. counted = [i \in 0 .. n |-> IF i = 0 THEN 0 ELSE counted[i - 1] + report.checks[i].errors]
  BY <1>4
<1> HIDE DEF counted
<1>6. Totals(counted, n, values)
  <2>1. counted[0] = 0
    BY <1>5
  <2>2. ASSUME NEW i \in 1 .. n
        PROVE  counted[i] = counted[i - 1] + values[i]
    <3>1. i \in 0 .. n /\ i # 0
      OBVIOUS
    <3>2. counted[i] = counted[i - 1] + report.checks[i].errors
      BY <1>5, <3>1
    <3>3. QED
      BY <3>2
  <2>3. QED
    BY <2>1, <2>2 DEF Totals
<1>7. counted[n] \in Nat /\ (counted[n] = 0 <=> \A i \in 1 .. n : values[i] = 0)
  <2> HIDE DEF values
  <2>1. QED
    BY <1>2, <1>6, TotalIsZero
<1>8. QED
  BY <1>1, <1>7
\* The warnings of a report are counted the same way.
LEMMA WarningsCounted ==
  ASSUME NEW report, NEW n \in Nat, Len(report.checks) = n,
         \A i \in 1 .. n : report.checks[i].warnings \in Nat
  PROVE  /\ CountWarnings(report) \in Nat
         /\ CountWarnings(report) = 0 <=> \A i \in 1 .. n : report.checks[i].warnings = 0
<1> DEFINE values == [i \in 1 .. n |-> report.checks[i].warnings]
           counted[i \in 0 .. Len(report.checks)] ==
             IF i = 0 THEN 0 ELSE counted[i - 1] + report.checks[i].warnings
<1>1. CountWarnings(report) = counted[n]
  BY DEF CountWarnings
<1>2. values \in [1 .. n -> Nat]
  OBVIOUS
<1>3. PICK t \in [0 .. n -> Nat] : t = [i \in 0 .. n |-> IF i = 0 THEN 0 ELSE t[i - 1] + values[i]]
  <2> HIDE DEF values
  <2>1. QED
    BY <1>2, TotalsExist
<1>4. t = [i \in 0 .. n |-> IF i = 0 THEN 0 ELSE t[i - 1] + report.checks[i].warnings]
  <2>1. \A i \in 0 .. n : i # 0 => values[i] = report.checks[i].warnings
    OBVIOUS
  <2> HIDE DEF values
  <2>2. \A i \in 0 .. n : t[i] = IF i = 0 THEN 0 ELSE t[i - 1] + report.checks[i].warnings
    BY <1>3, <2>1
  <2>3. QED
    BY <1>3, <2>2
<1>5. counted = [i \in 0 .. n |-> IF i = 0 THEN 0 ELSE counted[i - 1] + report.checks[i].warnings]
  BY <1>4
<1> HIDE DEF counted
<1>6. Totals(counted, n, values)
  <2>1. counted[0] = 0
    BY <1>5
  <2>2. ASSUME NEW i \in 1 .. n
        PROVE  counted[i] = counted[i - 1] + values[i]
    <3>1. i \in 0 .. n /\ i # 0
      OBVIOUS
    <3>2. counted[i] = counted[i - 1] + report.checks[i].warnings
      BY <1>5, <3>1
    <3>3. QED
      BY <3>2
  <2>3. QED
    BY <2>1, <2>2 DEF Totals
<1>7. counted[n] \in Nat /\ (counted[n] = 0 <=> \A i \in 1 .. n : values[i] = 0)
  <2> HIDE DEF values
  <2>1. QED
    BY <1>2, <1>6, TotalIsZero
<1>8. QED
  BY <1>1, <1>7

-----------------------------------------------------------------------------
(* What a step counts *)

\* What a check says of itself when its findings are counted.
LEMMA CheckSays ==
  ASSUME NEW c, IsCheck(c), c.errors \in Nat, c.warnings \in Nat
  PROVE  /\ c.status \in {"pass", "fail", "skip"}
         /\ c.status = "fail" <=> c.errors # 0
         /\ c.status = "skip" => c.warnings = 0
         /\ Promoted(c).errors = c.errors + c.warnings
         /\ c.status = "pass" => (Promoted(c).status = "pass" <=> c.warnings = 0)
<1>1. PICK name, errors, warnings :
        c \in {FromFindings(name, errors, warnings), PassCheck(name, warnings), SkipCheck(name)}
  BY DEF IsCheck
<1>2. CASE c = FromFindings(name, errors, warnings)
  <2>1. c = [name |-> name, status |-> IF errors > 0 THEN "fail" ELSE "pass",
             errors |-> errors, warnings |-> warnings]
    BY <1>2 DEF FromFindings
  <2>2. errors \in Nat /\ warnings \in Nat
    BY <2>1
  <2>3. QED
    BY <2>1, <2>2 DEF Promoted
<1>3. CASE c = PassCheck(name, warnings)
  <2>1. c = [name |-> name, status |-> "pass", errors |-> 0, warnings |-> warnings]
    BY <1>3 DEF PassCheck
  <2>2. warnings \in Nat
    BY <2>1
  <2>3. QED
    BY <2>1, <2>2 DEF Promoted
<1>4. CASE c = SkipCheck(name)
  <2>1. c = [name |-> name, status |-> "skip", errors |-> 0, warnings |-> 0]
    BY <1>4 DEF SkipCheck
  <2>2. QED
    BY <2>1 DEF Promoted
<1>5. QED
  BY <1>1, <1>2, <1>3, <1>4

\* A step on a report whose warnings do not count.
LEMMA PlainStepCounts ==
  ASSUME NEW S, NEW checks \in Seq(S), NEW name, NEW profile, profile # "ci",
         \A i \in 1 .. Len(checks) : checks[i].errors \in Nat
                                     /\ (checks[i].status = "fail" => checks[i].errors # 0)
  PROVE  LET step == StepOf(name, profile, Ok(ReportOf(checks)))
         IN  step.errors \in Nat /\ (step.status = "fail" => step.errors > 0)
<1> DEFINE report == ReportOf(checks)
           step == StepOf(name, profile, Ok(report))
<1>1. report.checks = checks /\ (report.passed <=> \A i \in 1 .. Len(checks) : checks[i].status # "fail")
  BY ReportSays
<1>2. Len(report.checks) = Len(checks) /\ Len(checks) \in Nat
  BY <1>1
<1>3. step.errors = CountErrors(report) /\ step.status = IF report.passed THEN "pass" ELSE "fail"
  BY DEF StepOf, WarningsAreErrors, Ok
<1> HIDE DEF report, step
<1>4. /\ CountErrors(report) \in Nat
      /\ CountErrors(report) = 0 <=> \A i \in 1 .. Len(checks) : report.checks[i].errors = 0
  BY <1>1, <1>2, ErrorsCounted
<1>5. step.status = "fail" => CountErrors(report) # 0
  BY <1>1, <1>3, <1>4
<1>6. step.errors \in Nat /\ (step.status = "fail" => step.errors > 0)
  BY <1>3, <1>4, <1>5
<1>7. QED
  BY <1>6 DEF step, report

\* A step of the ci gate on a report: it fails exactly when the report has an
\* error or a warning, and then counts something.
LEMMA StrictStepCounts ==
  ASSUME NEW checks, CheckList(checks), NEW name,
         \A i \in 1 .. Len(checks) : checks[i].errors \in Nat /\ checks[i].warnings \in Nat
  PROVE  LET report == ReportOf(checks)
             step   == StepOf(name, "ci", Ok(report))
         IN  /\ step.errors \in Nat /\ (step.status = "fail" => step.errors > 0)
             /\ step.status # "fail" <=> CountErrors(report) = 0 /\ CountWarnings(report) = 0
<1> DEFINE report == ReportOf(checks)
           strict == PromoteWarnings(report)
           step == StepOf(name, "ci", Ok(report))
           n == Len(checks)
           Clear(i) == checks[i].errors = 0 /\ checks[i].warnings = 0
<1>1. checks \in Seq(ToSet(checks)) /\ \A i \in 1 .. n : IsCheck(checks[i])
  BY DEF CheckList
<1>2. n \in Nat /\ DOMAIN checks = 1 .. n
  BY <1>1
<1>3. report.checks = checks /\ report.passed \in BOOLEAN
      /\ (report.passed <=> \A i \in 1 .. n : checks[i].status # "fail")
  BY <1>1, ReportSays
<1>4. /\ strict.checks = [i \in 1 .. n |-> Promoted(checks[i])]
      /\ strict.passed = (report.passed /\ \A i \in 1 .. n :
           checks[i].status = "pass" => strict.checks[i].status = "pass")
  <2> HIDE DEF report
  <2>1. DOMAIN report.checks = 1 .. n
    BY <1>2, <1>3
  <2>2. QED
    BY <1>3, <2>1 DEF PromoteWarnings
<1>5. /\ step.errors = CountErrors(strict)
      /\ step.status = IF strict.passed THEN "pass" ELSE "fail"
  BY DEF StepOf, WarningsAreErrors, Ok
<1> HIDE DEF report, strict, step, n
<1>6. ASSUME NEW i \in 1 .. n
      PROVE  /\ strict.checks[i].errors = checks[i].errors + checks[i].warnings
             /\ (checks[i].status # "fail" /\ (checks[i].status = "pass" => strict.checks[i].status = "pass"))
                  <=> Clear(i)
  <2>1. checks[i].errors \in Nat /\ checks[i].warnings \in Nat /\ IsCheck(checks[i])
    BY <1>1 DEF n
  <2>2. strict.checks[i] = Promoted(checks[i])
    BY <1>4
  <2> DEFINE c == checks[i]
  <2> HIDE DEF c
  <2>3. /\ c.status \in {"pass", "fail", "skip"}
        /\ c.status = "fail" <=> c.errors # 0
        /\ c.status = "skip" => c.warnings = 0
        /\ Promoted(c).errors = c.errors + c.warnings
        /\ c.status = "pass" => (Promoted(c).status = "pass" <=> c.warnings = 0)
    BY <2>1, CheckSays DEF c
  <2>4. QED
    BY <2>2, <2>3 DEF c
<1>7. Len(strict.checks) = n
  BY <1>2, <1>4
<1>8. strict.passed <=> \A i \in 1 .. n : Clear(i)
  BY <1>3, <1>4, <1>6
<1>9. \A i \in 1 .. n : /\ checks[i].errors \in Nat /\ checks[i].warnings \in Nat
                        /\ strict.checks[i].errors \in Nat
                        /\ strict.checks[i].errors = 0 <=> Clear(i)
  <2> TAKE i \in 1 .. n
  <2>1. checks[i].errors \in Nat /\ checks[i].warnings \in Nat
    BY DEF n
  <2>2. strict.checks[i].errors = checks[i].errors + checks[i].warnings
    BY <1>6
  <2>3. QED
    BY <2>1, <2>2
<1>10. /\ CountErrors(strict) \in Nat
       /\ CountErrors(strict) = 0 <=> \A i \in 1 .. n : strict.checks[i].errors = 0
  BY <1>2, <1>7, <1>9, ErrorsCounted
<1>11. CountErrors(report) = 0 <=> \A i \in 1 .. n : checks[i].errors = 0
  <2>1. Len(report.checks) = n /\ \A i \in 1 .. n : report.checks[i].errors \in Nat
    BY <1>3, <1>9 DEF n
  <2>2. QED
    BY <1>2, <1>3, <2>1, ErrorsCounted
<1>12. CountWarnings(report) = 0 <=> \A i \in 1 .. n : checks[i].warnings = 0
  <2>1. Len(report.checks) = n /\ \A i \in 1 .. n : report.checks[i].warnings \in Nat
    BY <1>3, <1>9 DEF n
  <2>2. QED
    BY <1>2, <1>3, <2>1, WarningsCounted
<1>13. step.status # "fail" <=> strict.passed
  BY <1>5
<1>14. step.errors \in Nat /\ (step.status = "fail" => step.errors > 0)
  <2>1. step.status = "fail" => CountErrors(strict) # 0
    BY <1>8, <1>9, <1>10, <1>13
  <2>2. QED
    BY <1>5, <1>10, <2>1
<1>15. step.status # "fail" <=> CountErrors(report) = 0 /\ CountWarnings(report) = 0
  BY <1>8, <1>11, <1>12, <1>13
<1>16. QED
  BY <1>14, <1>15 DEF step, report

-----------------------------------------------------------------------------
(* The counts of a gate *)

\* Every step counts its errors, one that failed has some, and the smoke test
\* is only run by the deep gate.
CountsInv ==
  /\ \A i \in 1 .. Len(gate.steps) :
       gate.steps[i].errors \in Nat /\ (gate.steps[i].status = "fail" => gate.steps[i].errors > 0)
  /\ gate.smoking => gate.profile = "deep"
  /\ Len(gate.steps) = 7 /\ gate.profile # "deep" => gate.steps[7].status = "skip"

\* The steps stay as they are when one is pushed behind them.
LEMMA PushCounts ==
  ASSUME GateInv, CountsInv, NEW step, gate' = Pushed(step), Len(gate.steps) < 7,
         step.errors \in Nat, step.status = "fail" => step.errors > 0,
         Len(gate.steps) = 6 /\ gate.profile # "deep" => step.status = "skip"
  PROVE  CountsInv'
<1>1. gate.steps \in Seq(ToSet(gate.steps)) /\ Len(gate.steps) \in Nat
  BY StepCount
<1> DEFINE more == Append(gate.steps, step)
<1>2. /\ Len(more) = Len(gate.steps) + 1
      /\ \A i \in 1 .. Len(gate.steps) : more[i] = gate.steps[i]
      /\ more[Len(gate.steps) + 1] = step
  BY <1>1, Pushes
<1>3. gate'.steps = more /\ gate'.smoking = FALSE /\ gate'.profile = gate.profile
  BY DEF Pushed, GateInv, GateTypes
<1>4. \A i \in 1 .. Len(more) : i \in 1 .. Len(gate.steps) \/ i = Len(gate.steps) + 1
  BY <1>1, <1>2
<1> HIDE DEF more
<1>5. ASSUME NEW i \in 1 .. Len(more)
      PROVE  more[i].errors \in Nat /\ (more[i].status = "fail" => more[i].errors > 0)
  BY <1>2, <1>4 DEF CountsInv
<1>6. Len(more) = 7 /\ gate.profile # "deep" => more[7].status = "skip"
  <2> SUFFICES ASSUME Len(more) = 7, gate.profile # "deep"
               PROVE  more[7].status = "skip"
    OBVIOUS
  <2>1. Len(gate.steps) = 6
    <3>1. \A n \in Nat : n + 1 = 7 => n = 6
      OBVIOUS
    <3>2. Len(gate.steps) \in Nat /\ Len(gate.steps) + 1 = 7
      BY <1>1, <1>2
    <3>3. QED
      BY <3>1, <3>2
  <2>2. more[7] = step
    BY <1>2, <2>1
  <2>3. QED
    BY <2>1, <2>2
<1>7. QED
  BY <1>3, <1>5, <1>6 DEF CountsInv

\* What a static step counts by itself.
LEMMA StaticCounts ==
  ASSUME tree = Results(line.project), line \in CommandLines,
         NEW profile \in Profiles, NEW s \in StaticStepNames
  PROVE  LET step == StepOf(s, profile, tree[s])
         IN  /\ step.errors \in Nat /\ (step.status = "fail" => step.errors > 0)
             /\ profile = "ci" =>
                  (step.status # "fail" <=> /\ ~tree[s].error
                                            /\ CountErrors(tree[s].report) = 0
                                            /\ CountWarnings(tree[s].report) = 0)
<1> DEFINE p == line.project
<1>12. CASE tree[s] = Failed
  <2>1. /\ StepOf(s, profile, tree[s]).errors = 1 /\ StepOf(s, profile, tree[s]).status = "fail"
        /\ tree[s].error
    BY <1>12 DEF StepOf, Failed
  <2>2. QED
    BY <2>1
<1>13. SUFFICES ASSUME tree[s] # Failed
                PROVE  LET step == StepOf(s, profile, tree[s])
                       IN  /\ step.errors \in Nat /\ (step.status = "fail" => step.errors > 0)
                           /\ profile = "ci" =>
                                (step.status # "fail" <=> /\ ~tree[s].error
                                                          /\ CountErrors(tree[s].report) = 0
                                                          /\ CountWarnings(tree[s].report) = 0)
  BY <1>12
<1>1. PICK report : Results(p)[s] = Ok(report) /\ ReportWith(report, {})
  BY <1>13, StaticReports
<1>2. PICK checks : report = ReportOf(checks) /\ CheckList(checks)
  BY <1>1 DEF ReportWith
<1>3. checks \in Seq(ToSet(checks)) /\ \A i \in 1 .. Len(checks) : IsCheck(checks[i])
  BY <1>2 DEF CheckList
<1>4. report.checks = checks
  BY <1>2, <1>3, ReportSays
<1>5. Results(p)[s].report = report /\ ~Results(p)[s].error
  BY <1>1 DEF Ok
<1>6. \A c \in ToSet(checks) : c.errors \in Nat /\ c.warnings \in Nat
  BY <1>4, <1>5, FindingsAreCounted
<1>7. \A i \in 1 .. Len(checks) : checks[i].errors \in Nat /\ checks[i].warnings \in Nat
  BY <1>3, <1>6 DEF ToSet
<1>8. tree[s] = Ok(report)
  BY <1>1
<1> HIDE DEF p
<1>9. CASE profile = "ci"
  BY <1>2, <1>5, <1>7, <1>8, <1>9, StrictStepCounts DEF Ok
<1>10. CASE profile # "ci"
  <2>1. \A i \in 1 .. Len(checks) : checks[i].errors \in Nat
                                    /\ (checks[i].status = "fail" => checks[i].errors # 0)
    BY <1>3, <1>7, CheckSays
  <2>2. QED
    BY <1>2, <1>3, <1>5, <1>8, <1>10, <2>1, PlainStepCounts DEF Ok
<1>11. QED
  BY <1>9, <1>10

\* What the step of the smoke test counts.
LEMMA SmokeCounts ==
  ASSUME SmokeInv, NEW profile, profile # "ci", NEW name
  PROVE  LET step == StepOf(name, profile, Ok(SmokeReport))
         IN  step.errors \in Nat /\ (step.status = "fail" => step.errors > 0)
<1> DEFINE checks == smoke.checks
<1>1. checks \in Seq(SmokeChecks)
  BY DEF SmokeInv, SmokeTypes
<1>2. \A i \in 1 .. Len(checks) : checks[i] \in SmokeChecks
  BY <1>1
<1>3. \A i \in 1 .. Len(checks) : checks[i].errors \in Nat
                                  /\ (checks[i].status = "fail" => checks[i].errors # 0)
  BY <1>2 DEF SmokeChecks
<1>4. SmokeReport = ReportOf(checks)
  BY DEF SmokeReport
<1> HIDE DEF checks
<1>5. QED
  BY <1>1, <1>3, <1>4, PlainStepCounts

\* No step is counted at the start.
LEMMA CountsStart == RaccoonInit => CountsInv
<1> SUFFICES ASSUME RaccoonInit
             PROVE  CountsInv
  OBVIOUS
<1>1. gate = [running |-> FALSE, profile |-> "fast", failFast |-> FALSE,
              blocked |-> FALSE, steps |-> << >>, smoking |-> FALSE]
  BY DEF RaccoonInit, GateInit, IdleGate
<1>2. Len(gate.steps) = 0 /\ ~gate.smoking
  BY <1>1
<1>3. QED
  BY <1>2 DEF CountsInv

\* Every step of every command keeps the counts.
LEMMA CountsNext ==
  ASSUME CountsInv, GateInv, SmokeInv, line \in CommandLines, tree = Results(line.project),
         [RaccoonNext]_raccoonVars
  PROVE  CountsInv'
<1>1. CASE UNCHANGED gateVars
  BY <1>1 DEF gateVars, CountsInv
<1>2. CASE StartGateCommand
  <2>1. gate' = [running |-> TRUE, profile |-> line.profile, failFast |-> line.failFast,
                 blocked |-> FALSE, steps |-> << >>, smoking |-> FALSE]
    BY <1>2 DEF StartGateCommand, StartGate, IdleGate
  <2>2. Len(gate'.steps) = 0 /\ ~gate'.smoking
    BY <2>1
  <2>3. QED
    BY <2>2 DEF CountsInv
<1>3. gate.profile \in Profiles
  BY DEF GateInv, GateTypes
<1>4. CASE RunStatic
  <2>1. Len(gate.steps) < 7
    BY <1>4, StepsByPosition DEF RunStatic, MoreSteps
  <2>2. PICK n \in 0 .. 6 : Len(gate.steps) = n
    BY <2>1, CountIs
  <2>3. n # 6 /\ NextStep \in StaticStepNames
    <3>1. n # 6
      BY <1>4, <2>2, NextStepIs DEF RunStatic
    <3>2. n + 1 \in 1 .. 6
      BY <3>1
    <3>3. QED
      BY <2>2, <3>1, <3>2, StepsByPosition DEF NextStep
  <2> DEFINE step == StepOf(NextStep, gate.profile, tree[NextStep])
  <2>4. gate' = Pushed(step)
    BY <1>4 DEF RunStatic
  <2>5. step.errors \in Nat /\ (step.status = "fail" => step.errors > 0)
    BY <1>3, <2>3, StaticCounts
  <2> HIDE DEF step
  <2>6. QED
    BY <2>1, <2>2, <2>3, <2>4, <2>5, PushCounts
<1>5. CASE SkipStep
  <2>1. Len(gate.steps) < 7
    BY <1>5, StepsByPosition DEF SkipStep, MoreSteps
  <2>2. gate' = Pushed(SkippedStep(NextStep))
    BY <1>5 DEF SkipStep
  <2>3. SkippedStep(NextStep).errors = 0 /\ SkippedStep(NextStep).status = "skip"
    BY DEF SkippedStep
  <2>4. QED
    BY <2>1, <2>2, <2>3, PushCounts
<1>6. CASE GateStartsSmoke
  <2>1. gate' = [gate EXCEPT !.smoking = TRUE] /\ gate.profile = "deep"
    BY <1>6 DEF GateStartsSmoke, BeginGateSmoke, IncludesRuntime
  <2>2. gate'.steps = gate.steps /\ gate'.profile = gate.profile
    BY <2>1 DEF GateInv, GateTypes
  <2>3. QED
    BY <2>1, <2>2 DEF CountsInv
<1>7. CASE GateEndsSmoke
  <2>1. gate.smoking /\ gate.profile = "deep" /\ Len(gate.steps) = 6
    BY <1>7 DEF GateEndsSmoke, EndGateSmoke, CountsInv, GateInv
  <2> DEFINE step == StepOf("runtime-smoke", gate.profile, Ok(SmokeReport))
  <2>2. gate' = Pushed(step)
    BY <1>7 DEF GateEndsSmoke, EndGateSmoke
  <2>3. step.errors \in Nat /\ (step.status = "fail" => step.errors > 0)
    <3>1. gate.profile # "ci"
      BY <2>1
    <3>2. QED
      BY <3>1, SmokeCounts
  <2> HIDE DEF step
  <2>4. QED
    BY <2>1, <2>2, <2>3, PushCounts
<1>8. QED
  BY <1>1, <1>2, <1>4, <1>5, <1>6, <1>7, OwnVariables DEF GateStep

\* The counts agree in every behaviour.
LEMMA CountsInvariant == RaccoonSpec => []CountsInv
<1>1. CountsInv /\ GateInv /\ SmokeInv /\ line \in CommandLines /\ tree = Results(line.project)
        /\ [RaccoonNext]_raccoonVars => CountsInv'
  BY CountsNext
<1>2. QED
  BY <1>1, CountsStart, GateInvariant, SmokeInvariant, CommandLineKept, TreeKept, PTL DEF RaccoonSpec

\* Whatever the analyzers find on a tree, the ci gate passes exactly when they
\* count neither an error nor a warning, and a gate that stops names a number of
\* errors to fix.
THEOREM CountsAgree == RaccoonSpec => []CountsMatchVerdict
<1>1. ASSUME CountsInv, GateInv, line \in CommandLines, tree = Results(line.project), GateDone
      PROVE  /\ gate.profile = "ci" =>
                  (GatePassed <=> \A s \in StaticStepNames :
                                      /\ ~tree[s].error
                                      /\ CountErrors(tree[s].report) = 0
                                      /\ CountWarnings(tree[s].report) = 0)
             /\ Verdict.action = "stop" => Verdict.toFix > 0
  <2>1. Len(gate.steps) = 7 /\ DOMAIN gate.steps = 1 .. 7
    BY <1>1, StepsByPosition DEF GateDone, GateInv, GateTypes
  <2> DEFINE clear(s) == /\ ~tree[s].error
                         /\ CountErrors(tree[s].report) = 0
                         /\ CountWarnings(tree[s].report) = 0
  <2>2. ASSUME gate.profile = "ci"
        PROVE  GatePassed <=> \A s \in StaticStepNames : clear(s)
    <3>1. \A s \in StaticStepNames : StepOf(s, "ci", tree[s]).status # "fail" <=> clear(s)
      <4>1. "ci" \in Profiles
        BY DEF Profiles
      <4>2. QED
        BY <1>1, <4>1, StaticCounts
    <3>2. \A s : Standalone(s) = StepOf(s, "ci", tree[s])
      BY <2>2 DEF Standalone
    <3> HIDE DEF clear
    <3>3. ASSUME GatePassed PROVE \A s \in StaticStepNames : clear(s)
      BY <1>1, <3>1, <3>2, <3>3, NoneFails
    <3>4. ASSUME \A s \in StaticStepNames : clear(s) PROVE GatePassed
      <4>1. \A i \in 1 .. 6 : Standalone(GateSteps[i]).status # "fail"
        BY <3>1, <3>2, <3>4, StepsByPosition
      <4>2. \A i \in 1 .. 6 : gate.steps[i].status # "fail"
        BY <1>1, <2>1, <4>1 DEF GateInv, StepsInPlace
      <4>3. gate.steps[7].status = "skip"
        BY <1>1, <2>1, <2>2 DEF CountsInv
      <4>4. \A i \in 1 .. 7 : i \in 1 .. 6 \/ i = 7
        OBVIOUS
      <4>5. QED
        BY <2>1, <4>2, <4>3, <4>4 DEF GatePassed
    <3>5. QED
      BY <3>3, <3>4
  <2>3. ASSUME Verdict.action = "stop"
        PROVE  Verdict.toFix > 0
    <3> DEFINE failed == [i \in DOMAIN gate.steps |->
                            [errors |-> IF i \in FailedSteps THEN gate.steps[i].errors ELSE 0]]
               counted == [checks |-> failed]
    <3>1. Verdict.toFix = CountErrors(counted) /\ FailedSteps # {}
      BY <2>3 DEF Verdict
    <3>2. failed = [i \in 1 .. 7 |->
                      [errors |-> IF i \in FailedSteps THEN gate.steps[i].errors ELSE 0]]
      BY <2>1
    <3>3. \A i \in 1 .. 7 : gate.steps[i].errors \in Nat
                            /\ (gate.steps[i].status = "fail" => gate.steps[i].errors > 0)
      BY <1>1, <2>1 DEF CountsInv
    <3>4. PICK f \in 1 .. 7 : f \in FailedSteps /\ gate.steps[f].status = "fail"
      BY <2>1, <3>1 DEF FailedSteps
    <3>5. \A i \in 1 .. 7 : failed[i].errors \in Nat
      BY <3>2, <3>3
    <3>6. failed[f].errors # 0
      BY <3>2, <3>3, <3>4
    <3>7. counted.checks = failed /\ Len(failed) = 7
      BY <3>2
    <3> HIDE DEF failed, counted
    <3>8. CountErrors(counted) \in Nat /\ CountErrors(counted) # 0
      BY <3>5, <3>6, <3>7, ErrorsCounted
    <3>9. QED
      BY <3>1, <3>8
  <2>4. QED
    BY <2>2, <2>3
<1>2. CountsInv /\ GateInv /\ line \in CommandLines /\ tree = Results(line.project) => CountsMatchVerdict
  BY <1>1 DEF CountsMatchVerdict
<1>3. QED
  BY <1>2, CountsInvariant, GateInvariant, CommandLineKept, TreeKept, PTL

-----------------------------------------------------------------------------
(* The layers of the Go code *)

\* What the assumption on the command lines says of one index.
FiniteIndex(index) ==
  /\ IsFiniteSet(DOMAIN index)
  /\ \A i \in DOMAIN index :
        /\ index[i].path \in Seq(STRING) /\ IsFiniteSet(index[i].imports)
        /\ \A m \in index[i].imports : m.path \in Seq(STRING)

\* The layer in the path of a file is the one of its directory.
LEMMA LayerOfPlace ==
  ASSUME NEW f, f.path \in Seq(STRING), LayerAt(DirOf(f.path)) \in Layers
  PROVE  /\ LayerOfFile(f) = LayerAt(DirOf(f.path))
         /\ IsPrefix(<<"internal">>, DirOf(f.path))
<1> DEFINE path == f.path
           n == Len(path) - 1
           dir == DirOf(path)
<1>1. dir = SubSeq(path, 1, n) /\ n \in Int /\ n + 1 = Len(path) /\ n + 1 >= 0 /\ path \in Seq(STRING)
  BY DEF DirOf
<1>2. Len(dir) > 1 /\ dir[1] = "internal" /\ LayerAt(dir) = dir[2]
  BY NoneIsNoLayer DEF LayerAt
<1> HIDE DEF n, dir, path
<1>3. n > 1 /\ Len(dir) = n
  <2>1. CASE n < 1
    <3>1. dir = << >>
      BY <1>1, <2>1
    <3>2. QED
      BY <3>1, <1>2
  <2>2. CASE n >= 1
    BY <1>1, <1>2, <2>2
  <2>3. QED
    BY <2>1, <2>2, <1>1
<1>4. dir[1] = path[1] /\ dir[2] = path[2]
  BY <1>1, <1>3
<1>5. LayerOfFile(f) = LayerAt(dir)
  <2>1. Len(path) > 1 /\ path[1] = "internal"
    BY <1>1, <1>2, <1>3, <1>4
  <2>2. LayerOfFile(f) = path[2]
    BY <2>1 DEF LayerOfFile, path
  <2>3. QED
    BY <2>2, <1>2, <1>4
<1>6. IsPrefix(<<"internal">>, dir)
  <2>1. dir \in Seq(STRING)
    BY <1>1, <1>3
  <2> DEFINE one == <<"internal">>
             S == {"internal"}
             a == SubSeq(one, 1, 1)
             b == SubSeq(dir, 1, 1)
  <2>2. one[1] = "internal" /\ Len(one) = 1
    OBVIOUS
  <2> HIDE DEF one
  <2>3. \A i \in 1 .. 1 : one[i] \in S /\ dir[i] \in S
    <3>1. \A i \in 1 .. 1 : i = 1
      OBVIOUS
    <3>2. one[1] \in S /\ dir[1] \in S
      BY <2>2, <1>2
    <3>3. QED
      BY <3>1, <3>2
  <2>4. a \in Seq(S) /\ Len(a) = 1 /\ \A i \in 1 .. 1 : a[i] = one[1 + i - 1]
    BY <2>3, SubSeqProperties
  <2>5. b \in Seq(S) /\ Len(b) = 1 /\ \A i \in 1 .. 1 : b[i] = dir[1 + i - 1]
    BY <2>3, SubSeqProperties
  <2> HIDE DEF a, b
  <2>6. a[1] = b[1]
    BY <2>2, <2>4, <2>5, <1>2
  <2>7. a = b
    BY <2>4, <2>5, <2>6, SeqEqual
  <2>8. 1 <= Len(dir)
    BY <1>1, <1>3
  <2>9. QED
    BY <2>2, <2>7, <2>8 DEF IsPrefix, one, a, b
<1>7. QED
  BY <1>5, <1>6 DEF dir, path

\* The layer an import of the project names is the one of the directory behind
\* the module's name.
LEMMA LayerOfImport ==
  ASSUME NEW m, m.path \in Seq(STRING), m.kind = "internal", ImportKind(m.path) = "internal",
         LayerAt(Tail(m.path)) \in Layers
  PROVE  ImportedLayer(m) = LayerAt(Tail(m.path))
<1> DEFINE path == m.path
           rest == Tail(path)
           named == {i \in 1 .. Len(path) : path[i] = "internal"}
<1>1. Len(rest) > 1 /\ rest[1] = "internal" /\ LayerAt(rest) = rest[2]
  BY NoneIsNoLayer DEF LayerAt
<1>2. path \in Seq(STRING)
  OBVIOUS
<1>3. path # << >> /\ path[1] # "internal"
  <2>1. Contains(path, "internal") /\ path[1] # "internal"
    BY DEF ImportKind
  <2>2. PICK i \in 1 .. Len(path) : path[i] = "internal"
    BY <2>1 DEF Contains
  <2>3. QED
    BY <2>1, <2>2
<1>4. ImportedLayer(m) = LET i == IF named # {} THEN Min(named) ELSE 0
                         IN  IF i > 0 /\ i < Len(path) THEN path[i + 1] ELSE None
  BY DEF ImportedLayer, SelectInSeq
<1> HIDE DEF path, rest
<1>5. Len(path) > 2 /\ path[2] = "internal" /\ path[3] = rest[2]
  <2>1. rest = Tail(path)
    BY DEF rest
  <2>2. Len(rest) = Len(path) - 1 /\ Len(path) \in Nat /\ Len(path) > 0
    BY <2>1, <1>2, <1>3
  <2>3. Len(path) > 2
    BY <2>2, <1>1
  <2>4. rest[1] = path[2] /\ rest[2] = path[3]
    BY <2>1, <2>3, <1>2, <1>3
  <2>5. QED
    BY <2>3, <2>4, <1>1
<1>6. Min(named) = 2 /\ named # {}
  <2>1. 2 \in named /\ named \subseteq Nat
    BY <1>2, <1>5
  <2>2. \A i \in named : 2 <= i
    <3>1. SUFFICES ASSUME NEW i \in named PROVE 2 <= i
      OBVIOUS
    <3>2. i \in Nat /\ i >= 1 /\ i # 1
      BY <1>2, <1>3
    <3>3. QED
      BY <3>2
  <2> HIDE DEF named
  <2>3. \A i \in named : (\A j \in named : i <= j) => i = 2
    BY <2>1, <2>2
  <2>4. QED
    BY <2>1, <2>2, <2>3 DEF Min
<1>7. ImportedLayer(m) = path[3]
  BY <1>4, <1>5, <1>6
<1>8. QED
  BY <1>1, <1>5, <1>7 DEF rest, path

\* The imports the layer check finds fault with.
BadImports(index) ==
  Imports(FilesUnder(index, <<"internal">>),
          LAMBDA f, m : /\ LayerOfFile(f) \in Layers
                        /\ ImportedLayer(m) \in Layers
                        /\ ~Allowed(LayerOfFile(f), ImportedLayer(m)))

\* A finite index has finitely many of them.
LEMMA FinitelyBad ==
  ASSUME NEW index, FiniteIndex(index)
  PROVE  IsFiniteSet(BadImports(index))
<1> DEFINE D == DOMAIN index
           pairs == [i \in D |-> {<<index[i].path, m.path>> : m \in index[i].imports}]
<1>1. IsFiniteSet(D)
  BY DEF FiniteIndex
<1>2. ASSUME NEW i \in D PROVE IsFiniteSet(pairs[i])
  <2> DEFINE S == index[i].imports
             f == [m \in S |-> <<index[i].path, m.path>>]
             T == {<<index[i].path, m.path>> : m \in S}
  <2>1. IsFiniteSet(S)
    BY DEF FiniteIndex
  <2>2. DOMAIN f = S /\ \A y \in T : \E x \in S : y = f[x]
    OBVIOUS
  <2>3. pairs[i] = T
    OBVIOUS
  <2> HIDE DEF S, f, T, pairs
  <2>4. QED
    BY <2>1, <2>2, <2>3, FiniteImage
<1>3. ASSUME NEW y \in BadImports(index) PROVE \E i \in D : y \in pairs[i]
  <2>1. PICK f \in FilesUnder(index, <<"internal">>) : \E m \in f.imports : y = <<f.path, m.path>>
    BY <1>3 DEF BadImports, Imports
  <2>2. PICK i \in D : f = index[i]
    BY <2>1 DEF FilesUnder, ToSet
  <2>3. QED
    BY <2>1, <2>2
<1>4. DOMAIN pairs = D
  OBVIOUS
<1> HIDE DEF D, pairs
<1>5. \A y \in BadImports(index) : \E i \in D : y \in pairs[i]
  BY <1>3
<1>6. QED
  BY <1>1, <1>2, <1>4, <1>5, FiniteCover

\* An index whose layer check finds nothing: no import between the directories
\* of two layers goes outwards.
LEMMA ImportsGoInwards ==
  ASSUME NEW index, FiniteIndex(index), BadImports(index) = {},
         \A i \in DOMAIN index : \A m \in index[i].imports : m.kind = ImportKind(m.path),
         NEW u \in Uses(index), LayerAt(u[1]) \in Layers, LayerAt(u[2]) \in Layers
  PROVE  Allowed(LayerAt(u[1]), LayerAt(u[2]))
<1>1. PICK i \in Code(index) :
        u \in {<<DirOf(index[i].path), Tail(m.path)>> : m \in {m \in index[i].imports : m.kind = "internal"}}
  BY DEF Uses
<1> DEFINE f == index[i]
<1>2. i \in DOMAIN index /\ ~f.test
  BY <1>1 DEF Code
<1>3. PICK m \in f.imports : m.kind = "internal" /\ u = <<DirOf(f.path), Tail(m.path)>>
  BY <1>1
<1>4. /\ f.path \in Seq(STRING) /\ m.path \in Seq(STRING) /\ ImportKind(m.path) = "internal"
      /\ u[1] = DirOf(f.path) /\ u[2] = Tail(m.path)
  BY <1>2, <1>3 DEF FiniteIndex
<1> HIDE DEF f
<1>5. LayerOfFile(f) = LayerAt(u[1]) /\ IsPrefix(<<"internal">>, DirOf(f.path))
  BY <1>4, LayerOfPlace
<1>6. ImportedLayer(m) = LayerAt(u[2])
  BY <1>3, <1>4, LayerOfImport
<1>7. f \in FilesUnder(index, <<"internal">>)
  BY <1>2, <1>5 DEF f, FilesUnder, ToSet
<1>8. CASE ~Allowed(LayerOfFile(f), ImportedLayer(m))
  <2>1. <<f.path, m.path>> \in BadImports(index)
    BY <1>3, <1>5, <1>6, <1>7, <1>8 DEF BadImports, Imports
  <2>2. QED
    BY <2>1
<1>9. QED
  BY <1>5, <1>6, <1>8

\* What a layer may import is itself or further in.
LEMMA AllowedIsInwards ==
  ASSUME NEW from \in Layers, NEW to \in Layers, Allowed(from, to)
  PROVE  to = from \/ Depth[to] < Depth[from]
<1>1. Layers = {"domain", "application", "adapters", "actors", "interfaces"}
  BY DEF Layers, MayImport
<1>2. from = to \/ to \in MayImport[from]
  BY DEF Allowed
<1>3. CASE from = "domain"
  BY <1>2, <1>3 DEF MayImport
<1>4. CASE from = "application"
  BY <1>2, <1>4 DEF MayImport, Depth
<1>5. CASE from = "adapters"
  BY <1>2, <1>5 DEF MayImport, Depth
<1>6. CASE from = "actors"
  BY <1>2, <1>6 DEF MayImport, Depth
<1>7. CASE from = "interfaces"
  BY <1>2, <1>7 DEF MayImport, Depth
<1>8. QED
  BY <1>1, <1>3, <1>4, <1>5, <1>6, <1>7

\* Nor does a chain of imports go outwards: every directory on it is of the
\* layer it starts in or of one further in.
LEMMA ChainsGoInwards ==
  ASSUME NEW index, IsFiniteSet(DOMAIN index), NEW dir, LayerAt(dir) \in Layers,
         \A u \in Uses(index) : LayerAt(u[1]) \in Layers /\ LayerAt(u[2]) \in Layers
                                  => Allowed(LayerAt(u[1]), LayerAt(u[2])),
         NEW d \in ReachableFrom(index, dir)
  PROVE  LayerAt(d) = LayerAt(dir) \/ Depth[LayerAt(d)] < Depth[LayerAt(dir)]
<1> DEFINE from == LayerAt(dir)
           Further(dirs) == dirs \cup ImportedBy(index, dirs)
           seen[n \in Nat] == IF n = 0 THEN {dir} ELSE Further(seen[n - 1])
           last == Cardinality(DOMAIN index)
           In(e) == LayerAt(e) \in Layers /\ (LayerAt(e) = from \/ Depth[LayerAt(e)] < Depth[from])
           inwards == {e \in {dir} \cup {u[2] : u \in Uses(index)} : In(e)}
           A == SUBSET inwards
           base == {dir}
           F == [n \in Nat |-> [dirs \in A |-> Further(dirs)]]
<1>1. ReachableFrom(index, dir) = seen[last]
  BY DEF ReachableFrom
<1>2. last \in Nat
  BY FS_CardinalityType
<1> HIDE DEF last
<1>3. base \in A
  OBVIOUS
<1>4. \A l \in Layers : Depth[l] \in Nat
  BY DEF Layers, MayImport, Depth
<1>5. ASSUME NEW dirs \in A PROVE Further(dirs) \in A
  <2>1. SUFFICES ASSUME NEW u \in Uses(index), u[1] \in dirs, LayerAt(u[2]) \in Layers
                 PROVE  In(u[2])
    BY DEF ImportedBy
  <2>2. In(u[1])
    BY <2>1
  <2>3. Allowed(LayerAt(u[1]), LayerAt(u[2]))
    BY <2>1, <2>2
  <2>4. LayerAt(u[2]) = LayerAt(u[1]) \/ Depth[LayerAt(u[2])] < Depth[LayerAt(u[1])]
    BY <2>1, <2>2, <2>3, AllowedIsInwards
  <2> DEFINE x == LayerAt(u[1])
             y == LayerAt(u[2])
  <2>5. Depth[x] \in Nat /\ Depth[y] \in Nat /\ Depth[from] \in Nat
    BY <1>4, <2>1, <2>2
  <2>6. /\ y \in Layers /\ (x = from \/ Depth[x] < Depth[from])
        /\ (y = x \/ Depth[y] < Depth[x])
    BY <2>1, <2>2, <2>4
  <2> HIDE DEF x, y, from
  <2>7. y = from \/ Depth[y] < Depth[from]
    BY <2>5, <2>6
  <2>8. QED
    BY <2>6, <2>7 DEF y
<1> HIDE DEF inwards, base
<1>6. F \in [Nat -> [A -> A]]
  <2> HIDE DEF A, Further
  <2>1. QED
    BY <1>5
<1>7. PICK g \in [Nat -> A] : Recursive(g, base, F)
  <2> HIDE DEF A, F
  <2>1. QED
    BY <1>3, <1>6, RecursionExists
<1>8. \A n \in Nat : g[n] = IF n = 0 THEN {dir} ELSE Further(g[n - 1])
  <2>1. g[0] = base /\ \A n \in Nat \ {0} : g[n] = F[n][g[n - 1]]
    BY <1>7 DEF Recursive
  <2>2. \A n \in Nat \ {0} : n - 1 \in Nat /\ g[n - 1] \in A
    BY <1>7
  <2> HIDE DEF A, Further
  <2>3. QED
    BY <2>1, <2>2 DEF base
<1>9. g = [n \in Nat |-> IF n = 0 THEN {dir} ELSE Further(g[n - 1])]
  <2>1. g = [n \in Nat |-> g[n]]
    BY <1>7
  <2> HIDE DEF Further
  <2>2. QED
    BY <1>8, <2>1
<1>10. seen = [n \in Nat |-> IF n = 0 THEN {dir} ELSE Further(seen[n - 1])]
  BY <1>9
<1> HIDE DEF seen
<1>11. \A n \in Nat : seen[n] \in A
  <2> DEFINE T == {n \in Nat : seen[n] \in A}
  <2> HIDE DEF A, Further
  <2>1. 0 \in T
    BY <1>3, <1>10 DEF base
  <2>2. ASSUME NEW n \in Nat, n \in T PROVE n + 1 \in T
    <3>1. n + 1 \in Nat /\ n + 1 # 0 /\ (n + 1) - 1 = n
      OBVIOUS
    <3>2. seen[n + 1] = Further(seen[n])
      BY <1>10, <3>1
    <3>3. QED
      BY <1>5, <2>2, <3>1, <3>2
  <2>3. Nat \subseteq T
    <3> HIDE DEF T
    <3>1. QED
      BY <2>1, <2>2, SetInduction
  <2>4. QED
    BY <2>3
<1>12. d \in inwards
  BY <1>1, <1>2, <1>11
<1>13. QED
  BY <1>12 DEF inwards

\* The imports of an indexed file are told apart by their path.
LEMMA KindByPath ==
  ASSUME NEW files, NEW i \in DOMAIN IndexFiles(files), NEW m \in IndexFiles(files)[i].imports
  PROVE  m.kind = ImportKind(m.path)
<1>1. PICK lines : IndexFiles(files)[i].imports = ImportsOf(lines)
  BY DEF IndexFiles
<1>2. m \in ImportsOf(lines)
  BY <1>1
<1>3. QED
  BY <1>2 DEF ImportsOf

\* A report of arch-guard that passed found no import that goes outwards.
LEMMA PassedArchGuard ==
  ASSUME NEW p, FiniteIndex(IndexFiles(p.gofiles)), ArchReport(p).passed
  PROVE  BadImports(IndexFiles(p.gofiles)) = {}
<1> DEFINE index == IndexFiles(p.gofiles)
           bad == BadImports(index)
<1>1. ASSUME NEW report, NEW wanted, ReportWith(report, wanted), report.passed,
             NEW name, NEW errors, FindsAll(name, errors, {}) \in wanted, IsFiniteSet(errors)
      PROVE  errors = {}
  <2>1. PICK checks : report = ReportOf(checks) /\ CheckList(checks) /\ wanted \subseteq ToSet(checks)
    BY <1>1 DEF ReportWith
  <2>2. checks \in Seq(ToSet(checks)) /\ FindsAll(name, errors, {}) \in ToSet(checks)
    BY <1>1, <2>1 DEF CheckList
  <2>3. \A i \in 1 .. Len(checks) : checks[i].status # "fail"
    BY <1>1, <2>1, <2>2, ReportSays
  <2>4. DOMAIN checks = 1 .. Len(checks)
    BY <2>2
  <2>5. FindsAll(name, errors, {}).status # "fail"
    BY <2>2, <2>3, <2>4 DEF ToSet
  <2>6. ~(Cardinality(errors) > 0)
    BY <2>5 DEF FindsAll, FromFindings
  <2>7. IsFiniteSet({}) /\ ~(Cardinality({}) > 0)
    BY FS_EmptySet
  <2>8. QED
    BY <1>1, <2>6, <2>7, NothingFound
<1>2. "internal" \in p.entries
  <2>1. SUFFICES ASSUME "internal" \notin p.entries PROVE FALSE
    OBVIOUS
  <2>2. ArchReport(p) = ReportOf(<<FindsAll("setup", {"internal"}, {})>>)
    BY <2>1 DEF ArchReport
  <2> DEFINE c == FindsAll("setup", {"internal"}, {})
  <2>3. IsCheck(c)
    BY ChecksAreChecks
  <2> HIDE DEF c
  <2>4. CheckList(<<c>>) /\ c \in ToSet(<<c>>)
    BY <2>3, ShortLists
  <2>5. ReportWith(ArchReport(p), {c})
    BY <2>2, <2>4 DEF ReportWith, c
  <2>6. IsFiniteSet({"internal"})
    BY FS_Singleton
  <2>7. {"internal"} = {}
    BY <1>1, <2>5, <2>6 DEF c
  <2>8. QED
    BY <2>7
<1>3. ReportWith(ArchReport(p), {CheckLayerDeps(index)})
  BY <1>2, ArchChecks
<1>4. CheckLayerDeps(index) = FindsAll("layer-dependency-direction", bad, {})
  BY DEF CheckLayerDeps, BadImports
<1>5. IsFiniteSet(bad)
  BY FinitelyBad
<1> HIDE DEF index, bad
<1>6. bad = {}
  BY <1>1, <1>3, <1>4, <1>5
<1>7. QED
  BY <1>6 DEF index, bad

\* What arch-guard lets pass is layered: no chain of imports among the layers
\* leaves one for another further out.
THEOREM LayersAreKept == RaccoonSpec => []LayersHold
<1>1. line \in CommandLines /\ tree = Results(line.project) => LayersHold
  <2> DEFINE p == line.project
             index == IndexFiles(p.gofiles)
  <2>1. SUFFICES ASSUME line \in CommandLines, tree = Results(p), tree["arch-guard"].report.passed,
                        NEW i \in Code(index), LayerAt(DirOf(index[i].path)) \in Layers,
                        NEW d \in ReachableFrom(index, DirOf(index[i].path))
                 PROVE  \/ LayerAt(d) = LayerAt(DirOf(index[i].path))
                        \/ Depth[LayerAt(d)] < Depth[LayerAt(DirOf(index[i].path))]
    BY DEF LayersHold
  <2>2. FiniteIndex(index)
    BY <2>1, IndexesAreFinite DEF FiniteIndex
  <2>3. ArchReport(p).passed
    <3>1. "arch-guard" \in StaticStepNames /\ tree["arch-guard"] = Ok(ArchReport(p))
      BY <2>1 DEF StaticStepNames, StaticSteps, ToSet, Results, GivingUp
    <3>2. QED
      BY <2>1, <3>1 DEF Ok
  <2>4. \A j \in DOMAIN index : \A m \in index[j].imports : m.kind = ImportKind(m.path)
    BY KindByPath
  <2>5. BadImports(index) = {}
    BY <2>2, <2>3, PassedArchGuard
  <2> HIDE DEF index
  <2>6. \A u \in Uses(index) : LayerAt(u[1]) \in Layers /\ LayerAt(u[2]) \in Layers
                                => Allowed(LayerAt(u[1]), LayerAt(u[2]))
    BY <2>2, <2>4, <2>5, ImportsGoInwards
  <2>7. IsFiniteSet(DOMAIN index)
    BY <2>2 DEF FiniteIndex
  <2>8. QED
    BY <2>1, <2>6, <2>7, ChainsGoInwards
<1>2. QED
  BY <1>1, CommandLineKept, TreeKept, PTL

-----------------------------------------------------------------------------
(* What recommend asks for *)

\* The areas and the dimensions of the tables.
Areas == {"config-files", "compose", "nats-adapters", "kafka-adapters", "domain", "application",
          "http-handlers", "actors", "validator-logic", "consumer-pipeline", "config-lifecycle"}

Dimensions == {"project-structure", "topology", "contracts", "runtime-bindings", "architecture",
               "drift"}

LEMMA AreasAre == ASSUME NEW path PROVE AreasOf(path) \subseteq Areas
<1>1. ToSet(AreaNames) \subseteq Areas
  <2>1. SUFFICES ASSUME NEW i \in DOMAIN AreaNames
                 PROVE  AreaNames[i] \in Areas
    BY DEF ToSet
  <2>2. DOMAIN AreaNames = 1 .. 11
    BY DEF AreaNames
  <2>3. i = 1 \/ i = 2 \/ i = 3 \/ i = 4 \/ i = 5 \/ i = 6 \/ i = 7 \/ i = 8 \/ i = 9 \/ i = 10 \/ i = 11
    BY <2>1, <2>2
  <2>4. QED
    BY <2>3 DEF AreaNames, Areas
<1>2. QED
  BY <1>1 DEF AreasOf

\* The tables, area by area.
LEMMA TablesAgree ==
  ASSUME NEW a \in Areas
  PROVE  /\ TddDimensions(a) \subseteq Dimensions
         /\ RequiredDimensions(a) \subseteq TddDimensions(a)
         /\ RequiredScenarios(a) \subseteq TddScenarios(a)
         /\ ImpactCommands(a) \subseteq {CommandOf(d) : d \in TddDimensions(a)}
                                        \cup {<<"scenario-smoke", s>> : s \in TddScenarios(a)}
<1>1. CASE a \in {"config-files", "compose"}
  BY <1>1 DEF TddDimensions, Dimensions, RequiredDimensions, RequiredScenarios, TddScenarios, ImpactCommands, CommandOf
<1>2. CASE a = "nats-adapters"
  BY <1>2 DEF TddDimensions, Dimensions, RequiredDimensions, RequiredScenarios, TddScenarios, ImpactCommands, CommandOf
<1>3. CASE a = "kafka-adapters"
  BY <1>3 DEF TddDimensions, Dimensions, RequiredDimensions, RequiredScenarios, TddScenarios, ImpactCommands, CommandOf
<1>4. CASE a \in {"domain", "application"}
  BY <1>4 DEF TddDimensions, Dimensions, RequiredDimensions, RequiredScenarios, TddScenarios, ImpactCommands, CommandOf
<1>5. CASE a \in {"http-handlers", "actors"}
  BY <1>5 DEF TddDimensions, Dimensions, RequiredDimensions, RequiredScenarios, TddScenarios, ImpactCommands, CommandOf
<1>6. CASE a = "validator-logic"
  BY <1>6 DEF TddDimensions, Dimensions, RequiredDimensions, RequiredScenarios, TddScenarios, ImpactCommands, CommandOf
<1>7. CASE a = "consumer-pipeline"
  BY <1>7 DEF TddDimensions, Dimensions, RequiredDimensions, RequiredScenarios, TddScenarios, ImpactCommands, CommandOf
<1>8. CASE a = "config-lifecycle"
  BY <1>8 DEF TddDimensions, Dimensions, RequiredDimensions, RequiredScenarios, TddScenarios, ImpactCommands, CommandOf
<1>9. QED
  BY <1>1, <1>2, <1>3, <1>4, <1>5, <1>6, <1>7, <1>8 DEF Areas

\* A static check is not a scenario.
LEMMA CommandsDiffer ==
  ASSUME NEW d \in Dimensions, NEW s
  PROVE  CommandOf(d) # <<"scenario-smoke", s>> /\ <<"verify">> # <<"scenario-smoke", s>>
<1>1. \A x : <<x>> # <<"scenario-smoke", s>>
  <2>1. \A x : DOMAIN <<x>> = 1 .. 1
    OBVIOUS
  <2>2. DOMAIN <<"scenario-smoke", s>> = 1 .. 2
    OBVIOUS
  <2>3. 1 .. 1 # 1 .. 2
    OBVIOUS
  <2>4. QED
    BY <2>1, <2>2, <2>3
<1>2. CommandOf(d) \in {<<"doctor">>, <<"topology-doctor">>, <<"contract-audit">>,
                        <<"runtime-bindings">>, <<"arch-guard">>, <<"drift-detect">>}
  BY DEF Dimensions, CommandOf
<1>3. QED
  BY <1>1, <1>2

\* What a target that is no symbol asks for is what its path asks for.
LEMMA TargetCommands ==
  ASSUME NEW index, NEW target,
         \A f \in ToSet(index) : /\ \A t \in f.types : <<t.name>> # target
                                 /\ \A g \in f.functions : <<g.name>> # target
  PROVE  AnalyzeTarget(index, target).commands = MatchedCommands(target)
<1> DEFINE files == {f \in ToSet(index) : f.path = target}
           inDir == {f \in ToSet(index) : DirOf(f.path) = target}
           unit  == {f \in inDir : ~f.test}
<1>1. {f \in ToSet(index) : \/ \E t \in f.types : <<t.name>> = target
                            \/ \E g \in f.functions : <<g.name>> = target} = {}
  OBVIOUS
<1> DEFINE risk  == <<"unresolved", IF AreasOf(target) = {} THEN "observed" ELSE "inferred">>
           none  == [ImpactOf("unresolved", {}, {}, {}, {}, target) EXCEPT !.risks = {risk}]
           file  == ImpactOf("file", files, Dependents(index, DirOf(target)),
                             ExportedOf(files), ContractsOf(files), target)
           group == ImpactOf("package", unit, Dependents(index, target),
                             ExportedOf(unit), ContractsOf(unit), target)
<1>2. AnalyzeTarget(index, target) \in {file, group, none}
  BY <1>1, Zenon DEF AnalyzeTarget
<1>3. none.commands = MatchedCommands(target)
  BY DEF ImpactOf
<1>4. file.commands = MatchedCommands(target) /\ group.commands = MatchedCommands(target)
  BY DEF ImpactOf
<1> HIDE DEF none, file, group
<1>5. QED
  BY <1>2, <1>3, <1>4

\* What tdd asks for: the checks and the scenarios of every area of every file.
LEMMA TddAsks ==
  ASSUME NEW index, NEW changed, NEW findings
  PROVE  LET advice == Recommend(index, changed, findings) IN
         /\ \A c \in changed : \A a \in AreasOf(c) :
              /\ {CommandOf(d) : d \in TddDimensions(a)} \subseteq advice.after
              /\ {<<"scenario-smoke", s>> : s \in TddScenarios(a)} \subseteq advice.after
         /\ \A s : <<"scenario-smoke", s>> \in advice.after => advice.profile = "deep"
<1> DEFINE areas     == UNION {AreasOf(c) : c \in changed}
           scenarios == UNION {TddScenarios(a) : a \in areas}
           checks    == {CommandOf(d) : d \in UNION {TddDimensions(a) : a \in areas}}
           tdd       == Tdd(index, changed)
           scope     == ChangeScope(changed)
           chosen    == RecommendedScenarios(tdd, findings, scope)
           advice    == Recommend(index, changed, findings)
<1>1. tdd.after = (checks \cup {<<"scenario-smoke", s>> : s \in scenarios}) \cup {<<"verify">>}
      /\ tdd.needsInfra = (scenarios # {})
  BY DEF Tdd
<1>2. advice.after = tdd.after /\ advice.profile = GateProfile(tdd, findings, scope, chosen)
  BY DEF Recommend
<1>3. ASSUME NEW c \in changed, NEW a \in AreasOf(c)
      PROVE  /\ {CommandOf(d) : d \in TddDimensions(a)} \subseteq advice.after
             /\ {<<"scenario-smoke", s>> : s \in TddScenarios(a)} \subseteq advice.after
  <2>1. a \in areas
    OBVIOUS
  <2>2. TddDimensions(a) \subseteq UNION {TddDimensions(b) : b \in areas}
        /\ TddScenarios(a) \subseteq scenarios
    BY <2>1
  <2> HIDE DEF areas, tdd, advice
  <2>3. QED
    BY <1>1, <1>2, <2>2
<1>4. ASSUME NEW s, <<"scenario-smoke", s>> \in advice.after
      PROVE  advice.profile = "deep"
  <2>1. areas \subseteq Areas
    BY AreasAre
  <2>2. \A d \in UNION {TddDimensions(a) : a \in areas} : d \in Dimensions
    BY <2>1, TablesAgree
  <2> HIDE DEF areas, tdd, advice
  <2>3. \A x \in checks : x # <<"scenario-smoke", s>>
    BY <2>2, CommandsDiffer
  <2>4. <<"verify">> # <<"scenario-smoke", s>>
    <3>1. "drift" \in Dimensions
      BY DEF Dimensions
    <3>2. QED
      BY <3>1, CommandsDiffer
  <2> HIDE DEF checks
  <2>5. <<"scenario-smoke", s>> \in {<<"scenario-smoke", t>> : t \in scenarios}
    BY <1>1, <1>2, <1>4, <2>3, <2>4
  <2>6. scenarios # {}
    BY <2>5
  <2> HIDE DEF scenarios, chosen, scope
  <2>7. GateProfile(tdd, findings, scope, chosen) = "deep"
    BY <1>1, <2>6 DEF GateProfile
  <2>8. QED
    BY <1>2, <2>7
<1>5. QED
  BY <1>3, <1>4

\* What the tables say of an area, they say of every changed file.
LEMMA GuidanceHolds == ASSUME line \in CommandLines PROVE GuidanceAgrees
<1> SUFFICES ASSUME line.command = "recommend"
             PROVE  GuidanceAgrees
  BY DEF GuidanceAgrees, Runs
<1> DEFINE index    == IndexFiles(line.project.gofiles)
           findings == DriftOf(line).findings
           advice   == Recommend(index, line.changed, findings)
           impact   == ImpactMap(index, line.changed)
<1>1. /\ \A c \in line.changed : \A a \in AreasOf(c) :
           /\ {CommandOf(d) : d \in TddDimensions(a)} \subseteq advice.after
           /\ {<<"scenario-smoke", s>> : s \in TddScenarios(a)} \subseteq advice.after
      /\ \A s : <<"scenario-smoke", s>> \in advice.after => advice.profile = "deep"
  BY TddAsks
<1>2. \A c \in line.changed : AnalyzeTarget(index, c).commands = MatchedCommands(c)
  <2>1. \A f \in ToSet(index) : /\ \A t \in f.types : <<t.name>> \notin line.changed
                                /\ \A g \in f.functions : <<g.name>> \notin line.changed
    BY FilesAreNotSymbols
  <2> HIDE DEF index
  <2>2. QED
    BY <2>1, TargetCommands
<1>3. impact.commands = UNION {AnalyzeTarget(index, c).commands : c \in line.changed}
  <2> HIDE DEF index
  <2>1. QED
    BY DEF ImpactMap
<1> HIDE DEF index, findings, advice, impact
<1>4. impact.commands \ {<<"quality-gate">>} \subseteq advice.after
  <2>1. SUFFICES ASSUME NEW c \in line.changed, NEW x \in MatchedCommands(c), x # <<"quality-gate">>
                 PROVE  x \in advice.after
    BY <1>2, <1>3
  <2>2. PICK a \in AreasOf(c) : x \in ImpactCommands(a)
    <3> DEFINE asked == UNION {ImpactCommands(b) : b \in AreasOf(c)}
               all   == IF AreasOf(c) = {} THEN {} ELSE {<<"quality-gate">>}
    <3>1. MatchedCommands(c) = asked \cup all
      BY DEF MatchedCommands
    <3>2. x \in asked
      <4>1. all \subseteq {<<"quality-gate">>}
        OBVIOUS
      <4> HIDE DEF asked, all
      <4>2. QED
        BY <2>1, <3>1, <4>1
    <3>3. QED
      BY <3>2
  <2>3. a \in Areas
    BY AreasAre
  <2>4. QED
    BY <1>1, <2>2, <2>3, TablesAgree
<1>5. \A c \in line.changed : RequiredCommands(c) \subseteq advice.after
  <2>1. SUFFICES ASSUME NEW c \in line.changed, NEW a \in AreasOf(c)
                 PROVE  {CommandOf(d) : d \in RequiredDimensions(a)}
                        \cup {<<"scenario-smoke", s>> : s \in RequiredScenarios(a)} \subseteq advice.after
    BY DEF RequiredCommands
  <2>2. a \in Areas
    BY AreasAre
  <2>3. QED
    BY <1>1, <2>2, TablesAgree
<1>6. (\E s \in Scenarios : <<"scenario-smoke", s>> \in advice.after) => IncludesRuntime(advice.profile)
  BY <1>1 DEF IncludesRuntime
<1>7. QED
  BY <1>4, <1>5, <1>6 DEF GuidanceAgrees, Recommended, index, findings, advice, impact

\* Whatever files changed and whatever drifted, recommend asks for all that
\* impact-map and coverage-map ask for, and its gate runs the smoke test when
\* there is a scenario among it.
THEOREM GuidanceIsOne == RaccoonSpec => []GuidanceAgrees
<1>1. line \in CommandLines => GuidanceAgrees
  BY GuidanceHolds
<1>2. QED
  BY <1>1, CommandLineKept, PTL

-----------------------------------------------------------------------------
(* The drift from a baseline *)

\* How baseline-drift ends is what it found.
DriftExits ==
  exit # None /\ line.command = "baseline-drift" =>
     exit = (IF DriftOf(line).error THEN 2 ELSE IF DriftOf(line).verdict = "drifted" THEN 1 ELSE 0)

\* Only that command ends with such a code.
LEMMA DriftExitNext ==
  ASSUME DriftExits, [RaccoonNext]_raccoonVars
  PROVE  DriftExits'
<1>1. CASE UNCHANGED <<line, exit>>
  BY <1>1 DEF DriftExits
<1>2. CASE DriftCommand
  BY <1>2 DEF DriftCommand, EndsWith, DriftExits
<1>3. ASSUME NEW commands, Runs(commands), "baseline-drift" \notin commands, line' = line
      PROVE  DriftExits'
  BY <1>3 DEF Runs, DriftExits
<1>4. CASE StaticCommand
  <2>1. "baseline-drift" \notin StaticStepNames /\ "baseline-drift" \notin {"coverage-map"}
    BY DEF StaticStepNames, StaticSteps, ToSet
  <2>2. QED
    BY <1>3, <1>4, <2>1 DEF StaticCommand, EndsWith
<1>5. CASE AdvisorCommand
  <2>1. "baseline-drift" \notin Advisors
    BY DEF Advisors
  <2>2. QED
    BY <1>3, <1>5, <2>1 DEF AdvisorCommand, EndsWith
<1>6. CASE EndGateCommand \/ EndSmokeCommand \/ EndPackCommand
  <2>1. "baseline-drift" \notin {"quality-gate"} /\ "baseline-drift" \notin {"smoke"}
        /\ "baseline-drift" \notin {"trace-pack"}
    OBVIOUS
  <2>2. QED
    BY <1>3, <1>6, <2>1 DEF EndGateCommand, EndSmokeCommand, EndPackCommand, EndsWith
<1>7. CASE EndBridgeCommand
  <2>1. "baseline-drift" \notin BridgeCommands
    BY DEF BridgeCommands
  <2>2. QED
    BY <1>3, <1>7, <2>1 DEF EndBridgeCommand, EndsWith
<1>8. CASE StartGateCommand \/ GateStep \/ GateStartsSmoke \/ GateEndsSmoke
  BY <1>1, <1>8 DEF StartGateCommand, GateStep, GateStartsSmoke, GateEndsSmoke
<1>9. CASE StartSmokeCommand \/ SmokeStep \/ PackCommand \/ BridgeCommand
  BY <1>1, <1>9 DEF StartSmokeCommand, SmokeStep, PackCommand, BridgeCommand
<1>10. CASE UNCHANGED raccoonVars
  BY <1>1, <1>10 DEF raccoonVars
<1>11. QED
  BY <1>2, <1>4, <1>5, <1>6, <1>7, <1>8, <1>9, <1>10 DEF RaccoonNext

\* A finite set of numbers has a largest one.
LEMMA LargestOf ==
  ASSUME NEW S, S \subseteq Nat, IsFiniteSet(S), S # {}
  PROVE  \E m \in S : \A n \in S : n <= m
<1>1. PICK k \in Nat : ExistsSurjection(1 .. k, S)
  BY FS_NatSurjection
<1>2. PICK f \in Surjection(1 .. k, S) : TRUE
  BY <1>1 DEF ExistsSurjection
<1>3. f \in [1 .. k -> S] /\ \A x \in S : \E j \in 1 .. k : f[j] = x
  BY <1>2 DEF Surjection
<1>10. \A j \in 1 .. k : f[j] \in Nat
  <2>1. SUFFICES ASSUME NEW j \in 1 .. k PROVE f[j] \in Nat
    OBVIOUS
  <2>2. f[j] \in S
    BY <1>3, <2>1
  <2>3. QED
    BY <2>2
<1> DEFINE Has(n) == n = 0 \/ n > k \/ \E m \in 1 .. n : \A j \in 1 .. n : f[j] <= f[m]
           Z == {n \in Nat : Has(n)}
<1>4. 0 \in Z
  OBVIOUS
<1>5. ASSUME NEW n \in Nat, n \in Z
      PROVE  n + 1 \in Z
  <2>1. CASE n + 1 > k
    BY <2>1
  <2>2. CASE n = 0 /\ ~(n + 1 > k)
    <3>1. 1 \in 1 .. k /\ f[1] \in Nat
      BY <1>1, <1>10, <1>5, <2>2
    <3>2. \A j \in 1 .. 1 : f[j] <= f[1]
      BY <3>1
    <3>3. QED
      BY <2>2, <3>2
  <2>3. CASE n # 0 /\ ~(n + 1 > k)
    <3>1. PICK m \in 1 .. n : \A j \in 1 .. n : f[j] <= f[m]
      BY <1>5, <2>3
    <3>2. \A j \in 1 .. n + 1 : f[j] \in Nat
      BY <1>1, <1>10, <1>5, <2>3
    <3>3. CASE f[n + 1] <= f[m]
      <4>1. \A j \in 1 .. n + 1 : f[j] <= f[m]
        BY <3>1, <3>3
      <4>2. QED
        BY <4>1
    <3>4. CASE ~(f[n + 1] <= f[m])
      <4>1. \A j \in 1 .. n + 1 : f[j] <= f[n + 1]
        BY <3>1, <3>2, <3>4
      <4>2. QED
        BY <4>1
    <3>5. QED
      BY <3>3, <3>4
  <2>4. QED
    BY <2>1, <2>2, <2>3
<1>6. k \in Z
  <2> HIDE DEF Z
  <2>1. QED
    BY <1>4, <1>5, SetInduction
<1>7. k # 0
  <2>1. PICK x \in S : TRUE
    OBVIOUS
  <2>2. PICK j \in 1 .. k : f[j] = x
    BY <1>3, <2>1
  <2>3. QED
    BY <1>1, <2>2
<1>8. PICK m \in 1 .. k : \A j \in 1 .. k : f[j] <= f[m]
  BY <1>6, <1>7
<1>9. QED
  BY <1>3, <1>8

\* What a map of the entries of a section holds at a key: the data of the last
\* entry of that key.
LEMMA MapHolds ==
  ASSUME NEW entries, NEW e \in entries, \A o \in entries : o.key = e.key => o.at <= e.at
  PROVE  /\ DOMAIN MapOf(entries) = {o.key : o \in entries}
         /\ \E x \in entries : x.key = e.key /\ MapOf(entries)[e.key] = x.data
<1> DEFINE k == e.key
           Newest(x) == x.key = k /\ \A o \in entries : o.key = k => o.at <= x.at
           x == CHOOSE y \in entries : Newest(y)
<1>1. Newest(e)
  OBVIOUS
<1>2. x \in entries /\ Newest(x)
  BY <1>1
<1>3. MapOf(entries)[k] = x.data
  BY DEF MapOf
<1>4. DOMAIN MapOf(entries) = {o.key : o \in entries}
  BY DEF MapOf
<1> HIDE DEF x
<1>5. QED
  BY <1>2, <1>3, <1>4

\* The keys of the map are those of the entries.
LEMMA MapKeys == ASSUME NEW entries PROVE DOMAIN MapOf(entries) = {o.key : o \in entries}
BY DEF MapOf

\* A drift that is not a failure holds nothing critical.
LEMMA NothingCritical ==
  ASSUME NEW before, NEW after,
         ~ BaselineDrift(before, after).error, BaselineDrift(before, after).verdict # "drifted"
  PROVE  before # None /\ \A f \in DriftFindings(before, after) : f.severity # "critical"
<1>1. before # None /\ Comparable(before, after)
  BY DEF BaselineDrift
<1>2. DriftVerdict(DriftFindings(before, after)) # "drifted"
  BY <1>1 DEF BaselineDrift
<1> HIDE DEF DriftFindings
<1>3. \A findings : (\E f \in findings : f.severity = "critical") => DriftVerdict(findings) = "drifted"
  BY DEF DriftVerdict
<1>4. QED
  BY <1>1, <1>2, <1>3

\* The sections the difference of two snapshots compares.
LEMMA SectionsOf ==
  ASSUME NEW x, NEW y, NEW v, NEW w
  PROVE  LET d == DiffSnapshots(Snapshot(x, v), Snapshot(y, w)) IN
         /\ d.contracts = DiffSection(ContractEntries(x), ContractEntries(y))
         /\ d.interfaces = DiffSection(InterfaceEntries(x), InterfaceEntries(y))
         /\ d.types = DiffSection(TypeEntries(x), TypeEntries(y))
<1> DEFINE b == Snapshot(x, v).sections
           a == Snapshot(y, w).sections
           d == DiffSnapshots(Snapshot(x, v), Snapshot(y, w))
<1>1. d = [s \in DOMAIN b |-> DiffSection(b[s], a[s])]
  BY DEF DiffSnapshots
<1>2. {"contracts", "interfaces", "types"} \subseteq DOMAIN b
  BY DEF Snapshot
<1>3. /\ b["contracts"] = ContractEntries(x) /\ a["contracts"] = ContractEntries(y)
      /\ b["interfaces"] = InterfaceEntries(x) /\ a["interfaces"] = InterfaceEntries(y)
      /\ b["types"] = TypeEntries(x) /\ a["types"] = TypeEntries(y)
  BY DEF Snapshot
<1> HIDE DEF a, b, d
<1>4. QED
  BY <1>1, <1>2, <1>3 DEF d

\* Without a critical finding no contract and no interface is gone, and none
\* lost a method, nor a type a field.
LEMMA NothingLost ==
  ASSUME NEW before, NEW after, \A f \in DriftFindings(before, after) : f.severity # "critical"
  PROVE  LET d == DiffSnapshots(before, after) IN
         /\ d.contracts.removed = {}
         /\ d.interfaces.removed = {}
         /\ \A k \in d.interfaces.modified :
              d.interfaces.before[k].methods \ d.interfaces.after[k].methods = {}
         /\ \A k \in d.types.modified :
              FieldNames(d.types.before[k]) \ FieldNames(d.types.after[k]) = {}
<1> DEFINE d == DiffSnapshots(before, after)
<1>1. /\ ContractDrift(d.contracts) \subseteq DriftFindings(before, after)
      /\ InterfaceDrift(d.interfaces) \subseteq DriftFindings(before, after)
      /\ TypeDrift(d.types) \subseteq DriftFindings(before, after)
  BY Zenon DEF DriftFindings
<1> HIDE DEF d
<1>2. d.contracts.removed = {}
  <2>1. SUFFICES ASSUME NEW k \in d.contracts.removed PROVE FALSE
    OBVIOUS
  <2>2. Finding("contract-surface", "critical", k) \in ContractDrift(d.contracts)
    BY <2>1 DEF ContractDrift
  <2>3. QED
    BY <1>1, <2>2 DEF Finding
<1>3. ASSUME NEW k, \/ k \in d.interfaces.removed
                    \/ /\ k \in d.interfaces.modified
                       /\ d.interfaces.before[k].methods \ d.interfaces.after[k].methods # {}
      PROVE  FALSE
  <2>1. Finding("interface-breaking", "critical", k) \in InterfaceDrift(d.interfaces)
    BY <1>3 DEF InterfaceDrift
  <2>2. QED
    BY <1>1, <2>1 DEF Finding
<1>4. ASSUME NEW k \in d.types.modified,
             FieldNames(d.types.before[k]) \ FieldNames(d.types.after[k]) # {}
      PROVE  FALSE
  <2>1. Finding("type-breaking", "critical", k) \in TypeDrift(d.types)
    BY <1>4 DEF TypeDrift
  <2>2. QED
    BY <1>1, <2>1 DEF Finding
<1>5. QED
  BY <1>2, <1>3, <1>4 DEF d

\* The types of an index, with the position of the file they are declared in.
TypesDeclared(index) == UNION {{<<i, t>> : t \in index[i].types} : i \in Code(index)}

\* One of them is a position and a type declared there.
LEMMA DeclaredAre ==
  ASSUME NEW index
  PROVE  /\ \A i \in Code(index) : \A t \in index[i].types : <<i, t>> \in TypesDeclared(index)
         /\ \A x \in TypesDeclared(index) : x[1] \in Code(index) /\ x[2] \in index[x[1]].types
                                         /\ x = <<x[1], x[2]>>
BY DEF TypesDeclared

\* The exported contracts of an index are the keys of the section of contracts.
ContractNames(index) ==
  {x[2].name : x \in {y \in TypesDeclared(index) : y[2].exported /\ ContractFamily(y[2].name) # None}}

LEMMA ContractKeys ==
  ASSUME NEW index
  PROVE  {e.key : e \in ContractEntries(index)} = ContractNames(index)
<1> DEFINE Entry(i, t) == [at |-> i, key |-> t.name, data |-> ContractFamily(t.name)]
           Is(t) == t.exported /\ ContractFamily(t.name) # None
<1>1. ContractEntries(index) =
        UNION {{Entry(i, t) : t \in {u \in index[i].types : Is(u)}} : i \in Code(index)}
  BY DEF ContractEntries
<1>2. \A i, t : Entry(i, t).key = t.name
  OBVIOUS
<1> HIDE DEF Entry
<1>3. ASSUME NEW n \in {e.key : e \in ContractEntries(index)}
      PROVE  n \in ContractNames(index)
  <2>1. PICK e \in ContractEntries(index) : n = e.key
    BY <1>3
  <2>2. PICK i \in Code(index) : e \in {Entry(i, t) : t \in {u \in index[i].types : Is(u)}}
    BY <1>1, <2>1
  <2>3. PICK t \in index[i].types : Is(t) /\ e = Entry(i, t)
    BY <2>2
  <2>4. <<i, t>> \in TypesDeclared(index)
    BY <2>2, <2>3, DeclaredAre
  <2>5. QED
    BY <1>2, <2>1, <2>3, <2>4 DEF ContractNames
<1>4. ASSUME NEW n \in ContractNames(index)
      PROVE  n \in {e.key : e \in ContractEntries(index)}
  <2>1. PICK x \in TypesDeclared(index) : Is(x[2]) /\ n = x[2].name
    BY <1>4 DEF ContractNames
  <2>2. x[1] \in Code(index) /\ x[2] \in index[x[1]].types
    BY <2>1, DeclaredAre
  <2>3. Entry(x[1], x[2]) \in ContractEntries(index)
    BY <1>1, <2>1, <2>2
  <2>4. QED
    BY <1>2, <2>1, <2>3
<1>5. QED
  BY <1>3, <1>4

\* The interfaces of an index, by package and name.
InterfacesIn(index) == {x \in TypesDeclared(index) : x[2].kind = "interface"}

Place(index, x) == <<index[x[1]].package, x[2].name>>

MethodNames(x) == {m.name : m \in {n \in x[2].members : ~n.embedded}}

\* The section of interfaces has an entry for each, and no other.
LEMMA InterfaceEntriesAre ==
  ASSUME NEW index
  PROVE  /\ \A x \in InterfacesIn(index) : \E e \in InterfaceEntries(index) :
              e.at = x[1] /\ e.key = Place(index, x) /\ e.data.methods = MethodNames(x)
         /\ \A e \in InterfaceEntries(index) : \E x \in InterfacesIn(index) :
              e.at = x[1] /\ e.key = Place(index, x) /\ e.data.methods = MethodNames(x)
<1> DEFINE Entry(i, t) ==
             [at |-> i, key |-> <<index[i].package, t.name>>,
              data |-> [methods |-> {m.name : m \in {m \in t.members : ~m.embedded}},
                        embeds  |-> {m.name : m \in {m \in t.members : m.embedded}}]]
           Fits(e, x) == e.at = x[1] /\ e.key = Place(index, x) /\ e.data.methods = MethodNames(x)
<1>1. InterfaceEntries(index) =
        UNION {{Entry(i, t) : t \in {u \in index[i].types : u.kind = "interface"}} : i \in Code(index)}
  BY DEF InterfaceEntries
<1>2. \A i, t : Fits(Entry(i, t), <<i, t>>)
  BY DEF Place, MethodNames
<1> HIDE DEF Entry, Fits
<1>3. ASSUME NEW x \in InterfacesIn(index)
      PROVE  \E e \in InterfaceEntries(index) : Fits(e, x)
  <2>1. x \in TypesDeclared(index) /\ x[2].kind = "interface"
    BY <1>3 DEF InterfacesIn
  <2>2. x[1] \in Code(index) /\ x[2] \in index[x[1]].types /\ x = <<x[1], x[2]>>
    BY <2>1, DeclaredAre
  <2>3. Entry(x[1], x[2]) \in InterfaceEntries(index)
    BY <1>1, <2>1, <2>2
  <2>4. Fits(Entry(x[1], x[2]), x)
    BY <1>2, <2>2
  <2>5. QED
    BY <2>3, <2>4
<1>4. ASSUME NEW e \in InterfaceEntries(index)
      PROVE  \E x \in InterfacesIn(index) : Fits(e, x)
  <2>1. PICK i \in Code(index) :
          e \in {Entry(i, t) : t \in {u \in index[i].types : u.kind = "interface"}}
    BY <1>1, <1>4
  <2>2. PICK t \in index[i].types : t.kind = "interface" /\ e = Entry(i, t)
    BY <2>1
  <2>3. <<i, t>> \in TypesDeclared(index)
    BY <2>1, <2>2, DeclaredAre
  <2>4. <<i, t>> \in InterfacesIn(index)
    BY <2>2, <2>3 DEF InterfacesIn
  <2>5. QED
    BY <1>2, <2>2, <2>4
<1>5. QED
  BY <1>3, <1>4 DEF Fits

\* No other type of its package has its name.
Alone(index, x) ==
  \A y \in TypesDeclared(index) : y[2].name = x[2].name /\ index[y[1]].package = index[x[1]].package
                               => y = x

\* What the map of the interfaces holds for one that no other shares its place with.
LEMMA AloneHolds ==
  ASSUME NEW index, NEW x \in InterfacesIn(index), DOMAIN index \subseteq Nat, Alone(index, x)
  PROVE  LET map == MapOf(InterfaceEntries(index)) IN
         /\ Place(index, x) \in DOMAIN map
         /\ map[Place(index, x)].methods = MethodNames(x)
<1> DEFINE entries == InterfaceEntries(index)
           k == Place(index, x)
<1>1. PICK e \in entries : e.at = x[1] /\ e.key = k /\ e.data.methods = MethodNames(x)
  BY InterfaceEntriesAre
<1>2. \A o \in entries : o.key = k => o.at = x[1] /\ o.data.methods = MethodNames(x)
  <2>1. SUFFICES ASSUME NEW o \in entries, o.key = k
                 PROVE  o.at = x[1] /\ o.data.methods = MethodNames(x)
    OBVIOUS
  <2>2. PICK y \in InterfacesIn(index) :
          o.at = y[1] /\ o.key = Place(index, y) /\ o.data.methods = MethodNames(y)
    BY <2>1, InterfaceEntriesAre
  <2>3. y[2].name = x[2].name /\ index[y[1]].package = index[x[1]].package
    BY <2>1, <2>2 DEF Place
  <2>4. y = x
    BY <2>2, <2>3 DEF Alone, InterfacesIn
  <2>5. QED
    BY <2>2, <2>4
<1>3. x[1] \in Nat
  BY DeclaredAre DEF InterfacesIn, Code
<1> HIDE DEF entries, k
<1>4. \A o \in entries : o.key = e.key => o.at <= e.at
  BY <1>1, <1>2, <1>3
<1>5. /\ DOMAIN MapOf(entries) = {o.key : o \in entries}
      /\ \E z \in entries : z.key = e.key /\ MapOf(entries)[e.key] = z.data
  BY <1>1, <1>4, MapHolds
<1>6. PICK z \in entries : z.key = k /\ MapOf(entries)[k] = z.data
  BY <1>1, <1>5
<1>7. QED
  BY <1>1, <1>2, <1>5, <1>6 DEF entries, k

\* What it holds at all is some interface of that place.
LEMMA SomeHolds ==
  ASSUME NEW index, DOMAIN index \subseteq Nat, IsFiniteSet(DOMAIN index),
         NEW k \in DOMAIN MapOf(InterfaceEntries(index))
  PROVE  \E x \in InterfacesIn(index) :
           Place(index, x) = k /\ MapOf(InterfaceEntries(index))[k].methods = MethodNames(x)
<1> DEFINE entries == InterfaceEntries(index)
           places  == {e.at : e \in {o \in entries : o.key = k}}
<1>1. \A e \in entries : e.at \in DOMAIN index
  <2>1. SUFFICES ASSUME NEW e \in entries PROVE e.at \in DOMAIN index
    OBVIOUS
  <2>2. PICK x \in InterfacesIn(index) : e.at = x[1]
    BY <2>1, InterfaceEntriesAre
  <2>3. x[1] \in Code(index)
    BY <2>2, DeclaredAre DEF InterfacesIn
  <2>4. QED
    BY <2>2, <2>3 DEF Code
<1>2. \E e \in entries : e.key = k
  <2>1. k \in {o.key : o \in entries}
    BY MapKeys
  <2>2. QED
    BY <2>1
<1> HIDE DEF entries
<1>3. places \subseteq DOMAIN index /\ places # {}
  BY <1>1, <1>2
<1>4. places \subseteq Nat /\ IsFiniteSet(places)
  BY <1>3, FS_Subset
<1>5. PICK m \in places : \A n \in places : n <= m
  BY <1>3, <1>4, LargestOf
<1>6. PICK e \in entries : e.key = k /\ e.at = m
  BY <1>5
<1>7. \A o \in entries : o.key = e.key => o.at <= e.at
  BY <1>5, <1>6
<1>8. PICK z \in entries : z.key = e.key /\ MapOf(entries)[e.key] = z.data
  BY <1>6, <1>7, MapHolds
<1>9. z \in InterfaceEntries(index) /\ z.key = k /\ MapOf(InterfaceEntries(index))[k] = z.data
  BY <1>6, <1>8 DEF entries
<1>10. QED
  BY <1>9, InterfaceEntriesAre

\* Neither does a difference without losses make snapshot-diff infer one.
LEMMA NothingInferred ==
  ASSUME NEW b, NEW a, NEW d,
         d.interfaces.removed = {},
         \A k \in d.interfaces.modified :
            d.interfaces.before[k].methods \ d.interfaces.after[k].methods = {},
         \A k \in d.types.modified :
            FieldNames(d.types.before[k]) \ FieldNames(d.types.after[k]) = {}
  PROVE  Inferences(d, b, a)
           \cap {<<"breaking-interface", "warning">>, <<"breaking-type", "warning">>} = {}
<1> DEFINE Bad == {<<"breaking-interface", "warning">>, <<"breaking-type", "warning">>}
           Others == {"contract-surface", "interface-expansion", "architecture-boundary",
                      "type-migration", "api-change", "scale"}
<1>1. \A x \in Inferences(d, b, a) : \E c \in Others, s \in {"warning", "info"} : x = <<c, s>>
  BY DEF Inferences
<1>2. \A c \in Others, s \in {"warning", "info"} : <<c, s>> \notin Bad
  OBVIOUS
<1>3. QED
  BY <1>1, <1>2

\* The three parts together: contracts, methods and inferences.
LEMMA DriftSees ==
  ASSUME line \in CommandLines, DriftExits
  PROVE  DriftSeesLosses
<1> DEFINE before == IndexFiles(line.baseline.gofiles)
           after  == IndexFiles(line.project.gofiles)
           b      == Snapshot(before, 1)
           a      == Snapshot(after, 1)
           stored == Snapshot(before, line.baseline.version)
<1> SUFFICES ASSUME line.command = "baseline-drift", exit = 0
             PROVE  /\ ContractNames(before) \subseteq ContractNames(after)
                    /\ UNION {{<<before[x[1]].package, x[2].name, m.name>> :
                                 m \in {m \in x[2].members : ~m.embedded}} :
                              x \in {x \in TypesDeclared(before) :
                                       x[2].kind = "interface"
                                       /\ ~ \E y \in TypesDeclared(before) :
                                              y # x /\ y[2].name = x[2].name
                                              /\ before[y[1]].package = before[x[1]].package}}
                         \subseteq UNION {{<<after[x[1]].package, x[2].name, m.name>> :
                                             m \in {m \in x[2].members : ~m.embedded}} :
                                          x \in TypesDeclared(after)}
                    /\ Inferences(DiffSnapshots(b, a), b, a)
                         \cap {<<"breaking-interface", "warning">>, <<"breaking-type", "warning">>} = {}
  BY Zenon DEF DriftSeesLosses, ContractNames, TypesDeclared
<1>1. ~ DriftOf(line).error /\ DriftOf(line).verdict # "drifted"
  <2>1. exit # None
    BY ClustersAssumption
  <2>2. QED
    BY <2>1 DEF DriftExits
<1>2. BaselineOf(line) # None
      /\ \A f \in DriftFindings(BaselineOf(line), a) : f.severity # "critical"
  BY <1>1, NothingCritical DEF DriftOf
<1>3. line.baseline # None /\ BaselineOf(line) = stored
  BY <1>2 DEF BaselineOf
<1>4. /\ DOMAIN before \subseteq Nat /\ DOMAIN after \subseteq Nat /\ IsFiniteSet(DOMAIN after)
  BY <1>3, IndexesAreFinite
<1> HIDE DEF before, after
<1> DEFINE d == DiffSnapshots(stored, a)
           e == DiffSnapshots(b, a)
<1>5. /\ d.contracts.removed = {}
      /\ d.interfaces.removed = {}
      /\ \A k \in d.interfaces.modified :
           d.interfaces.before[k].methods \ d.interfaces.after[k].methods = {}
      /\ \A k \in d.types.modified :
           FieldNames(d.types.before[k]) \ FieldNames(d.types.after[k]) = {}
  BY <1>2, <1>3, NothingLost
<1>6. /\ d.contracts = DiffSection(ContractEntries(before), ContractEntries(after))
      /\ d.interfaces = DiffSection(InterfaceEntries(before), InterfaceEntries(after))
      /\ d.types = e.types /\ d.interfaces = e.interfaces
  BY SectionsOf
<1> HIDE DEF d, e, stored, a, b
<1>7. ContractNames(before) \subseteq ContractNames(after)
  <2>1. d.contracts.removed = DOMAIN MapOf(ContractEntries(before)) \ DOMAIN MapOf(ContractEntries(after))
    BY <1>6 DEF DiffSection
  <2>2. QED
    BY <1>5, <2>1, MapKeys, ContractKeys
<1>8. Inferences(e, b, a)
        \cap {<<"breaking-interface", "warning">>, <<"breaking-type", "warning">>} = {}
  BY <1>5, <1>6, NothingInferred
<1>9. ASSUME NEW x \in TypesDeclared(before), x[2].kind = "interface", Alone(before, x),
             NEW n \in MethodNames(x)
      PROVE  \E y \in TypesDeclared(after) :
               Place(after, y) = Place(before, x) /\ n \in MethodNames(y)
  <2> DEFINE old == MapOf(InterfaceEntries(before))
             new == MapOf(InterfaceEntries(after))
             k == Place(before, x)
  <2>1. k \in DOMAIN old /\ old[k].methods = MethodNames(x)
    BY <1>4, <1>9, AloneHolds DEF InterfacesIn
  <2>2. /\ d.interfaces.before = old /\ d.interfaces.after = new
        /\ d.interfaces.removed = DOMAIN old \ DOMAIN new
        /\ d.interfaces.modified = {q \in DOMAIN new \cap DOMAIN old : new[q] # old[q]}
    BY <1>6 DEF DiffSection
  <2> HIDE DEF old, new, k
  <2>3. k \in DOMAIN new
    BY <1>5, <2>1, <2>2
  <2>4. old[k].methods \subseteq new[k].methods
    <3>1. CASE new[k] = old[k]
      BY <3>1
    <3>2. CASE new[k] # old[k]
      BY <1>5, <2>1, <2>2, <2>3, <3>2
    <3>3. QED
      BY <3>1, <3>2
  <2>5. PICK y \in InterfacesIn(after) : Place(after, y) = k /\ new[k].methods = MethodNames(y)
    BY <1>4, <2>3, SomeHolds DEF new
  <2>6. QED
    BY <1>9, <2>1, <2>4, <2>5 DEF InterfacesIn, k
<1>10. \A z : z \in UNION {{<<before[x[1]].package, x[2].name, m.name>> :
                             m \in {m \in x[2].members : ~m.embedded}} :
                           x \in {x \in TypesDeclared(before) :
                                    x[2].kind = "interface"
                                    /\ ~ \E y \in TypesDeclared(before) :
                                           y # x /\ y[2].name = x[2].name
                                           /\ before[y[1]].package = before[x[1]].package}}
         => z \in UNION {{<<after[x[1]].package, x[2].name, m.name>> :
                            m \in {m \in x[2].members : ~m.embedded}} :
                         x \in TypesDeclared(after)}
  <2>1. SUFFICES ASSUME NEW x \in TypesDeclared(before), x[2].kind = "interface",
                        ~ \E y \in TypesDeclared(before) :
                              y # x /\ y[2].name = x[2].name
                              /\ before[y[1]].package = before[x[1]].package,
                        NEW m \in x[2].members, ~m.embedded
                 PROVE  \E y \in TypesDeclared(after) : \E l \in y[2].members :
                          /\ ~l.embedded
                          /\ <<before[x[1]].package, x[2].name, m.name>>
                               = <<after[y[1]].package, y[2].name, l.name>>
    OBVIOUS
  <2>2. Alone(before, x) /\ m.name \in MethodNames(x)
    BY <2>1 DEF Alone, MethodNames
  <2>3. PICK y \in TypesDeclared(after) : Place(after, y) = Place(before, x) /\ m.name \in MethodNames(y)
    BY <1>9, <2>1, <2>2
  <2>4. PICK l \in y[2].members : ~l.embedded /\ l.name = m.name
    BY <2>3 DEF MethodNames
  <2>5. after[y[1]].package = before[x[1]].package /\ y[2].name = x[2].name
    BY <2>3 DEF Place
  <2>6. QED
    BY <2>3, <2>4, <2>5
<1>11. QED
  BY <1>7, <1>8, <1>10 DEF e

\* Whatever the two indexes hold, a drift that is not a failure means that every
\* exported contract is still there, with every method of an interface that is the
\* only one of its package and name, and that snapshot-diff infers no break.
THEOREM LossesAreSeen == RaccoonSpec => []DriftSeesLosses
<1>1. RaccoonInit => DriftExits
  BY DEF RaccoonInit, DriftExits
<1>2. DriftExits /\ [RaccoonNext]_raccoonVars => DriftExits'
  BY DriftExitNext
<1>3. line \in CommandLines /\ DriftExits => DriftSeesLosses
  BY DriftSees
<1>4. QED
  BY <1>1, <1>2, <1>3, CommandLineKept, PTL DEF RaccoonSpec

-----------------------------------------------------------------------------
(* The parser of types *)

LinesOver(N) == [at : STRING, name : {None} \cup N, exported : BOOLEAN,
                 words : SUBSET N, shape : STRING, path : {None} \cup Seq(STRING),
                 alias : {None} \cup STRING, value : {None} \cup STRING, braces : Int,
                 receiver : {None} \cup [type : N], closed : BOOLEAN,
                 params : Seq(SUBSET N), returns : Seq(SUBSET N)]

MembersOver(N) == [name : N, words : SUBSET N, embedded : BOOLEAN]

TypesOver(N) == [name : N, exported : BOOLEAN, kind : {"struct", "interface", "alias"},
                 words : SUBSET N, members : SUBSET MembersOver(N)]

\* The states of the parser of types: within a body there is a type it is of.
ParserOver(N) ==
  {st \in [block : BOOLEAN, body : BOOLEAN, depth : Int, types : Seq(TypesOver(N))] :
     st.body => Len(st.types) > 0}

\* The members a line holds are members.
LEMMA MembersTyped ==
  ASSUME NEW N, NEW kind, NEW l \in LinesOver(N)
  PROVE  MemberOf(kind, l) \subseteq MembersOver(N)
<1>1. l.name \in {None} \cup N /\ l.words \subseteq N
  BY DEF LinesOver
<1>2. CASE l.name = None \/ l.at = "}"
  BY <1>2 DEF MemberOf
<1>3. CASE ~(l.name = None \/ l.at = "}") /\ kind = "interface"
  <2>1. MemberOf(kind, l) =
          {[name |-> l.name, words |-> l.words \cup {l.name}, embedded |-> l.shape # "("]}
    BY <1>3 DEF MemberOf
  <2>2. /\ l.name \in N /\ l.words \cup {l.name} \in SUBSET N
        /\ (l.shape # "(") \in BOOLEAN
    BY <1>1, <1>3
  <2>3. QED
    BY <2>1, <2>2 DEF MembersOver
<1>4. CASE ~(l.name = None \/ l.at = "}") /\ kind # "interface"
  <2>1. MemberOf(kind, l) =
          {[name |-> l.name, embedded |-> l.words = {},
            words |-> IF l.words = {} THEN {l.name} ELSE l.words]}
    BY <1>4 DEF MemberOf
  <2>2. /\ l.name \in N /\ (IF l.words = {} THEN {l.name} ELSE l.words) \in SUBSET N
        /\ (l.words = {}) \in BOOLEAN
    BY <1>1, <1>4
  <2>3. QED
    BY <2>1, <2>2 DEF MembersOver
<1>5. QED
  BY <1>2, <1>3, <1>4

\* The type a line declares.
DeclaredOn(l) == [name |-> l.name, exported |-> l.exported, kind |-> KindOfShape(l.shape),
                  words |-> l.words, members |-> {}]

\* The lines that declare a type outside a body, and what they do.
Declares(st, l) == /\ l.at # "type(" /\ ~(st.block /\ l.at = ")")
                   /\ l.name # None /\ (l.at = "type" \/ (st.block /\ l.at = ""))

WithMember(types, l) ==
  [types EXCEPT ![Len(types)].members = @ \cup MemberOf(types[Len(types)].kind, l)]

\* What a line does to the state of the parser.
BodyEnded(st)     == [st EXCEPT !.body = FALSE, !.depth = 0]
AtDepth(st, d)    == [st EXCEPT !.depth = d]
MemberAdded(st, l) == [st EXCEPT !.depth = 1, !.types = WithMember(st.types, l)]
TypeAdded(st, l)  == [st EXCEPT !.types = Append(@, DeclaredOn(l)),
                                !.body  = l.shape \in {"struct{", "interface{"} /\ l.braces > 0,
                                !.depth = l.braces]
BlockOpen(st, open) == [st EXCEPT !.block = open]

\* A line within a body, by the depth it leads to.
LEMMA LineInBody ==
  ASSUME NEW N, NEW st \in ParserOver(N), NEW l \in LinesOver(N), st.body
  PROVE  /\ st.depth + l.braces <= 0 => TypeLine(st, l) = BodyEnded(st)
         /\ st.depth + l.braces = 1  => TypeLine(st, l) = MemberAdded(st, l)
         /\ st.depth + l.braces > 1  => TypeLine(st, l) = AtDepth(st, st.depth + l.braces)
<1> DEFINE d == st.depth + l.braces
<1>1. d \in Int
  BY DEF ParserOver, LinesOver
<1>2. TypeLine(st, l) = IF d <= 0 THEN [st EXCEPT !.body = FALSE, !.depth = 0]
                        ELSE IF d = 1
                        THEN [st EXCEPT !.depth = d,
                                !.types[Len(st.types)].members =
                                   @ \cup MemberOf(st.types[Len(st.types)].kind, l)]
                        ELSE [st EXCEPT !.depth = d]
  BY DEF TypeLine
<1>3. d = 1 => [st EXCEPT !.depth = d, !.types[Len(st.types)].members =
                   @ \cup MemberOf(st.types[Len(st.types)].kind, l)]
               = MemberAdded(st, l)
  BY DEF WithMember, ParserOver, MemberAdded
<1> HIDE DEF d
<1>4. /\ d <= 0 => TypeLine(st, l) = BodyEnded(st)
      /\ d = 1  => TypeLine(st, l) = MemberAdded(st, l)
      /\ d > 1  => TypeLine(st, l) = AtDepth(st, d)
  BY <1>1, <1>2, <1>3 DEF BodyEnded, AtDepth
<1>5. QED
  BY <1>4 DEF d

\* A line outside of bodies.
LEMMA LineOutside ==
  ASSUME NEW N, NEW st \in ParserOver(N), NEW l \in LinesOver(N), ~st.body
  PROVE  /\ l.at = "type(" => TypeLine(st, l) = BlockOpen(st, TRUE)
         /\ st.block /\ l.at = ")" => TypeLine(st, l) = BlockOpen(st, FALSE)
         /\ Declares(st, l) => TypeLine(st, l) = TypeAdded(st, l)
         /\ l.at # "type(" /\ ~(st.block /\ l.at = ")") /\ ~Declares(st, l) => TypeLine(st, l) = st
<1>1. CASE l.at = "type("
  BY <1>1 DEF TypeLine, Declares, BlockOpen
<1>2. CASE l.at # "type(" /\ st.block /\ l.at = ")"
  BY <1>2 DEF TypeLine, Declares, BlockOpen
<1>3. CASE Declares(st, l)
  BY <1>3 DEF TypeLine, Declares, DeclaredOn, TypeAdded
<1>4. CASE l.at # "type(" /\ ~(st.block /\ l.at = ")") /\ ~Declares(st, l)
  BY <1>4 DEF TypeLine, Declares
<1>5. QED
  BY <1>1, <1>2, <1>3, <1>4 DEF Declares

\* The type a line declares is one, and a body opens only after it.
LEMMA DeclaredTyped ==
  ASSUME NEW N, NEW l \in LinesOver(N), l.name # None
  PROVE  DeclaredOn(l) \in TypesOver(N)
<1>1. l.name \in N /\ l.exported \in BOOLEAN /\ l.words \in SUBSET N
  BY DEF LinesOver
<1>2. KindOfShape(l.shape) \in {"struct", "interface", "alias"}
  BY DEF KindOfShape
<1>3. {} \in SUBSET MembersOver(N)
  OBVIOUS
<1>4. QED
  BY <1>1, <1>2, <1>3 DEF DeclaredOn, TypesOver

\* A member is added to the last type and to no other.
LEMMA MemberTyped ==
  ASSUME NEW N, NEW types \in Seq(TypesOver(N)), Len(types) > 0, NEW l \in LinesOver(N)
  PROVE  /\ WithMember(types, l) \in Seq(TypesOver(N))
         /\ Len(WithMember(types, l)) = Len(types)
         /\ \A i \in 1 .. Len(types) : WithMember(types, l)[i] =
              IF i = Len(types)
              THEN [types[i] EXCEPT !.members = @ \cup MemberOf(types[i].kind, l)]
              ELSE types[i]
<1> DEFINE n == Len(types)
           t == types[n]
           more == t.members \cup MemberOf(t.kind, l)
<1>1. n \in 1 .. n /\ DOMAIN types = 1 .. n /\ n \in Nat
  OBVIOUS
<1>2. t \in TypesOver(N)
  BY <1>1
<1>3. more \subseteq MembersOver(N)
  BY <1>2, MembersTyped DEF TypesOver
<1> HIDE DEF more
<1>4. [t EXCEPT !.members = more] \in TypesOver(N)
  BY <1>2, <1>3 DEF TypesOver
<1>5. WithMember(types, l) = [types EXCEPT ![n] = [t EXCEPT !.members = more]]
  BY <1>1 DEF WithMember, more
<1> DEFINE u == [t EXCEPT !.members = more]
<1>6. u \in TypesOver(N)
  BY <1>4
<1>7. u = [t EXCEPT !.members = @ \cup MemberOf(t.kind, l)]
  BY DEF more
<1> HIDE DEF u
<1>8. WithMember(types, l) = [types EXCEPT ![n] = u]
  BY <1>5 DEF u
<1>9. /\ [types EXCEPT ![n] = u] \in Seq(TypesOver(N))
      /\ Len([types EXCEPT ![n] = u]) = n
      /\ \A i \in 1 .. n : [types EXCEPT ![n] = u][i] = IF i = n THEN u ELSE types[i]
  BY <1>1, <1>6
<1>10. QED
  BY <1>7, <1>8, <1>9

\* A line takes the parser from a state to a state.
LEMMA ParserTyped ==
  ASSUME NEW N, NEW st \in ParserOver(N), NEW l \in LinesOver(N)
  PROVE  TypeLine(st, l) \in ParserOver(N)
<1>1. /\ st \in [block : BOOLEAN, body : BOOLEAN, depth : Int, types : Seq(TypesOver(N))]
      /\ st.body => Len(st.types) > 0
  BY DEF ParserOver
<1>2. l.braces \in Int
  BY DEF LinesOver
<1>3. CASE st.body
  <2> DEFINE d == st.depth + l.braces
  <2>1. d \in Int
    BY <1>1, <1>2
  <2>2. /\ WithMember(st.types, l) \in Seq(TypesOver(N))
        /\ Len(WithMember(st.types, l)) = Len(st.types)
    BY <1>1, <1>3, MemberTyped
  <2>3. /\ d <= 0 => TypeLine(st, l) = BodyEnded(st)
        /\ d = 1  => TypeLine(st, l) = MemberAdded(st, l)
        /\ d > 1  => TypeLine(st, l) = AtDepth(st, d)
    BY <1>3, LineInBody
  <2> DEFINE now == WithMember(st.types, l)
  <2> HIDE DEF d, now
  <2>4. now \in Seq(TypesOver(N)) /\ Len(now) = Len(st.types)
    BY <2>2 DEF now
  <2>5. CASE d <= 0
    <3>1. /\ BodyEnded(st) \in [block : BOOLEAN, body : BOOLEAN, depth : Int,
                                 types : Seq(TypesOver(N))]
          /\ ~BodyEnded(st).body
      <4> DEFINE zero == 0
      <4>1. zero \in Int
        OBVIOUS
      <4>2. BodyEnded(st) = [st EXCEPT !.body = FALSE, !.depth = zero]
        BY DEF BodyEnded
      <4> HIDE DEF zero
      <4>3. QED
        BY <1>1, <4>1, <4>2
    <3>2. QED
      BY <2>3, <2>5, <3>1 DEF ParserOver
  <2>6. CASE d = 1
    <3>1. TypeLine(st, l) = [st EXCEPT !.depth = 1, !.types = now]
      BY <2>3, <2>6 DEF now, MemberAdded
    <3> DEFINE next == [st EXCEPT !.depth = 1, !.types = now]
    <3>2. /\ next \in [block : BOOLEAN, body : BOOLEAN, depth : Int, types : Seq(TypesOver(N))]
          /\ next.body = st.body /\ next.types = now
      <4> DEFINE one == 1
      <4>1. one \in Int
        OBVIOUS
      <4>2. next = [st EXCEPT !.depth = one, !.types = now]
        OBVIOUS
      <4> HIDE DEF one
      <4>3. QED
        BY <1>1, <2>4, <4>1, <4>2
    <3> HIDE DEF next
    <3>3. next.body => Len(next.types) > 0
      BY <1>1, <2>4, <3>2
    <3>4. QED
      BY <3>1, <3>2, <3>3 DEF ParserOver, next
  <2>7. CASE d > 1
    BY <1>1, <2>1, <2>3, <2>7 DEF ParserOver, AtDepth
  <2>8. QED
    BY <2>1, <2>5, <2>6, <2>7
<1>4. CASE ~st.body
  <2>1. /\ l.at = "type(" => TypeLine(st, l) = BlockOpen(st, TRUE)
        /\ st.block /\ l.at = ")" => TypeLine(st, l) = BlockOpen(st, FALSE)
        /\ Declares(st, l) => TypeLine(st, l) = TypeAdded(st, l)
        /\ l.at # "type(" /\ ~(st.block /\ l.at = ")") /\ ~Declares(st, l) => TypeLine(st, l) = st
    BY <1>4, LineOutside
  <2>2. CASE Declares(st, l)
    <3> DEFINE t == DeclaredOn(l)
               opens == l.shape \in {"struct{", "interface{"} /\ l.braces > 0
    <3>1. t \in TypesOver(N) /\ opens \in BOOLEAN
      BY <2>2, DeclaredTyped DEF Declares
    <3>2. TypeLine(st, l) = [st EXCEPT !.types = Append(@, t), !.body = opens, !.depth = l.braces]
      BY <2>1, <2>2 DEF TypeAdded
    <3> HIDE DEF t, opens
    <3>3. Append(st.types, t) \in Seq(TypesOver(N)) /\ Len(Append(st.types, t)) > 0
      BY <1>1, <3>1
    <3>4. QED
      BY <1>1, <1>2, <3>1, <3>2, <3>3 DEF ParserOver
  <2>3. CASE ~Declares(st, l)
    BY <1>1, <1>4, <2>1, <2>3 DEF ParserOver, BlockOpen
  <2>4. QED
    BY <2>2, <2>3
<1>5. QED
  BY <1>3, <1>4

TypesStart == [block |-> FALSE, body |-> FALSE, depth |-> 0, types |-> << >>]

\* The parser goes over the lines of a file one after the other.
LEMMA ParserRuns ==
  ASSUME NEW N, NEW lines \in Seq(LinesOver(N))
  PROVE  /\ TypesParsed(lines)[0] = TypesStart
         /\ \A n \in 1 .. Len(lines) :
              TypesParsed(lines)[n] = TypeLine(TypesParsed(lines)[n - 1], lines[n])
         /\ \A n \in 0 .. Len(lines) : TypesParsed(lines)[n] \in ParserOver(N)
<1> DEFINE last == Len(lines)
           A == ParserOver(N)
           base == TypesStart
           F == [n \in Nat |-> [st \in A |-> IF n \in 1 .. last THEN TypeLine(st, lines[n]) ELSE st]]
           parsed[n \in 0 .. last] == IF n = 0 THEN TypesStart
                                      ELSE TypeLine(parsed[n - 1], lines[n])
<1>1. last \in Nat /\ \A n \in 1 .. last : lines[n] \in LinesOver(N)
  OBVIOUS
<1>2. TypesParsed(lines) = parsed
  BY DEF TypesParsed, TypesStart
<1>3. base \in A
  <2>1. << >> \in Seq(TypesOver(N))
    OBVIOUS
  <2>2. base \in [block : BOOLEAN, body : BOOLEAN, depth : Int, types : Seq(TypesOver(N))] /\ ~base.body
    BY <2>1 DEF TypesStart
  <2> HIDE DEF base
  <2>3. QED
    BY <2>2 DEF ParserOver
<1>4. F \in [Nat -> [A -> A]]
  <2>1. ASSUME NEW n \in Nat, NEW st \in A
        PROVE  (IF n \in 1 .. last THEN TypeLine(st, lines[n]) ELSE st) \in A
    BY <1>1, ParserTyped
  <2> HIDE DEF A, last
  <2>2. QED
    BY <2>1
<1>5. PICK g \in [Nat -> A] : Recursive(g, base, F)
  <2> HIDE DEF A, F, base
  <2>1. QED
    BY <1>3, <1>4, RecursionExists
<1>6. g[0] = base /\ \A n \in Nat \ {0} : n - 1 \in Nat /\ g[n - 1] \in A /\ g[n] = F[n][g[n - 1]]
  <2>1. g[0] = base /\ \A n \in Nat \ {0} : g[n] = F[n][g[n - 1]]
    BY <1>5 DEF Recursive
  <2> HIDE DEF F, A, base
  <2>2. QED
    BY <1>5, <2>1
<1> DEFINE h == [n \in 0 .. last |-> g[n]]
<1>7. ASSUME NEW n \in 1 .. last
      PROVE  h[n] = TypeLine(h[n - 1], lines[n])
  <2>1. n \in Nat \ {0} /\ n \in 0 .. last /\ n - 1 \in 0 .. last
    BY <1>1
  <2>2. h[n] = F[n][g[n - 1]] /\ g[n - 1] \in A /\ h[n - 1] = g[n - 1]
    BY <1>6, <2>1
  <2>3. F[n][g[n - 1]] = TypeLine(g[n - 1], lines[n])
    <3> HIDE DEF A, last
    <3>1. QED
      BY <2>1, <2>2, <1>7
  <2>4. QED
    BY <2>2, <2>3
<1>8. h[0] = TypesStart /\ \A n \in 0 .. last : h[n] \in A
  BY <1>1, <1>5, <1>6
<1>9. h = [n \in 0 .. last |-> IF n = 0 THEN TypesStart ELSE TypeLine(h[n - 1], lines[n])]
  <2>1. \A n \in 0 .. last : h[n] = IF n = 0 THEN TypesStart ELSE TypeLine(h[n - 1], lines[n])
    <3>1. \A n \in 0 .. last : n # 0 => n \in 1 .. last
      BY <1>1
    <3> HIDE DEF h, last
    <3>2. QED
      BY <1>7, <1>8, <3>1
  <2>2. h = [n \in 0 .. last |-> h[n]]
    OBVIOUS
  <2> HIDE DEF h, last
  <2>3. QED
    BY <2>1, <2>2
<1>10. parsed = [n \in 0 .. last |-> IF n = 0 THEN TypesStart ELSE TypeLine(parsed[n - 1], lines[n])]
  <2> HIDE DEF h, last
  <2>1. \E f : f = [n \in 0 .. last |-> IF n = 0 THEN TypesStart ELSE TypeLine(f[n - 1], lines[n])]
    BY <1>9
  <2>2. QED
    BY <2>1
<1> HIDE DEF parsed
<1> DEFINE T == {n \in Nat : n <= last => parsed[n] \in A}
<1>11. /\ parsed[0] = TypesStart
       /\ \A n \in 1 .. last : parsed[n] = TypeLine(parsed[n - 1], lines[n])
  BY <1>1, <1>10
<1>12. 0 \in T
  BY <1>3, <1>11
<1>13. ASSUME NEW n \in Nat, n \in T PROVE n + 1 \in T
  <2>1. SUFFICES ASSUME n + 1 <= last PROVE parsed[n + 1] \in A
    OBVIOUS
  <2>2. n + 1 \in 1 .. last /\ (n + 1) - 1 = n /\ parsed[n] \in A
    BY <1>1, <1>13, <2>1
  <2>3. parsed[n + 1] = TypeLine(parsed[n], lines[n + 1]) /\ lines[n + 1] \in LinesOver(N)
    BY <1>1, <1>11, <2>2
  <2>4. QED
    BY <2>2, <2>3, ParserTyped
<1>14. Nat \subseteq T
  <2> HIDE DEF T
  <2>1. QED
    BY <1>12, <1>13, SetInduction
<1>15. \A n \in 0 .. last : parsed[n] \in A
  BY <1>1, <1>14
<1>16. QED
  BY <1>2, <1>11, <1>15

-----------------------------------------------------------------------------
(* Renaming a symbol *)

\* A type expression names the same names, but for the symbol.
LEMMA RenamedExprs ==
  ASSUME NEW N, NEW expr \in SUBSET N, NEW s, NEW new
  PROVE  RenamedExpr(expr, s, new) \in SUBSET (N \cup {new})
BY DEF RenamedExpr, RenamedName

\* One that does not name the symbol is kept,
LEMMA NothingRenamed ==
  ASSUME NEW expr, NEW s, s \notin expr, NEW new
  PROVE  RenamedExpr(expr, s, new) = expr
BY DEF RenamedExpr, RenamedName

\* and one that names nothing names nothing after.
LEMMA EmptyRenamed ==
  ASSUME NEW expr, NEW s, NEW new
  PROVE  RenamedExpr(expr, s, new) = {} <=> expr = {}
BY DEF RenamedExpr

\* So are the parameters and the results of a function.
LEMMA RenamedSignature ==
  ASSUME NEW N, NEW exprs \in Seq(SUBSET N), NEW s, NEW new
  PROVE  /\ [i \in DOMAIN exprs |-> RenamedExpr(exprs[i], s, new)] \in Seq(SUBSET (N \cup {new}))
         /\ (\A i \in DOMAIN exprs : s \notin exprs[i])
              => [i \in DOMAIN exprs |-> RenamedExpr(exprs[i], s, new)] = exprs
<1> DEFINE to == [i \in DOMAIN exprs |-> RenamedExpr(exprs[i], s, new)]
           n == Len(exprs)
<1>1. n \in Nat /\ DOMAIN exprs = 1 .. n /\ exprs = [i \in 1 .. n |-> exprs[i]]
  OBVIOUS
<1>2. \A i \in 1 .. n : exprs[i] \subseteq N
  OBVIOUS
<1> HIDE DEF n
<1>3. \A i \in 1 .. n : /\ RenamedExpr(exprs[i], s, new) \in SUBSET (N \cup {new})
                        /\ s \notin exprs[i] => RenamedExpr(exprs[i], s, new) = exprs[i]
  <2>1. TAKE i \in 1 .. n
  <2> DEFINE e == exprs[i]
  <2>2. e \in SUBSET N
    BY <1>2
  <2> HIDE DEF e
  <2>3. /\ RenamedExpr(e, s, new) \in SUBSET (N \cup {new})
        /\ s \notin e => RenamedExpr(e, s, new) = e
    <3>1. \A x \in SUBSET N : RenamedExpr(x, s, new) \in SUBSET (N \cup {new})
      BY RenamedExprs
    <3>2. s \notin e => RenamedExpr(e, s, new) = e
      BY NothingRenamed
    <3>3. QED
      BY <2>2, <3>1, <3>2
  <2>4. QED
    BY <2>3 DEF e
<1>4. to \in [1 .. n -> SUBSET (N \cup {new})]
  BY <1>1, <1>3
<1>5. to \in Seq(SUBSET (N \cup {new}))
  <2> HIDE DEF to
  <2>1. QED
    BY <1>1, <1>4
<1>6. ASSUME \A i \in DOMAIN exprs : s \notin exprs[i] PROVE to = exprs
  <2>1. \A i \in 1 .. n : to[i] = exprs[i]
    BY <1>1, <1>3, <1>6
  <2>2. to = [i \in 1 .. n |-> to[i]]
    BY <1>1
  <2> HIDE DEF to
  <2>3. QED
    BY <1>1, <2>1, <2>2
<1>7. QED
  BY <1>5, <1>6

\* A line, renamed, and what it says.
Renames(l, s, new, r) ==
  /\ r.at = l.at /\ r.exported = l.exported /\ r.shape = l.shape
  /\ r.braces = l.braces /\ r.closed = l.closed
  /\ r.name = IF NamesMember(l) THEN l.name ELSE RenamedName(l.name, s, new)
  /\ r.words = RenamedExpr(l.words, s, new)
  /\ r.params = [i \in DOMAIN l.params |-> RenamedExpr(l.params[i], s, new)]
  /\ r.returns = [i \in DOMAIN l.returns |-> RenamedExpr(l.returns[i], s, new)]
  /\ r.receiver = IF l.receiver = None THEN None
                  ELSE [type |-> RenamedName(l.receiver.type, s, new)]

\* What a renamed line says.
LEMMA RenamedLineIs ==
  ASSUME NEW N, NEW l \in LinesOver(N), NEW s, NEW new
  PROVE  /\ RenamedLine(l, s, new) \in LinesOver(N \cup {new})
         /\ Renames(l, s, new, RenamedLine(l, s, new))
<1> DEFINE M        == N \cup {new}
           name     == IF NamesMember(l) THEN l.name ELSE RenamedName(l.name, s, new)
           words    == RenamedExpr(l.words, s, new)
           params   == [i \in DOMAIN l.params |-> RenamedExpr(l.params[i], s, new)]
           returns  == [i \in DOMAIN l.returns |-> RenamedExpr(l.returns[i], s, new)]
           receiver == IF l.receiver = None THEN None
                       ELSE [type |-> RenamedName(l.receiver.type, s, new)]
<1>1. /\ l.name \in {None} \cup N /\ l.words \subseteq N
      /\ l.params \in Seq(SUBSET N) /\ l.returns \in Seq(SUBSET N)
      /\ l.receiver \in {None} \cup [type : N]
  BY DEF LinesOver
<1>2. name \in {None} \cup M
  BY <1>1 DEF RenamedName
<1>3. words \in SUBSET M
  <2>1. \A e \in SUBSET N : RenamedExpr(e, s, new) \in SUBSET M
    BY RenamedExprs
  <2>2. QED
    BY <1>1, <2>1
<1> DEFINE Signature(exprs) == [i \in DOMAIN exprs |-> RenamedExpr(exprs[i], s, new)]
<1>13. \A exprs \in Seq(SUBSET N) : Signature(exprs) \in Seq(SUBSET M)
  <2>1. TAKE exprs \in Seq(SUBSET N)
  <2>2. QED
    BY RenamedSignature
<1>14. params = Signature(l.params) /\ returns = Signature(l.returns)
  OBVIOUS
<1>4. params \in Seq(SUBSET M)
  <2> HIDE DEF params, Signature
  <2>1. QED
    BY <1>1, <1>13, <1>14
<1>5. returns \in Seq(SUBSET M)
  <2> HIDE DEF returns, Signature
  <2>1. QED
    BY <1>1, <1>13, <1>14
<1>6. receiver \in {None} \cup [type : M]
  BY <1>1 DEF RenamedName
<1>7. RenamedLine(l, s, new) =
        [l EXCEPT !.name = name, !.words = words, !.params = params, !.returns = returns,
                  !.receiver = receiver]
  BY DEF RenamedLine
<1> HIDE DEF name, words, params, returns, receiver
<1>8. l = [at |-> l.at, name |-> l.name, exported |-> l.exported, words |-> l.words,
           shape |-> l.shape, path |-> l.path, alias |-> l.alias, value |-> l.value,
           braces |-> l.braces, receiver |-> l.receiver, closed |-> l.closed,
           params |-> l.params, returns |-> l.returns]
  BY DEF LinesOver
<1>9. RenamedLine(l, s, new) =
        [at |-> l.at, name |-> name, exported |-> l.exported, words |-> words,
         shape |-> l.shape, path |-> l.path, alias |-> l.alias, value |-> l.value,
         braces |-> l.braces, receiver |-> receiver, closed |-> l.closed,
         params |-> params, returns |-> returns]
  BY <1>7, <1>8
<1>10. /\ l.at \in STRING /\ l.exported \in BOOLEAN /\ l.shape \in STRING
       /\ l.path \in {None} \cup Seq(STRING) /\ l.alias \in {None} \cup STRING
       /\ l.value \in {None} \cup STRING /\ l.braces \in Int /\ l.closed \in BOOLEAN
  BY DEF LinesOver
<1>11. RenamedLine(l, s, new) \in LinesOver(M)
  BY <1>2, <1>3, <1>4, <1>5, <1>6, <1>9, <1>10 DEF LinesOver
<1>12. QED
  BY <1>9, <1>11 DEF Renames, name, words, params, returns, receiver

\* The methods and the embedded interfaces among some members.
MethodsAmong(members) == {m.name : m \in {m \in members : ~m.embedded}}
EmbedsAmong(members)  == {m.name : m \in {m \in members : m.embedded}}

\* A type that neither is the symbol nor names it where rename-safety looks.
CleanType(t, s) ==
  /\ t.name # s
  /\ t.kind = "struct" => \A m \in t.members : s \notin m.words
  /\ t.kind = "interface" => \A m \in t.members : m.embedded => m.name # s

\* Two types a snapshot does not tell apart.
Alike(t, u) ==
  /\ u.name = t.name /\ u.exported = t.exported /\ u.kind = t.kind
  /\ t.kind = "struct" => u.members = t.members
  /\ t.kind = "interface" => /\ MethodsAmong(u.members) = MethodsAmong(t.members)
                             /\ EmbedsAmong(u.members) = EmbedsAmong(t.members)

AllClean(types, s) == \A i \in 1 .. Len(types) : CleanType(types[i], s)

Same(st, su) ==
  /\ su.block = st.block /\ su.body = st.body /\ su.depth = st.depth
  /\ Len(su.types) = Len(st.types)
  /\ \A i \in 1 .. Len(st.types) : Alike(st.types[i], su.types[i])

\* What a line says may follow where the parser is: no declaration opens among
\* the members of a type.
Follows(st, l) == st.body /\ l.name # None => l.at \in {"", "}"}

\* A line of a struct that does not name the symbol keeps its member.
LEMMA FieldKept ==
  ASSUME NEW N, NEW l \in LinesOver(N), NEW s, s # None, NEW new,
         l.name # None => l.at \in {"", "}"},
         \A m \in MemberOf("struct", l) : s \notin m.words
  PROVE  MemberOf("struct", RenamedLine(l, s, new)) = MemberOf("struct", l)
<1> DEFINE r == RenamedLine(l, s, new)
<1>1. /\ r.at = l.at
      /\ r.name = IF NamesMember(l) THEN l.name ELSE RenamedName(l.name, s, new)
      /\ r.words = RenamedExpr(l.words, s, new)
  <2>1. Renames(l, s, new, r)
    BY RenamedLineIs
  <2> HIDE DEF r
  <2>2. QED
    BY <2>1 DEF Renames
<1> HIDE DEF r
<1>2. MemberOf("struct", l) = IF l.name = None \/ l.at = "}" THEN {}
        ELSE {[name |-> l.name, embedded |-> l.words = {},
               words |-> IF l.words = {} THEN {l.name} ELSE l.words]}
  BY DEF MemberOf
<1>3. MemberOf("struct", r) = IF r.name = None \/ r.at = "}" THEN {}
        ELSE {[name |-> r.name, embedded |-> r.words = {},
               words |-> IF r.words = {} THEN {r.name} ELSE r.words]}
  BY DEF MemberOf
<1>4. CASE l.name = None \/ l.at = "}"
  <2>1. r.name = None \/ r.at = "}"
    BY <1>1, <1>4 DEF RenamedName
  <2>2. QED
    BY <1>2, <1>3, <1>4, <2>1 DEF r
<1>5. CASE l.name # None /\ l.at = "" /\ l.words = {}
  <2>1. [name |-> l.name, embedded |-> TRUE, words |-> {l.name}] \in MemberOf("struct", l)
    BY <1>2, <1>5
  <2>2. s # l.name
    BY <2>1
  <2>3. r.name = l.name /\ r.words = {}
    BY <1>1, <1>5, <2>2, EmptyRenamed DEF RenamedName
  <2>4. QED
    BY <1>1, <1>2, <1>3, <1>5, <2>3 DEF r
<1>6. CASE l.name # None /\ l.at = "" /\ l.words # {}
  <2>1. [name |-> l.name, embedded |-> FALSE, words |-> l.words] \in MemberOf("struct", l)
    BY <1>2, <1>6
  <2>2. s \notin l.words
    BY <2>1
  <2>3. r.name = l.name
    BY <1>1, <1>6 DEF NamesMember
  <2>4. r.words = l.words
    BY <1>1, <2>2, NothingRenamed
  <2>5. QED
    BY <1>1, <1>2, <1>3, <1>6, <2>3, <2>4 DEF r
<1>7. QED
  BY <1>4, <1>5, <1>6

\* A line of an interface that does not embed the symbol keeps its name.
LEMMA MethodKept ==
  ASSUME NEW N, NEW l \in LinesOver(N), NEW s, s # None, NEW new,
         l.name # None => l.at \in {"", "}"},
         \A m \in MemberOf("interface", l) : m.embedded => m.name # s
  PROVE  LET r == RenamedLine(l, s, new) IN
         /\ MethodsAmong(MemberOf("interface", r)) = MethodsAmong(MemberOf("interface", l))
         /\ EmbedsAmong(MemberOf("interface", r)) = EmbedsAmong(MemberOf("interface", l))
<1> DEFINE r == RenamedLine(l, s, new)
<1>1. /\ r.at = l.at /\ r.shape = l.shape
      /\ r.name = IF NamesMember(l) THEN l.name ELSE RenamedName(l.name, s, new)
  <2>1. Renames(l, s, new, r)
    BY RenamedLineIs
  <2> HIDE DEF r
  <2>2. QED
    BY <2>1 DEF Renames
<1> HIDE DEF r
<1>2. MemberOf("interface", l) = IF l.name = None \/ l.at = "}" THEN {}
        ELSE {[name |-> l.name, words |-> l.words \cup {l.name}, embedded |-> l.shape # "("]}
  BY DEF MemberOf
<1>3. MemberOf("interface", r) = IF r.name = None \/ r.at = "}" THEN {}
        ELSE {[name |-> r.name, words |-> r.words \cup {r.name}, embedded |-> r.shape # "("]}
  BY DEF MemberOf
<1>4. CASE l.name = None \/ l.at = "}"
  <2>1. r.name = None \/ r.at = "}"
    BY <1>1, <1>4 DEF RenamedName
  <2>2. QED
    BY <1>2, <1>3, <1>4, <2>1 DEF r
<1>5. CASE l.name # None /\ l.at = ""
  <2> DEFINE m == [name |-> l.name, words |-> l.words \cup {l.name}, embedded |-> l.shape # "("]
             k == [name |-> r.name, words |-> r.words \cup {r.name}, embedded |-> r.shape # "("]
  <2>1. m \in MemberOf("interface", l)
    BY <1>2, <1>5
  <2>2. l.shape # "(" => l.name # s
    BY <2>1
  <2>3. r.name = l.name
    BY <1>1, <1>5, <2>2 DEF NamesMember, RenamedName
  <2>4. MemberOf("interface", l) = {m} /\ MemberOf("interface", r) = {k}
    BY <1>1, <1>2, <1>3, <1>5, <2>3
  <2>5. k.name = m.name /\ (k.embedded <=> m.embedded)
    BY <1>1, <2>3
  <2> HIDE DEF m, k
  <2>6. /\ MethodsAmong({k}) = MethodsAmong({m})
        /\ EmbedsAmong({k}) = EmbedsAmong({m})
    BY <2>5 DEF MethodsAmong, EmbedsAmong
  <2>7. QED
    BY <2>4, <2>6 DEF r
<1>6. QED
  BY <1>4, <1>5

\* A type with the member a line holds.
Gains(t, l) == [t EXCEPT !.members = @ \cup MemberOf(t.kind, l)]

\* What a type is after it gained a member.
LEMMA GainsIs ==
  ASSUME NEW N, NEW t \in TypesOver(N), NEW l
  PROVE  /\ Gains(t, l).name = t.name /\ Gains(t, l).exported = t.exported
         /\ Gains(t, l).kind = t.kind
         /\ Gains(t, l).members = t.members \cup MemberOf(t.kind, l)
BY DEF Gains, TypesOver

\* The last type gains the member of the line.
LEMMA MemberGained ==
  ASSUME NEW N, NEW types \in Seq(TypesOver(N)), Len(types) > 0, NEW l \in LinesOver(N)
  PROVE  /\ Len(WithMember(types, l)) = Len(types)
         /\ \A i \in 1 .. Len(types) :
              WithMember(types, l)[i] = IF i = Len(types) THEN Gains(types[i], l) ELSE types[i]
BY MemberTyped DEF Gains

\* A type a snapshot does not tell from its renamed form gains members it does
\* not tell apart either.
LEMMA AlikeGains ==
  ASSUME NEW N, NEW M, NEW t \in TypesOver(N), NEW u \in TypesOver(M), Alike(t, u),
         NEW l \in LinesOver(N), l.name # None => l.at \in {"", "}"},
         NEW s, s # None, NEW new, CleanType(Gains(t, l), s)
  PROVE  Alike(Gains(t, l), Gains(u, RenamedLine(l, s, new)))
<1> DEFINE r == RenamedLine(l, s, new)
<1>1. /\ Gains(t, l).name = t.name /\ Gains(t, l).exported = t.exported
      /\ Gains(t, l).kind = t.kind
      /\ Gains(t, l).members = t.members \cup MemberOf(t.kind, l)
  BY GainsIs
<1>2. /\ Gains(u, r).name = u.name /\ Gains(u, r).exported = u.exported
      /\ Gains(u, r).kind = u.kind
      /\ Gains(u, r).members = u.members \cup MemberOf(u.kind, r)
  <2> HIDE DEF r
  <2>1. QED
    BY GainsIs
<1>3. u.name = t.name /\ u.exported = t.exported /\ u.kind = t.kind
  BY DEF Alike
<1>4. ASSUME t.kind = "struct" PROVE Gains(u, r).members = Gains(t, l).members
  <2>1. \A m \in MemberOf("struct", l) : s \notin m.words
    BY <1>1, <1>4 DEF CleanType
  <2>2. MemberOf("struct", r) = MemberOf("struct", l)
    BY <2>1, FieldKept
  <2> HIDE DEF r
  <2>3. u.members = t.members
    BY <1>4 DEF Alike
  <2>4. QED
    BY <1>1, <1>2, <1>3, <1>4, <2>2, <2>3
<1>5. ASSUME t.kind = "interface"
      PROVE  /\ MethodsAmong(Gains(u, r).members) = MethodsAmong(Gains(t, l).members)
             /\ EmbedsAmong(Gains(u, r).members) = EmbedsAmong(Gains(t, l).members)
  <2>1. \A m \in MemberOf("interface", l) : m.embedded => m.name # s
    BY <1>1, <1>5 DEF CleanType
  <2>2. /\ MethodsAmong(MemberOf("interface", r)) = MethodsAmong(MemberOf("interface", l))
        /\ EmbedsAmong(MemberOf("interface", r)) = EmbedsAmong(MemberOf("interface", l))
    BY <2>1, MethodKept
  <2> HIDE DEF r
  <2>3. /\ MethodsAmong(u.members) = MethodsAmong(t.members)
        /\ EmbedsAmong(u.members) = EmbedsAmong(t.members)
    BY <1>5 DEF Alike
  <2>4. \A a, b : /\ MethodsAmong(a \cup b) = MethodsAmong(a) \cup MethodsAmong(b)
                  /\ EmbedsAmong(a \cup b) = EmbedsAmong(a) \cup EmbedsAmong(b)
    BY DEF MethodsAmong, EmbedsAmong
  <2>5. /\ Gains(u, r).members = u.members \cup MemberOf("interface", r)
        /\ Gains(t, l).members = t.members \cup MemberOf("interface", l)
    BY <1>1, <1>2, <1>3, <1>5
  <2>6. /\ MethodsAmong(Gains(u, r).members)
             = MethodsAmong(u.members) \cup MethodsAmong(MemberOf("interface", r))
        /\ MethodsAmong(Gains(t, l).members)
             = MethodsAmong(t.members) \cup MethodsAmong(MemberOf("interface", l))
        /\ EmbedsAmong(Gains(u, r).members)
             = EmbedsAmong(u.members) \cup EmbedsAmong(MemberOf("interface", r))
        /\ EmbedsAmong(Gains(t, l).members)
             = EmbedsAmong(t.members) \cup EmbedsAmong(MemberOf("interface", l))
    BY <2>4, <2>5
  <2>7. QED
    BY <2>2, <2>3, <2>6 DEF r
<1> HIDE DEF r
<1>6. Alike(Gains(t, l), Gains(u, r))
  BY <1>1, <1>2, <1>3, <1>4, <1>5 DEF Alike
<1>7. QED
  BY <1>6 DEF r

\* A line within a body and its renamed form.
LEMMA SameInBody ==
  ASSUME NEW N, NEW M, NEW st \in ParserOver(N), NEW su \in ParserOver(M), Same(st, su),
         NEW l \in LinesOver(N), NEW s, s # None, NEW new,
         RenamedLine(l, s, new) \in LinesOver(M),
         st.body, Follows(st, l), AllClean(TypeLine(st, l).types, s)
  PROVE  Same(TypeLine(st, l), TypeLine(su, RenamedLine(l, s, new)))
<1> DEFINE r == RenamedLine(l, s, new)
           d == st.depth + l.braces
<1>1. Renames(l, s, new, r)
  BY RenamedLineIs
<1>2. /\ st \in [block : BOOLEAN, body : BOOLEAN, depth : Int, types : Seq(TypesOver(N))]
      /\ su \in [block : BOOLEAN, body : BOOLEAN, depth : Int, types : Seq(TypesOver(M))]
      /\ Len(st.types) > 0 /\ l.braces \in Int /\ r \in LinesOver(M)
  BY DEF ParserOver, LinesOver
<1>3. /\ su.block = st.block /\ su.body = st.body /\ su.depth = st.depth
      /\ Len(su.types) = Len(st.types)
      /\ \A i \in 1 .. Len(st.types) : Alike(st.types[i], su.types[i])
  BY DEF Same
<1>4. d \in Int /\ su.depth + r.braces = d
  BY <1>1, <1>2, <1>3 DEF Renames
<1> HIDE DEF r
<1>5. /\ d <= 0 => TypeLine(st, l) = BodyEnded(st)
      /\ d = 1  => TypeLine(st, l) = MemberAdded(st, l)
      /\ d > 1  => TypeLine(st, l) = AtDepth(st, d)
  BY LineInBody
<1>6. /\ d <= 0 => TypeLine(su, r) = BodyEnded(su)
      /\ d = 1  => TypeLine(su, r) = MemberAdded(su, r)
      /\ d > 1  => TypeLine(su, r) = AtDepth(su, d)
  <2>1. su.body
    BY <1>3
  <2>2. /\ su.depth + r.braces <= 0 => TypeLine(su, r) = BodyEnded(su)
        /\ su.depth + r.braces = 1  => TypeLine(su, r) = MemberAdded(su, r)
        /\ su.depth + r.braces > 1  => TypeLine(su, r) = AtDepth(su, su.depth + r.braces)
    BY <1>2, <2>1, LineInBody
  <2>3. QED
    BY <1>4, <2>2
<1> HIDE DEF d
<1>7. CASE d <= 0
  <2>1. Same(BodyEnded(st), BodyEnded(su))
    BY <1>2, <1>3 DEF Same, BodyEnded
  <2>2. QED
    BY <1>5, <1>6, <1>7, <2>1 DEF r
<1>8. CASE d > 1
  <2>1. Same(AtDepth(st, d), AtDepth(su, d))
    BY <1>2, <1>3 DEF Same, AtDepth
  <2>2. QED
    BY <1>5, <1>6, <1>8, <2>1 DEF r
<1>9. CASE d = 1
  <2> DEFINE a == WithMember(st.types, l)
             b == WithMember(su.types, r)
             n == Len(st.types)
  <2>1. /\ Len(a) = n
        /\ \A i \in 1 .. n : a[i] = IF i = n THEN Gains(st.types[i], l) ELSE st.types[i]
    BY <1>2, MemberGained
  <2>2. /\ Len(b) = n
        /\ \A i \in 1 .. n : b[i] = IF i = n THEN Gains(su.types[i], r) ELSE su.types[i]
    <3>1. Len(su.types) > 0
      BY <1>2, <1>3
    <3>2. /\ Len(b) = Len(su.types)
          /\ \A i \in 1 .. Len(su.types) :
               b[i] = IF i = Len(su.types) THEN Gains(su.types[i], r) ELSE su.types[i]
      BY <1>2, <3>1, MemberGained
    <3>3. QED
      BY <1>3, <3>2
  <2>3. /\ MemberAdded(st, l).types = a /\ MemberAdded(st, l).block = st.block
        /\ MemberAdded(st, l).body = st.body /\ MemberAdded(st, l).depth = 1
    <3> HIDE DEF a
    <3>1. QED
      BY <1>2 DEF MemberAdded, a
  <2>4. /\ MemberAdded(su, r).types = b /\ MemberAdded(su, r).block = su.block
        /\ MemberAdded(su, r).body = su.body /\ MemberAdded(su, r).depth = 1
    <3> HIDE DEF b
    <3>1. QED
      BY <1>2 DEF MemberAdded, b
  <2> DEFINE t == st.types[n]
             u == su.types[n]
  <2>5. /\ n \in 1 .. n /\ t \in TypesOver(N) /\ u \in TypesOver(M) /\ Alike(t, u)
    BY <1>2, <1>3
  <2>6. Alike(Gains(t, l), Gains(u, r))
    <3>1. a[n] = Gains(t, l) /\ AllClean(a, s)
      BY <1>5, <1>9, <2>1, <2>3, <2>5
    <3> HIDE DEF a, n, t, u
    <3>2. CleanType(Gains(t, l), s)
      BY <2>1, <2>5, <3>1 DEF AllClean
    <3>3. l.name # None => l.at \in {"", "}"}
      BY DEF Follows
    <3>4. Alike(Gains(t, l), Gains(u, RenamedLine(l, s, new)))
      BY <2>5, <3>2, <3>3, AlikeGains
    <3>5. QED
      BY <3>4 DEF r
  <2>7. \A i \in 1 .. n : Alike(a[i], b[i])
    <3> HIDE DEF a, b
    <3>1. QED
      BY <1>3, <2>1, <2>2, <2>6
  <2> HIDE DEF a, b, n
  <2>8. Same(MemberAdded(st, l), MemberAdded(su, r))
    BY <1>3, <2>1, <2>2, <2>3, <2>4, <2>7 DEF Same
  <2>9. QED
    BY <1>5, <1>6, <1>9, <2>8 DEF r
<1>10. QED
  BY <1>4, <1>7, <1>8, <1>9

\* A line outside of bodies and its renamed form.
LEMMA SameOutside ==
  ASSUME NEW N, NEW M, NEW st \in ParserOver(N), NEW su \in ParserOver(M), Same(st, su),
         NEW l \in LinesOver(N), NEW s, s # None, NEW new,
         RenamedLine(l, s, new) \in LinesOver(M),
         ~st.body, AllClean(TypeLine(st, l).types, s)
  PROVE  Same(TypeLine(st, l), TypeLine(su, RenamedLine(l, s, new)))
<1> DEFINE r == RenamedLine(l, s, new)
<1>1. Renames(l, s, new, r)
  BY RenamedLineIs
<1>2. /\ st \in [block : BOOLEAN, body : BOOLEAN, depth : Int, types : Seq(TypesOver(N))]
      /\ su \in [block : BOOLEAN, body : BOOLEAN, depth : Int, types : Seq(TypesOver(M))]
      /\ l.braces \in Int /\ r \in LinesOver(M)
  BY DEF ParserOver, LinesOver
<1>3. /\ su.block = st.block /\ su.body = st.body /\ su.depth = st.depth
      /\ Len(su.types) = Len(st.types)
      /\ \A i \in 1 .. Len(st.types) : Alike(st.types[i], su.types[i])
  BY DEF Same
<1>4. /\ r.at = l.at /\ r.shape = l.shape /\ r.braces = l.braces /\ r.exported = l.exported
      /\ r.name = IF NamesMember(l) THEN l.name ELSE RenamedName(l.name, s, new)
  BY <1>1 DEF Renames
<1> HIDE DEF r
<1>5. /\ l.at = "type(" => TypeLine(st, l) = BlockOpen(st, TRUE)
      /\ st.block /\ l.at = ")" => TypeLine(st, l) = BlockOpen(st, FALSE)
      /\ Declares(st, l) => TypeLine(st, l) = TypeAdded(st, l)
      /\ l.at # "type(" /\ ~(st.block /\ l.at = ")") /\ ~Declares(st, l) => TypeLine(st, l) = st
  BY LineOutside
<1>6. /\ r.at = "type(" => TypeLine(su, r) = BlockOpen(su, TRUE)
      /\ su.block /\ r.at = ")" => TypeLine(su, r) = BlockOpen(su, FALSE)
      /\ Declares(su, r) => TypeLine(su, r) = TypeAdded(su, r)
      /\ r.at # "type(" /\ ~(su.block /\ r.at = ")") /\ ~Declares(su, r) => TypeLine(su, r) = su
  <2>1. ~su.body
    BY <1>3
  <2>2. QED
    BY <1>2, <2>1, LineOutside
<1>7. CASE Declares(st, l)
  <2> DEFINE t == DeclaredOn(l)
             u == DeclaredOn(r)
             n == Len(st.types)
             a == Append(st.types, t)
             b == Append(su.types, u)
  <2>1. /\ n \in Nat /\ Len(a) = n + 1 /\ a[n + 1] = t
        /\ \A i \in 1 .. n : a[i] = st.types[i]
    <3> HIDE DEF t
    <3>1. QED
      BY <1>2
  <2>2. /\ Len(b) = n + 1 /\ b[n + 1] = u
        /\ \A i \in 1 .. n : b[i] = su.types[i]
    <3> HIDE DEF u
    <3>1. QED
      BY <1>2, <1>3
  <2>3. /\ TypeAdded(st, l).types = a /\ TypeAdded(st, l).block = st.block
        /\ TypeAdded(st, l).depth = l.braces
        /\ TypeAdded(st, l).body = (l.shape \in {"struct{", "interface{"} /\ l.braces > 0)
    <3> HIDE DEF t
    <3>1. QED
      BY <1>2 DEF TypeAdded, t
  <2>4. /\ TypeAdded(su, r).types = b /\ TypeAdded(su, r).block = su.block
        /\ TypeAdded(su, r).depth = r.braces
        /\ TypeAdded(su, r).body = (r.shape \in {"struct{", "interface{"} /\ r.braces > 0)
    <3> HIDE DEF u
    <3>1. QED
      BY <1>2 DEF TypeAdded, u
  <2>5. l.name # s
    <3>1. AllClean(a, s)
      BY <1>5, <1>7, <2>3
    <3> HIDE DEF a, n
    <3>2. n + 1 \in 1 .. Len(a)
      BY <2>1
    <3>3. CleanType(t, s)
      BY <2>1, <3>1, <3>2 DEF AllClean
    <3>4. QED
      BY <3>3 DEF CleanType, DeclaredOn
  <2>6. r.name = l.name
    BY <1>4, <2>5 DEF RenamedName
  <2>7. Alike(t, u)
    BY <1>4, <2>6 DEF Alike, DeclaredOn
  <2>8. Declares(su, r)
    BY <1>3, <1>4, <1>7, <2>6 DEF Declares
  <2>9. \A i \in 1 .. n + 1 : Alike(a[i], b[i])
    <3>1. TAKE i \in 1 .. n + 1
    <3>2. i \in 1 .. n \/ i = n + 1
      BY <2>1
    <3> HIDE DEF a, b, n, t, u
    <3>3. CASE i \in 1 .. n
      <4>1. a[i] = st.types[i] /\ b[i] = su.types[i]
        BY <2>1, <2>2, <3>3
      <4>2. Alike(st.types[i], su.types[i])
        BY <1>3, <3>3 DEF n
      <4>3. QED
        BY <4>1, <4>2
    <3>4. CASE i = n + 1
      BY <2>1, <2>2, <2>7, <3>4
    <3>5. QED
      BY <3>2, <3>3, <3>4
  <2> HIDE DEF a, b, n, t, u
  <2>10. Same(TypeAdded(st, l), TypeAdded(su, r))
    BY <1>3, <1>4, <2>1, <2>2, <2>3, <2>4, <2>9 DEF Same
  <2>11. QED
    BY <1>5, <1>6, <1>7, <2>8, <2>10 DEF r
<1>8. CASE ~Declares(st, l)
  <2>1. ~Declares(su, r)
    BY <1>3, <1>4, <1>8 DEF Declares, RenamedName
  <2>2. \A open : Same(BlockOpen(st, open), BlockOpen(su, open))
    BY <1>2, <1>3 DEF Same, BlockOpen
  <2>3. Same(TypeLine(st, l), TypeLine(su, r))
    BY <1>3, <1>4, <1>5, <1>6, <1>8, <2>1, <2>2
  <2>4. QED
    BY <2>3 DEF r
<1>9. QED
  BY <1>7, <1>8

\* What was clean after a line was clean before it.
LEMMA CleanBefore ==
  ASSUME NEW N, NEW st \in ParserOver(N), NEW l \in LinesOver(N), NEW s,
         AllClean(TypeLine(st, l).types, s)
  PROVE  AllClean(st.types, s)
<1>1. /\ st \in [block : BOOLEAN, body : BOOLEAN, depth : Int, types : Seq(TypesOver(N))]
      /\ st.body => Len(st.types) > 0
      /\ l.braces \in Int
  BY DEF ParserOver, LinesOver
<1>2. CASE st.body
  <2> DEFINE d == st.depth + l.braces
  <2>1. d \in Int
    BY <1>1
  <2>2. /\ d <= 0 => TypeLine(st, l) = BodyEnded(st)
        /\ d = 1  => TypeLine(st, l) = MemberAdded(st, l)
        /\ d > 1  => TypeLine(st, l) = AtDepth(st, d)
    BY <1>2, LineInBody
  <2> HIDE DEF d
  <2>3. CASE d = 1
    <3> DEFINE a == WithMember(st.types, l)
               n == Len(st.types)
    <3>1. /\ Len(a) = n
          /\ \A i \in 1 .. n : a[i] = IF i = n THEN Gains(st.types[i], l) ELSE st.types[i]
      BY <1>1, <1>2, MemberGained
    <3>2. MemberAdded(st, l).types = a
      <4> HIDE DEF a
      <4>1. QED
        BY <1>1 DEF MemberAdded, a
    <3>3. \A i \in 1 .. n : st.types[i] \in TypesOver(N)
      BY <1>1
    <3> HIDE DEF a, n
    <3>4. ASSUME NEW i \in 1 .. n PROVE CleanType(st.types[i], s)
      <4> DEFINE t == st.types[i]
      <4>1. CleanType(a[i], s)
        BY <2>2, <2>3, <3>1, <3>2 DEF AllClean
      <4>2. t \in TypesOver(N) /\ (a[i] = Gains(t, l) \/ a[i] = t)
        BY <3>1, <3>3
      <4> HIDE DEF t
      <4>3. CleanType(Gains(t, l), s) => CleanType(t, s)
        <5>1. /\ Gains(t, l).name = t.name /\ Gains(t, l).kind = t.kind
              /\ Gains(t, l).members = t.members \cup MemberOf(t.kind, l)
          BY <4>2, GainsIs
        <5>2. QED
          BY <5>1 DEF CleanType
      <4>4. QED
        BY <4>1, <4>2, <4>3 DEF t
    <3>5. QED
      BY <3>4 DEF AllClean, n
  <2>4. CASE d # 1
    <3>1. BodyEnded(st).types = st.types /\ AtDepth(st, d).types = st.types
      BY <1>1 DEF BodyEnded, AtDepth
    <3>2. TypeLine(st, l) = BodyEnded(st) \/ TypeLine(st, l) = AtDepth(st, d)
      BY <2>1, <2>2, <2>4
    <3>3. TypeLine(st, l).types = st.types
      BY <3>1, <3>2
    <3>4. QED
      BY <3>3
  <2>5. QED
    BY <2>3, <2>4
<1>3. CASE ~st.body
  <2>1. /\ l.at = "type(" => TypeLine(st, l) = BlockOpen(st, TRUE)
        /\ st.block /\ l.at = ")" => TypeLine(st, l) = BlockOpen(st, FALSE)
        /\ Declares(st, l) => TypeLine(st, l) = TypeAdded(st, l)
        /\ l.at # "type(" /\ ~(st.block /\ l.at = ")") /\ ~Declares(st, l) => TypeLine(st, l) = st
    BY <1>3, LineOutside
  <2>2. CASE Declares(st, l)
    <3> DEFINE t == DeclaredOn(l)
               n == Len(st.types)
    <3>1. TypeLine(st, l).types = Append(st.types, t)
      <4> HIDE DEF t
      <4>1. TypeAdded(st, l).types = Append(st.types, t)
        BY <1>1 DEF TypeAdded, t
      <4>2. QED
        BY <2>1, <2>2, <4>1
    <3> HIDE DEF t
    <3>2. /\ n \in Nat /\ Len(Append(st.types, t)) = n + 1
          /\ \A i \in 1 .. n : Append(st.types, t)[i] = st.types[i]
      BY <1>1
    <3>3. ASSUME NEW i \in 1 .. n PROVE CleanType(st.types[i], s)
      <4>1. i \in 1 .. Len(Append(st.types, t))
        BY <3>2
      <4>2. CleanType(Append(st.types, t)[i], s)
        BY <3>1, <4>1 DEF AllClean
      <4>3. QED
        BY <3>2, <4>2
    <3>4. QED
      BY <3>3 DEF AllClean
  <2>3. CASE ~Declares(st, l)
    <3>1. TypeLine(st, l).types = st.types
      BY <1>1, <2>1, <2>3 DEF BlockOpen
    <3>2. QED
      BY <3>1
  <2>4. QED
    BY <2>2, <2>3
<1>4. QED
  BY <1>2, <1>3

\* The lines of a file, renamed, are lines again.
LEMMA LinesRenamed ==
  ASSUME NEW N, NEW lines \in Seq(LinesOver(N)), NEW s, NEW new
  PROVE  /\ RenamedLines(lines, s, new) \in Seq(LinesOver(N \cup {new}))
         /\ Len(RenamedLines(lines, s, new)) = Len(lines)
         /\ \A n \in 1 .. Len(lines) :
              RenamedLines(lines, s, new)[n] = RenamedLine(lines[n], s, new)
<1> DEFINE last == Len(lines)
           M == N \cup {new}
           to == [n \in 1 .. last |-> RenamedLine(lines[n], s, new)]
<1>1. /\ last \in Nat /\ DOMAIN lines = 1 .. last
      /\ \A n \in 1 .. last : lines[n] \in LinesOver(N)
  OBVIOUS
<1>2. RenamedLines(lines, s, new) = to
  BY <1>1 DEF RenamedLines
<1>3. \A n \in 1 .. last : RenamedLine(lines[n], s, new) \in LinesOver(M)
  BY <1>1, RenamedLineIs
<1>4. to \in [1 .. last -> LinesOver(M)]
  BY <1>3
<1> HIDE DEF to, M, last
<1>5. to \in Seq(LinesOver(M)) /\ Len(to) = last
  BY <1>1, <1>4
<1>6. \A n \in 1 .. last : to[n] = RenamedLine(lines[n], s, new)
  BY DEF to
<1>7. QED
  BY <1>2, <1>5, <1>6 DEF M, last

\* No declaration opens among the members of a type.
Followed(lines) == \A n \in DOMAIN lines : Follows(TypesParsed(lines)[n - 1], lines[n])

\* The types of a file that does not name the symbol, and of its renamed form,
\* are not told apart.
LEMMA TypesAlike ==
  ASSUME NEW N, NEW lines \in Seq(LinesOver(N)), Followed(lines), NEW s, s # None, NEW new,
         AllClean(TypesOf(lines), s)
  PROVE  /\ TypesOf(lines) \in Seq(TypesOver(N))
         /\ TypesOf(RenamedLines(lines, s, new)) \in Seq(TypesOver(N \cup {new}))
         /\ Len(TypesOf(RenamedLines(lines, s, new))) = Len(TypesOf(lines))
         /\ \A i \in 1 .. Len(TypesOf(lines)) :
              Alike(TypesOf(lines)[i], TypesOf(RenamedLines(lines, s, new))[i])
<1> DEFINE last == Len(lines)
           M == N \cup {new}
           to == RenamedLines(lines, s, new)
           p == TypesParsed(lines)
           q == TypesParsed(to)
<1>1. /\ last \in Nat /\ DOMAIN lines = 1 .. last
      /\ \A n \in 1 .. last : lines[n] \in LinesOver(N)
  OBVIOUS
<1>2. /\ to \in Seq(LinesOver(M)) /\ Len(to) = last
      /\ \A n \in 1 .. last : to[n] = RenamedLine(lines[n], s, new)
  <2>1. to \in Seq(LinesOver(M))
    BY LinesRenamed
  <2>2. Len(to) = last
    BY LinesRenamed
  <2>3. \A n \in 1 .. last : to[n] = RenamedLine(lines[n], s, new)
    <3>1. RenamedLines(lines, s, new)
            = [n \in DOMAIN lines |-> RenamedLine(lines[n], s, new)]
      BY DEF RenamedLines
    <3>2. QED
      BY <1>1, <3>1
  <2>4. QED
    BY <2>1, <2>2, <2>3
<1> HIDE DEF to, M
<1>3. /\ p[0] = TypesStart
      /\ \A n \in 1 .. last : p[n] = TypeLine(p[n - 1], lines[n])
      /\ \A n \in 0 .. last : p[n] \in ParserOver(N)
  BY ParserRuns
<1>4. /\ q[0] = TypesStart
      /\ \A n \in 1 .. last : q[n] = TypeLine(q[n - 1], to[n])
      /\ \A n \in 0 .. last : q[n] \in ParserOver(M)
  <2>1. /\ TypesParsed(to)[0] = TypesStart
        /\ \A n \in 1 .. Len(to) : TypesParsed(to)[n] = TypeLine(TypesParsed(to)[n - 1], to[n])
        /\ \A n \in 0 .. Len(to) : TypesParsed(to)[n] \in ParserOver(M)
    BY <1>2, ParserRuns
  <2>2. QED
    BY <1>2, <2>1
<1>5. /\ TypesOf(lines) = p[last].types /\ TypesOf(to) = q[last].types
      /\ \A n \in 1 .. last : Follows(p[n - 1], lines[n])
  BY <1>1, <1>2 DEF TypesOf, Followed
<1> HIDE DEF p, q, last
<1> DEFINE D == {n \in Nat : n <= last => AllClean(p[last - n].types, s)}
<1>6. 0 \in D
  BY <1>1, <1>5
<1>7. ASSUME NEW n \in Nat, n \in D PROVE n + 1 \in D
  <2>1. SUFFICES ASSUME n + 1 <= last PROVE AllClean(p[last - (n + 1)].types, s)
    OBVIOUS
  <2> DEFINE k == last - n
  <2>2. /\ k \in 1 .. last /\ k - 1 = last - (n + 1) /\ k - 1 \in 0 .. last
        /\ AllClean(p[k].types, s)
    BY <1>1, <1>7, <2>1
  <2> HIDE DEF k
  <2>3. /\ p[k - 1] \in ParserOver(N) /\ lines[k] \in LinesOver(N)
        /\ AllClean(TypeLine(p[k - 1], lines[k]).types, s)
    BY <1>1, <1>3, <2>2
  <2>4. AllClean(p[k - 1].types, s)
    BY <2>3, CleanBefore
  <2>5. QED
    BY <2>2, <2>4
<1>8. Nat \subseteq D
  <2> HIDE DEF D
  <2>1. QED
    BY <1>6, <1>7, SetInduction
<1>9. \A n \in 0 .. last : AllClean(p[n].types, s)
  <2>1. TAKE n \in 0 .. last
  <2>2. last - n \in Nat /\ last - n <= last /\ last - (last - n) = n
    BY <1>1
  <2>3. last - n \in D
    BY <1>8, <2>2
  <2>4. QED
    BY <2>2, <2>3
<1> DEFINE U == {n \in Nat : n <= last => Same(p[n], q[n])}
<1>10. 0 \in U
  <2>1. Same(TypesStart, TypesStart)
    BY DEF Same, TypesStart
  <2>2. QED
    BY <1>3, <1>4, <2>1
<1>11. ASSUME NEW n \in Nat, n \in U PROVE n + 1 \in U
  <2>1. SUFFICES ASSUME n + 1 <= last PROVE Same(p[n + 1], q[n + 1])
    OBVIOUS
  <2>2. /\ n + 1 \in 1 .. last /\ (n + 1) - 1 = n /\ n \in 0 .. last /\ n + 1 \in 0 .. last
        /\ Same(p[n], q[n])
    BY <1>1, <1>11, <2>1
  <2> DEFINE l == lines[n + 1]
             st == p[n]
             su == q[n]
  <2>3. /\ st \in ParserOver(N) /\ su \in ParserOver(M) /\ l \in LinesOver(N) /\ Same(st, su)
        /\ Follows(st, l) /\ p[n + 1] = TypeLine(st, l)
        /\ q[n + 1] = TypeLine(su, RenamedLine(l, s, new))
        /\ RenamedLine(l, s, new) \in LinesOver(M)
    <3>1. RenamedLine(lines[n + 1], s, new) \in LinesOver(M)
      BY <1>1, <2>2, RenamedLineIs DEF M
    <3>2. QED
      BY <1>1, <1>2, <1>3, <1>4, <1>5, <2>2, <3>1
  <2>4. AllClean(TypeLine(st, l).types, s)
    BY <1>9, <2>2, <2>3
  <2> HIDE DEF l, st, su
  <2>5. Same(TypeLine(st, l), TypeLine(su, RenamedLine(l, s, new)))
    BY <2>3, <2>4, SameInBody, SameOutside
  <2>6. QED
    BY <2>3, <2>5
<1>12. Nat \subseteq U
  <2> HIDE DEF U
  <2>1. QED
    BY <1>10, <1>11, SetInduction
<1>13. Same(p[last], q[last])
  BY <1>1, <1>12
<1>14. p[last].types \in Seq(TypesOver(N)) /\ q[last].types \in Seq(TypesOver(M))
  <2>1. last \in 0 .. last
    BY <1>1
  <2>2. p[last] \in ParserOver(N) /\ q[last] \in ParserOver(M)
    BY <1>3, <1>4, <2>1
  <2>3. QED
    BY <2>2 DEF ParserOver
<1>15. QED
  BY <1>5, <1>13, <1>14 DEF Same, to, M

\* A function that neither is the symbol nor names it.
CleanFunction(g, s) ==
  /\ g.name # s /\ OwnerOf(g) # s
  /\ \A i \in DOMAIN g.params : s \notin g.params[i]
  /\ \A i \in DOMAIN g.returns : s \notin g.returns[i]

\* The function a line declares.
IsFunction(l) == l.at = "func" /\ l.name # None

FunctionOn(l) == [name |-> l.name, exported |-> l.exported, receiver |-> l.receiver,
                  params  |-> IF l.closed THEN l.params ELSE << >>,
                  returns |-> IF l.closed THEN l.returns ELSE << >>]

\* A function that does not name the symbol is declared by the renamed line too.
LEMMA FunctionKept ==
  ASSUME NEW N, NEW l \in LinesOver(N), NEW s, s # None, NEW new,
         IsFunction(l) => CleanFunction(FunctionOn(l), s)
  PROVE  /\ IsFunction(RenamedLine(l, s, new)) <=> IsFunction(l)
         /\ IsFunction(l) => FunctionOn(RenamedLine(l, s, new)) = FunctionOn(l)
<1> DEFINE r == RenamedLine(l, s, new)
<1>1. Renames(l, s, new, r)
  BY RenamedLineIs
<1>2. /\ l.receiver \in {None} \cup [type : N] /\ l.closed \in BOOLEAN
      /\ l.params \in Seq(SUBSET N) /\ l.returns \in Seq(SUBSET N)
  BY DEF LinesOver
<1> HIDE DEF r
<1>3. /\ r.at = l.at /\ r.exported = l.exported /\ r.closed = l.closed
      /\ r.name = IF NamesMember(l) THEN l.name ELSE RenamedName(l.name, s, new)
      /\ r.params = [i \in DOMAIN l.params |-> RenamedExpr(l.params[i], s, new)]
      /\ r.returns = [i \in DOMAIN l.returns |-> RenamedExpr(l.returns[i], s, new)]
      /\ r.receiver = IF l.receiver = None THEN None
                      ELSE [type |-> RenamedName(l.receiver.type, s, new)]
  BY <1>1 DEF Renames
<1>4. CASE ~IsFunction(l)
  <2>1. ~IsFunction(r)
    BY <1>3, <1>4 DEF IsFunction, RenamedName
  <2>2. QED
    BY <1>4, <2>1 DEF r
<1>5. CASE IsFunction(l)
  <2>1. CleanFunction(FunctionOn(l), s)
    BY <1>5
  <2>2. /\ l.name # s
        /\ (IF l.receiver = None THEN None ELSE l.receiver.type) # s
        /\ l.closed => /\ \A i \in DOMAIN l.params : s \notin l.params[i]
                       /\ \A i \in DOMAIN l.returns : s \notin l.returns[i]
    BY <2>1 DEF CleanFunction, FunctionOn, OwnerOf
  <2>3. r.name = l.name /\ IsFunction(r)
    BY <1>3, <1>5, <2>2 DEF IsFunction, RenamedName
  <2>4. r.receiver = l.receiver
    <3>1. CASE l.receiver = None
      BY <1>3, <3>1
    <3>2. CASE l.receiver # None
      <4>1. l.receiver \in [type : N] /\ l.receiver.type # s
        BY <1>2, <2>2, <3>2
      <4>2. r.receiver = [type |-> l.receiver.type]
        BY <1>3, <3>2, <4>1 DEF RenamedName
      <4>3. QED
        BY <4>1, <4>2
    <3>3. QED
      BY <3>1, <3>2
  <2>5. l.closed => r.params = l.params /\ r.returns = l.returns
    <3>1. ASSUME NEW exprs \in Seq(SUBSET N), \A i \in DOMAIN exprs : s \notin exprs[i]
          PROVE  [i \in DOMAIN exprs |-> RenamedExpr(exprs[i], s, new)] = exprs
      <4>1. ASSUME NEW i \in DOMAIN exprs PROVE RenamedExpr(exprs[i], s, new) = exprs[i]
        <5> DEFINE e == exprs[i]
        <5>1. s \notin e
          BY <3>1
        <5> HIDE DEF e
        <5>2. RenamedExpr(e, s, new) = e
          BY <5>1, NothingRenamed
        <5>3. QED
          BY <5>2 DEF e
      <4>2. [i \in DOMAIN exprs |-> RenamedExpr(exprs[i], s, new)]
              = [i \in DOMAIN exprs |-> exprs[i]]
        BY <4>1
      <4>3. [i \in DOMAIN exprs |-> exprs[i]] = exprs
        OBVIOUS
      <4>4. QED
        BY <4>2, <4>3
    <3>2. QED
      BY <1>2, <1>3, <2>2, <3>1
  <2>6. FunctionOn(r) = FunctionOn(l)
    BY <1>2, <1>3, <2>3, <2>4, <2>5 DEF FunctionOn
  <2>7. QED
    BY <1>5, <2>3, <2>6 DEF r
<1>6. QED
  BY <1>4, <1>5

\* The functions of a file none of which names the symbol.
LEMMA FunctionsKept ==
  ASSUME NEW N, NEW lines \in Seq(LinesOver(N)), NEW s, s # None, NEW new,
         \A g \in FunctionsOf(lines) : CleanFunction(g, s)
  PROVE  FunctionsOf(RenamedLines(lines, s, new)) = FunctionsOf(lines)
<1> DEFINE last == Len(lines)
           to == RenamedLines(lines, s, new)
           FuncsIn(ls) == {i \in DOMAIN ls : IsFunction(ls[i])}
<1>1. /\ last \in Nat /\ DOMAIN lines = 1 .. last
      /\ \A n \in 1 .. last : lines[n] \in LinesOver(N)
  OBVIOUS
<1>2. DOMAIN to = 1 .. last /\ \A n \in 1 .. last : to[n] = RenamedLine(lines[n], s, new)
  BY <1>1 DEF RenamedLines
<1> HIDE DEF to, last
<1>3. \A ls : FunctionsOf(ls) = {FunctionOn(ls[i]) : i \in FuncsIn(ls)}
  BY DEF FunctionsOf, FunctionOn, IsFunction
<1>4. ASSUME NEW n \in 1 .. last
      PROVE  /\ IsFunction(to[n]) <=> IsFunction(lines[n])
             /\ IsFunction(lines[n]) => FunctionOn(to[n]) = FunctionOn(lines[n])
  <2> DEFINE l == lines[n]
  <2>1. l \in LinesOver(N) /\ to[n] = RenamedLine(l, s, new)
    BY <1>1, <1>2
  <2>2. IsFunction(l) => CleanFunction(FunctionOn(l), s)
    BY <1>1, <1>3
  <2> HIDE DEF l
  <2>3. /\ IsFunction(RenamedLine(l, s, new)) <=> IsFunction(l)
        /\ IsFunction(l) => FunctionOn(RenamedLine(l, s, new)) = FunctionOn(l)
    BY <2>1, <2>2, FunctionKept
  <2>4. QED
    BY <2>1, <2>3 DEF l
<1>5. FuncsIn(to) = FuncsIn(lines)
  BY <1>1, <1>2, <1>4
<1>6. {FunctionOn(to[i]) : i \in FuncsIn(to)} = {FunctionOn(lines[i]) : i \in FuncsIn(lines)}
  BY <1>1, <1>4, <1>5
<1>7. QED
  BY <1>3, <1>6 DEF to

-----------------------------------------------------------------------------
(* The walk over the files *)

\* A walk as it goes over the files.
Walks(f, files) ==
  /\ Walked(files) = f[Len(files)]
  /\ f[0] = << >>
  /\ \A n \in Nat \ {0} : f[n] = IF WalkEnters(files[n]) THEN Append(f[n - 1], files[n]) ELSE f[n - 1]

\* A walk goes over the files one after the other.
LEMMA WalkUnfolds ==
  ASSUME NEW files
  PROVE  \E f : Walks(f, files)
<1> DEFINE found[n \in Nat] == IF n = 0 THEN << >>
                               ELSE IF WalkEnters(files[n]) THEN Append(found[n - 1], files[n])
                               ELSE found[n - 1]
           E == {files[i] : i \in Nat}
           F == [i \in Nat |-> [s \in Seq(E) |-> IF WalkEnters(files[i]) THEN Append(s, files[i])
                                                 ELSE s]]
           A == Seq(E)
           base == << >>
<1>1. Walked(files) = found[Len(files)]
  BY DEF Walked
<1>2. base \in A /\ F \in [Nat -> [A -> A]]
  OBVIOUS
<1>3. \E f \in [Nat -> A] : Recursive(f, base, F)
  <2> HIDE DEF F, A, base
  <2>1. QED
    BY <1>2, RecursionExists
<1>4. \E f : f = [i \in Nat |-> IF i = 0 THEN << >>
                                ELSE IF WalkEnters(files[i]) THEN Append(f[i - 1], files[i])
                                ELSE f[i - 1]]
  <2>1. PICK f \in [Nat -> A] : Recursive(f, base, F)
    BY <1>3
  <2>2. f[0] = base /\ \A i \in Nat \ {0} : i - 1 \in Nat /\ f[i - 1] \in A /\ f[i] = F[i][f[i - 1]]
    <3>1. f[0] = base /\ \A i \in Nat \ {0} : f[i] = F[i][f[i - 1]]
      BY <2>1 DEF Recursive
    <3> HIDE DEF F, A
    <3>2. QED
      BY <2>1, <3>1
  <2>3. ASSUME NEW i \in Nat \ {0}
        PROVE  f[i] = IF WalkEnters(files[i]) THEN Append(f[i - 1], files[i]) ELSE f[i - 1]
    BY <2>2
  <2>4. \A i \in Nat : f[i] = IF i = 0 THEN << >>
                              ELSE IF WalkEnters(files[i]) THEN Append(f[i - 1], files[i])
                              ELSE f[i - 1]
    BY <2>2, <2>3
  <2>5. f = [i \in Nat |-> f[i]]
    BY <2>1
  <2>6. QED
    BY <2>4, <2>5
<1>5. found = [i \in Nat |-> IF i = 0 THEN << >>
                             ELSE IF WalkEnters(files[i]) THEN Append(found[i - 1], files[i])
                             ELSE found[i - 1]]
  BY <1>4
<1> HIDE DEF found
<1>6. Walks(found, files)
  BY <1>1, <1>5 DEF Walks
<1>7. QED
  BY <1>6

FilesOver(N) == [path : Seq(STRING), test : BOOLEAN, package : STRING, lines : Seq(LinesOver(N))]

RenamedFile(f, s, new) == [f EXCEPT !.lines = RenamedLines(@, s, new)]

\* What the walk finds after the renaming is what it found before, renamed.
WalkedAlike(files, s, new) ==
  \A i \in DOMAIN Walked(files) :
    Walked(RenamedFiles(files, s, new))[i] = RenamedFile(Walked(files)[i], s, new)

\* The walk finds the same files, renamed.
LEMMA WalkSame ==
  ASSUME NEW S, NEW files \in Seq(S), \A f \in S : \E N : f \in FilesOver(N), NEW s, NEW new
  PROVE  /\ Walked(files) \in Seq({files[i] : i \in DOMAIN files})
         /\ Len(Walked(RenamedFiles(files, s, new))) = Len(Walked(files))
         /\ DOMAIN Walked(RenamedFiles(files, s, new)) = DOMAIN Walked(files)
         /\ WalkedAlike(files, s, new)
<1> DEFINE last == Len(files)
           G == {files[i] : i \in DOMAIN files}
           H == {RenamedFile(x, s, new) : x \in G}
           to == RenamedFiles(files, s, new)
<1>1. last \in Nat /\ DOMAIN files = 1 .. last /\ \A n \in 1 .. last : files[n] \in S
  OBVIOUS
<1>2. to = [n \in 1 .. last |-> RenamedFile(files[n], s, new)]
  BY <1>1 DEF RenamedFiles, RenamedFile
<1>3. to \in [1 .. last -> H]
  BY <1>1, <1>2
<1>4. to \in Seq(H) /\ Len(to) = last
  <2> HIDE DEF to, H, last
  <2>1. QED
    BY <1>1, <1>3
<1>5. \A n \in 1 .. last : WalkEnters(to[n]) <=> WalkEnters(files[n])
  <2>1. ASSUME NEW n \in 1 .. last
        PROVE  WalkEnters(to[n]) <=> WalkEnters(files[n])
    <3> DEFINE f == files[n]
    <3>1. PICK N : f \in FilesOver(N)
      BY <1>1
    <3>2. to[n] = RenamedFile(f, s, new)
      BY <1>2
    <3> HIDE DEF f, to
    <3>3. to[n].path = f.path
      BY <3>1, <3>2 DEF FilesOver, RenamedFile
    <3>4. QED
      BY <3>3 DEF WalkEnters, f
  <2> HIDE DEF to, last
  <2>2. QED
    BY <2>1
<1>6. PICK g : Walks(g, files)
  BY WalkUnfolds
<1>7. PICK h : Walks(h, to)
  BY WalkUnfolds
<1>8. /\ Walked(files) = g[last] /\ g[0] = << >>
      /\ \A n \in Nat \ {0} :
           g[n] = IF WalkEnters(files[n]) THEN Append(g[n - 1], files[n]) ELSE g[n - 1]
  BY <1>6 DEF Walks
<1>9. /\ Walked(to) = h[last] /\ h[0] = << >>
      /\ \A n \in Nat \ {0} : h[n] = IF WalkEnters(to[n]) THEN Append(h[n - 1], to[n]) ELSE h[n - 1]
  BY <1>4, <1>7 DEF Walks
<1>10. \A n \in 1 .. last : /\ files[n] \in G /\ to[n] \in H
                            /\ to[n] = RenamedFile(files[n], s, new)
  BY <1>1, <1>2
<1> HIDE DEF G, H, to, last
<1> DEFINE U == {n \in Nat : n <= last =>
                   /\ g[n] \in Seq(G) /\ h[n] \in Seq(H) /\ Len(h[n]) = Len(g[n])
                   /\ \A i \in 1 .. Len(g[n]) : h[n][i] = RenamedFile(g[n][i], s, new)}
<1>11. 0 \in U
  <2>1. << >> \in Seq(G) /\ << >> \in Seq(H) /\ Len(<< >>) = 0
    OBVIOUS
  <2>2. g[0] \in Seq(G) /\ h[0] \in Seq(H) /\ Len(g[0]) = 0 /\ Len(h[0]) = 0
    BY <1>8, <1>9, <2>1
  <2>3. \A i \in 1 .. Len(g[0]) : FALSE
    BY <2>2
  <2>4. QED
    BY <2>2, <2>3
<1>12. ASSUME NEW n \in Nat, n \in U PROVE n + 1 \in U
  <2> DEFINE k == n + 1
             a == g[n]
             b == h[n]
             x == files[k]
             y == to[k]
  <2>1. SUFFICES ASSUME k <= last
                 PROVE  /\ g[k] \in Seq(G) /\ h[k] \in Seq(H) /\ Len(h[k]) = Len(g[k])
                        /\ \A i \in 1 .. Len(g[k]) : h[k][i] = RenamedFile(g[k][i], s, new)
    OBVIOUS
  <2>2. /\ a \in Seq(G) /\ b \in Seq(H) /\ Len(b) = Len(a)
        /\ \A i \in 1 .. Len(a) : b[i] = RenamedFile(a[i], s, new)
    BY <1>1, <1>12, <2>1
  <2>3. k \in Nat \ {0} /\ k - 1 = n /\ k \in 1 .. last
    BY <1>1, <2>1
  <2>4. /\ g[k] = IF WalkEnters(x) THEN Append(a, x) ELSE a
        /\ h[k] = IF WalkEnters(y) THEN Append(b, y) ELSE b
    BY <1>8, <1>9, <2>3
  <2>5. /\ WalkEnters(y) <=> WalkEnters(x)
        /\ x \in G /\ y \in H /\ y = RenamedFile(x, s, new)
    BY <1>5, <1>10, <2>3
  <2> HIDE DEF a, b, x, y, k
  <2>6. CASE ~WalkEnters(x)
    BY <2>2, <2>4, <2>5, <2>6
  <2>7. CASE WalkEnters(x)
    <3>1. g[k] = Append(a, x) /\ h[k] = Append(b, y)
      BY <2>4, <2>5, <2>7
    <3>2. /\ Append(a, x) \in Seq(G) /\ Len(Append(a, x)) = Len(a) + 1
          /\ Append(a, x)[Len(a) + 1] = x
          /\ \A i \in 1 .. Len(a) : Append(a, x)[i] = a[i]
      BY <2>2, <2>5
    <3>3. /\ Append(b, y) \in Seq(H) /\ Len(Append(b, y)) = Len(a) + 1
          /\ Append(b, y)[Len(a) + 1] = y
          /\ \A i \in 1 .. Len(a) : Append(b, y)[i] = b[i]
      BY <2>2, <2>5
    <3>4. Len(a) \in Nat /\ \A i \in 1 .. Len(a) + 1 : i \in 1 .. Len(a) \/ i = Len(a) + 1
      BY <2>2
    <3> DEFINE c == Append(a, x)
               e == Append(b, y)
    <3> HIDE DEF c, e
    <3>5. \A i \in 1 .. Len(a) + 1 : e[i] = RenamedFile(c[i], s, new)
      BY <2>2, <2>5, <3>2, <3>3, <3>4 DEF c, e
    <3>6. QED
      BY <3>1, <3>2, <3>3, <3>5 DEF c, e
  <2>8. QED
    BY <2>6, <2>7
<1>13. Nat \subseteq U
  <2> HIDE DEF U
  <2>1. QED
    BY <1>11, <1>12, SetInduction
<1>14. /\ g[last] \in Seq(G) /\ h[last] \in Seq(H) /\ Len(h[last]) = Len(g[last])
       /\ \A i \in 1 .. Len(g[last]) : h[last][i] = RenamedFile(g[last][i], s, new)
  BY <1>1, <1>13
<1>15. DOMAIN g[last] = 1 .. Len(g[last]) /\ DOMAIN h[last] = 1 .. Len(g[last])
  BY <1>14
<1>16. WalkedAlike(files, s, new)
  BY <1>8, <1>9, <1>14, <1>15 DEF to, WalkedAlike
<1>17. QED
  BY <1>8, <1>9, <1>14, <1>15, <1>16 DEF to, G

-----------------------------------------------------------------------------
(* What a snapshot keeps of a package that does not name the symbol *)

\* A file as the index holds it.
ParsedFile(f) ==
  [path |-> f.path, test |-> f.test, package |-> f.package,
   imports   |-> ImportsOf(f.lines),   types     |-> ToSet(TypesOf(f.lines)),
   functions |-> FunctionsOf(f.lines), constants |-> ConstantsOf(f.lines),
   variables |-> VariablesOf(f.lines), lines     |-> Len(f.lines)]

\* Two files of an index a snapshot does not tell apart.
AlikeFiles(f, g) ==
  /\ g.functions = f.functions
  /\ \A t \in f.types : \E u \in g.types : Alike(t, u)
  /\ \A u \in g.types : \E t \in f.types : Alike(t, u)

CleanFile(f, s) ==
  /\ \A t \in f.types : CleanType(t, s)
  /\ \A g \in f.functions : CleanFunction(g, s)

\* A file that does not name the symbol is the same to a snapshot.
LEMMA FileAlike ==
  ASSUME NEW N, NEW f \in FilesOver(N), Followed(f.lines), NEW s, s # None, NEW new,
         CleanFile(ParsedFile(f), s)
  PROVE  AlikeFiles(ParsedFile(f), ParsedFile(RenamedFile(f, s, new)))
<1> DEFINE lines == f.lines
           to == RenamedLines(lines, s, new)
           a == TypesOf(lines)
           b == TypesOf(to)
           g == RenamedFile(f, s, new)
<1>1. lines \in Seq(LinesOver(N)) /\ Followed(lines)
  BY DEF FilesOver
<1>2. g.lines = to
  BY DEF FilesOver, RenamedFile
<1> HIDE DEF g
<1>3. /\ ParsedFile(f).types = ToSet(a) /\ ParsedFile(f).functions = FunctionsOf(lines)
      /\ ParsedFile(g).types = ToSet(b) /\ ParsedFile(g).functions = FunctionsOf(to)
  BY <1>2 DEF ParsedFile
<1> HIDE DEF lines
<1>4. FunctionsOf(to) = FunctionsOf(lines)
  BY <1>1, <1>3, FunctionsKept DEF CleanFile
<1>5. AllClean(a, s)
  <2>1. \A t \in ToSet(a) : CleanType(t, s)
    BY <1>3 DEF CleanFile
  <2>2. a \in Seq(TypesOver(N))
    <3> DEFINE p == TypesParsed(lines)
               last == Len(lines)
    <3>1. \A n \in 0 .. last : p[n] \in ParserOver(N)
      BY <1>1, ParserRuns
    <3>2. last \in 0 .. last
      BY <1>1
    <3> HIDE DEF p, last
    <3>3. p[last] \in ParserOver(N)
      BY <3>1, <3>2
    <3>4. QED
      BY <3>3 DEF ParserOver, TypesOf, p, last
  <2> HIDE DEF a
  <2>3. \A i \in 1 .. Len(a) : a[i] \in ToSet(a)
    BY <2>2 DEF ToSet
  <2>4. QED
    BY <2>1, <2>3 DEF AllClean
<1>6. /\ a \in Seq(TypesOver(N)) /\ b \in Seq(TypesOver(N \cup {new})) /\ Len(b) = Len(a)
      /\ \A i \in 1 .. Len(a) : Alike(a[i], b[i])
  <2>1. a \in Seq(TypesOver(N))
    BY <1>1, <1>5, TypesAlike
  <2>2. b \in Seq(TypesOver(N \cup {new}))
    BY <1>1, <1>5, TypesAlike
  <2>3. Len(b) = Len(a)
    BY <1>1, <1>5, TypesAlike
  <2>4. \A i \in 1 .. Len(a) : Alike(a[i], b[i])
    BY <1>1, <1>5, TypesAlike
  <2>5. QED
    BY <2>1, <2>2, <2>3, <2>4
<1> HIDE DEF a, b
<1>7. /\ ToSet(a) = {a[i] : i \in 1 .. Len(a)}
      /\ ToSet(b) = {b[i] : i \in 1 .. Len(a)}
  BY <1>6 DEF ToSet
<1>8. AlikeFiles(ParsedFile(f), ParsedFile(g))
  BY <1>3, <1>4, <1>6, <1>7 DEF AlikeFiles
<1>9. QED
  BY <1>8 DEF g

\* Two indexes of the same files, those of one package alike.
SamePackage(index, renamed, q) ==
  /\ DOMAIN renamed = DOMAIN index
  /\ \A i \in DOMAIN index : /\ renamed[i].package = index[i].package
                             /\ renamed[i].test = index[i].test
                             /\ index[i].package = q => AlikeFiles(index[i], renamed[i])

TypeEntry(i, q, t) ==
  [at |-> i, key |-> <<q, t.name>>,
   data |-> [kind |-> t.kind, exported |-> t.exported,
             fields |-> IF t.kind = "struct" THEN {<<m.name, m.words>> : m \in t.members} ELSE {}]]

InterfaceEntry(i, q, t) ==
  [at |-> i, key |-> <<q, t.name>>,
   data |-> [methods |-> MethodsAmong(t.members), embeds |-> EmbedsAmong(t.members)]]

FunctionEntry(i, q, f) ==
  [at |-> i, key |-> <<q, f.receiver, f.name>>, data |-> <<f.params, f.returns>>]

EntriesOf(entries, q) == {e \in entries : e.key[1] = q}

\* Types not told apart have the same entries.
LEMMA EntriesAlike ==
  ASSUME NEW t, NEW u, Alike(t, u), NEW i, NEW q
  PROVE  /\ TypeEntry(i, q, u) = TypeEntry(i, q, t)
         /\ t.kind = "interface" => u.kind = "interface" /\ InterfaceEntry(i, q, u) = InterfaceEntry(i, q, t)
BY DEF Alike, TypeEntry, InterfaceEntry

\* The entries of one package are those of its files: of its types,
LEMMA TypeEntriesOf ==
  ASSUME NEW index, NEW q
  PROVE  EntriesOf(TypeEntries(index), q) =
           UNION {{TypeEntry(i, q, t) : t \in index[i].types} :
                    i \in {i \in Code(index) : index[i].package = q}}
<1>1. TypeEntries(index) =
        UNION {{TypeEntry(i, index[i].package, t) : t \in index[i].types} : i \in Code(index)}
  BY DEF TypeEntries, TypeEntry
<1>2. \A i, p, t : TypeEntry(i, p, t).key[1] = p
  BY DEF TypeEntry
<1>3. QED
  BY <1>1, <1>2 DEF EntriesOf

\* of its interfaces,
LEMMA InterfaceEntriesOf ==
  ASSUME NEW index, NEW q
  PROVE  EntriesOf(InterfaceEntries(index), q) =
           UNION {{InterfaceEntry(i, q, t) : t \in {t \in index[i].types : t.kind = "interface"}} :
                    i \in {i \in Code(index) : index[i].package = q}}
<1>1. InterfaceEntries(index) =
        UNION {{InterfaceEntry(i, index[i].package, t) :
                  t \in {t \in index[i].types : t.kind = "interface"}} : i \in Code(index)}
  BY DEF InterfaceEntries, InterfaceEntry, MethodsAmong, EmbedsAmong
<1>2. \A i, p, t : InterfaceEntry(i, p, t).key[1] = p
  BY DEF InterfaceEntry
<1>3. QED
  BY <1>1, <1>2 DEF EntriesOf

\* and of its functions.
LEMMA FunctionEntriesOf ==
  ASSUME NEW index, NEW q
  PROVE  EntriesOf(FunctionEntries(index), q) =
           UNION {{FunctionEntry(i, q, f) : f \in {f \in index[i].functions : f.exported}} :
                    i \in {i \in Code(index) : index[i].package = q}}
<1>1. FunctionEntries(index) =
        UNION {{FunctionEntry(i, index[i].package, f) :
                  f \in {f \in index[i].functions : f.exported}} : i \in Code(index)}
  BY DEF FunctionEntries, FunctionEntry
<1>2. \A i, p, t : FunctionEntry(i, p, t).key[1] = p
  BY DEF FunctionEntry
<1>3. QED
  BY <1>1, <1>2 DEF EntriesOf

\* The entries of a package alike in both indexes are the same.
LEMMA EntriesKept ==
  ASSUME NEW index, NEW renamed, NEW q, SamePackage(index, renamed, q)
  PROVE  /\ EntriesOf(TypeEntries(renamed), q) = EntriesOf(TypeEntries(index), q)
         /\ EntriesOf(InterfaceEntries(renamed), q) = EntriesOf(InterfaceEntries(index), q)
         /\ EntriesOf(FunctionEntries(renamed), q) = EntriesOf(FunctionEntries(index), q)
<1> DEFINE I == {i \in Code(index) : index[i].package = q}
<1>1. {i \in Code(renamed) : renamed[i].package = q} = I
  BY DEF SamePackage, Code
<1>2. \A i \in I : AlikeFiles(index[i], renamed[i])
  BY DEF SamePackage, Code
<1> HIDE DEF I
<1>3. ASSUME NEW i \in I
      PROVE  {TypeEntry(i, q, t) : t \in renamed[i].types} = {TypeEntry(i, q, t) : t \in index[i].types}
  BY <1>2, EntriesAlike DEF AlikeFiles
<1>4. ASSUME NEW i \in I
      PROVE  {InterfaceEntry(i, q, t) : t \in {t \in renamed[i].types : t.kind = "interface"}}
               = {InterfaceEntry(i, q, t) : t \in {t \in index[i].types : t.kind = "interface"}}
  <2>1. \A t, u : Alike(t, u) => u.kind = t.kind
    BY DEF Alike
  <2>2. QED
    BY <1>2, <2>1, EntriesAlike DEF AlikeFiles
<1>5. ASSUME NEW i \in I
      PROVE  {FunctionEntry(i, q, f) : f \in {f \in renamed[i].functions : f.exported}}
               = {FunctionEntry(i, q, f) : f \in {f \in index[i].functions : f.exported}}
  BY <1>2 DEF AlikeFiles
<1>6. EntriesOf(TypeEntries(renamed), q) = EntriesOf(TypeEntries(index), q)
  <2>1. EntriesOf(TypeEntries(index), q) = UNION {{TypeEntry(i, q, t) : t \in index[i].types} : i \in I}
    BY TypeEntriesOf DEF I
  <2>2. EntriesOf(TypeEntries(renamed), q) = UNION {{TypeEntry(i, q, t) : t \in renamed[i].types} : i \in I}
    BY <1>1, TypeEntriesOf
  <2>3. {{TypeEntry(i, q, t) : t \in renamed[i].types} : i \in I}
          = {{TypeEntry(i, q, t) : t \in index[i].types} : i \in I}
    BY <1>3
  <2>4. QED
    BY <2>1, <2>2, <2>3
<1>7. EntriesOf(InterfaceEntries(renamed), q) = EntriesOf(InterfaceEntries(index), q)
  <2>1. EntriesOf(InterfaceEntries(index), q) =
          UNION {{InterfaceEntry(i, q, t) : t \in {t \in index[i].types : t.kind = "interface"}} : i \in I}
    BY InterfaceEntriesOf DEF I
  <2>2. EntriesOf(InterfaceEntries(renamed), q) =
          UNION {{InterfaceEntry(i, q, t) : t \in {t \in renamed[i].types : t.kind = "interface"}} : i \in I}
    BY <1>1, InterfaceEntriesOf
  <2>3. QED
    BY <1>4, <2>1, <2>2
<1>8. EntriesOf(FunctionEntries(renamed), q) = EntriesOf(FunctionEntries(index), q)
  <2>1. EntriesOf(FunctionEntries(index), q) =
          UNION {{FunctionEntry(i, q, f) : f \in {f \in index[i].functions : f.exported}} : i \in I}
    BY FunctionEntriesOf DEF I
  <2>2. EntriesOf(FunctionEntries(renamed), q) =
          UNION {{FunctionEntry(i, q, f) : f \in {f \in renamed[i].functions : f.exported}} : i \in I}
    BY <1>1, FunctionEntriesOf
  <2>3. QED
    BY <1>5, <2>1, <2>2
<1>9. QED
  BY <1>6, <1>7, <1>8

\* A section loses and changes nothing of a package whose entries are the same.
LEMMA SectionKept ==
  ASSUME NEW before, NEW after, NEW q, EntriesOf(after, q) = EntriesOf(before, q),
         NEW k \in DiffSection(before, after).removed \cup DiffSection(before, after).modified
  PROVE  k[1] # q
<1> SUFFICES ASSUME k[1] = q PROVE FALSE
  OBVIOUS
<1> DEFINE Newest(es) == {e \in es : e.key = k /\ \A o \in es : o.key = k => o.at <= e.at}
           b == MapOf(before)
           a == MapOf(after)
<1>1. \A e : e.key = k => (e \in before <=> e \in after)
  <2>1. \A e : e.key = k => /\ e \in before <=> e \in EntriesOf(before, q)
                            /\ e \in after <=> e \in EntriesOf(after, q)
    BY DEF EntriesOf
  <2>2. QED
    BY <2>1
<1>2. Newest(after) = Newest(before)
  BY <1>1
<1>3. k \in DOMAIN a <=> k \in DOMAIN b
  BY <1>1 DEF MapOf
<1>4. k \in DOMAIN b => b[k] = (CHOOSE e \in Newest(before) : TRUE).data
  BY DEF MapOf
<1>5. k \in DOMAIN a => a[k] = (CHOOSE e \in Newest(after) : TRUE).data
  BY DEF MapOf
<1>6. k \in DOMAIN b => a[k] = b[k]
  <2> HIDE DEF a, b, Newest
  <2>1. QED
    BY <1>2, <1>3, <1>4, <1>5
<1> HIDE DEF a, b
<1>7. /\ DiffSection(before, after).removed = DOMAIN b \ DOMAIN a
      /\ DiffSection(before, after).modified = {x \in DOMAIN a \cap DOMAIN b : a[x] # b[x]}
  BY DEF DiffSection, a, b
<1>8. QED
  BY <1>3, <1>6, <1>7

-----------------------------------------------------------------------------
(* What rename-safety reports *)

\* A report names the packages of the definitions and the references.
LEMMA PackagesReported ==
  ASSUME NEW index, NEW s, NEW new
  PROVE  /\ CheckRename(index, s, new).packages =
              {x.package : x \in Definitions(index, s)} \cup {x.package : x \in References(index, s)}
         /\ CheckRename(index, s, new).references = References(index, s)
BY DEF CheckRename, RenameDefinitions, RenameReferences

\* A package of which a file declares the symbol is reported.
LEMMA DefinitionReported ==
  ASSUME NEW index, NEW f \in ToSet(index), NEW s, NEW new, NEW d \in DeclaredIn(f, s)
  PROVE  f.package \in CheckRename(index, s, new).packages
<1> DEFINE x == [kind |-> d.kind, line |-> d.line, exported |-> d.exported,
                 package |-> f.package, path |-> f.path]
<1>1. x \in Definitions(index, s)
  BY DEF Definitions
<1>2. x.package = f.package
  OBVIOUS
<1> HIDE DEF x
<1>3. QED
  BY <1>1, <1>2, PackagesReported

\* The references a file holds.
ReferencesIn(f, s) ==
  (UNION {TypeReferences(t, s) : t \in f.types})
     \cup (UNION {FunctionReferences(g, s) : g \in f.functions}) \cup ValueReferences(f, s)

\* A package of which a file refers to the symbol is reported.
LEMMA ReferenceReported ==
  ASSUME NEW index, NEW f \in ToSet(index), NEW s, NEW new,
         NEW r \in ReferencesIn(f, s), r.within # s
  PROVE  f.package \in CheckRename(index, s, new).packages
<1> DEFINE x == [kind |-> r.kind, nth |-> r.nth, within |-> r.within, line |-> r.line,
                 package |-> f.package, path |-> f.path]
<1>1. x \in References(index, s)
  BY DEF References, ReferencesIn
<1>2. x.package = f.package
  OBVIOUS
<1> HIDE DEF x
<1>3. QED
  BY <1>1, <1>2, PackagesReported

\* A file of a package that is not reported neither declares nor names the symbol.
LEMMA QuietFile ==
  ASSUME NEW index, NEW f \in ToSet(index), NEW s, s # None, NEW new,
         f.package \notin CheckRename(index, s, new).packages
  PROVE  CleanFile(f, s)
<1>1. \A d \in DeclaredIn(f, s) : FALSE
  BY DefinitionReported
<1>2. \A r \in ReferencesIn(f, s) : r.within = s
  BY ReferenceReported
<1>3. ASSUME NEW t \in f.types PROVE t.name # s
  <2>1. SUFFICES ASSUME t.name = s PROVE FALSE
    OBVIOUS
  <2>2. [kind |-> t.kind, line |-> <<None, s>>, exported |-> t.exported] \in DeclaredIn(f, s)
    BY <2>1 DEF DeclaredIn
  <2>3. QED
    BY <1>1, <2>2
<1>4. ASSUME NEW g \in f.functions PROVE g.name # s
  <2>1. SUFFICES ASSUME g.name = s PROVE FALSE
    OBVIOUS
  <2>2. [kind |-> IF g.receiver = None THEN "func" ELSE "method",
         line |-> <<OwnerOf(g), s>>, exported |-> g.exported] \in DeclaredIn(f, s)
    BY <2>1 DEF DeclaredIn
  <2>3. QED
    BY <1>1, <2>2
<1>5. ASSUME NEW t \in f.types, t.kind = "struct", NEW m \in t.members PROVE s \notin m.words
  <2>1. SUFFICES ASSUME s \in m.words PROVE FALSE
    OBVIOUS
  <2> DEFINE r == IF m.embedded /\ m.words = {s} THEN Ref("embedded", t.name, <<t.name, m.name>>)
                  ELSE Ref("field", None, <<t.name, m.name>>)
  <2>2. r \in TypeReferences(t, s)
    BY <1>5, <2>1 DEF TypeReferences
  <2>3. r.within = t.name \/ r.within = None
    BY DEF Ref
  <2> HIDE DEF r
  <2>4. QED
    BY <1>2, <1>3, <2>2, <2>3 DEF ReferencesIn
<1>6. ASSUME NEW t \in f.types, t.kind = "interface", NEW m \in t.members, m.embedded
      PROVE  m.name # s
  <2>1. SUFFICES ASSUME m.name = s PROVE FALSE
    OBVIOUS
  <2> DEFINE r == Ref("embed", t.name, <<t.name, m.name>>)
  <2>2. r \in TypeReferences(t, s)
    BY <1>6, <2>1 DEF TypeReferences
  <2>3. r.within = t.name
    BY DEF Ref
  <2> HIDE DEF r
  <2>4. QED
    BY <1>2, <1>3, <2>2, <2>3 DEF ReferencesIn
<1>7. ASSUME NEW g \in f.functions, NEW x \in
               ({"receiver"} \X {i \in {0} : OwnerOf(g) = s})
               \cup ({"param"} \X {i \in DOMAIN g.params : s \in g.params[i]})
               \cup ({"return"} \X {i \in DOMAIN g.returns : s \in g.returns[i]})
      PROVE  FALSE
  <2> DEFINE r == [Ref(x[1], g.name, <<OwnerOf(g), g.name>>) EXCEPT !.nth = x[2]]
  <2>1. r \in FunctionReferences(g, s)
    BY DEF FunctionReferences
  <2>2. r.within = g.name
    BY DEF Ref
  <2> HIDE DEF r
  <2>3. QED
    BY <1>2, <1>4, <2>1, <2>2 DEF ReferencesIn
<1>8. ASSUME NEW g \in f.functions PROVE CleanFunction(g, s)
  <2>1. OwnerOf(g) # s
    <3>1. SUFFICES ASSUME OwnerOf(g) = s PROVE FALSE
      OBVIOUS
    <3>2. <<"receiver", 0>> \in {"receiver"} \X {i \in {0} : OwnerOf(g) = s}
      BY <3>1
    <3>3. QED
      BY <1>7, <3>2
  <2>2. ASSUME NEW i \in DOMAIN g.params PROVE s \notin g.params[i]
    <3>1. SUFFICES ASSUME s \in g.params[i] PROVE FALSE
      OBVIOUS
    <3>2. <<"param", i>> \in {"param"} \X {j \in DOMAIN g.params : s \in g.params[j]}
      BY <3>1
    <3>3. QED
      BY <1>7, <3>2
  <2>3. ASSUME NEW i \in DOMAIN g.returns PROVE s \notin g.returns[i]
    <3>1. SUFFICES ASSUME s \in g.returns[i] PROVE FALSE
      OBVIOUS
    <3>2. <<"return", i>> \in {"return"} \X {j \in DOMAIN g.returns : s \in g.returns[j]}
      BY <3>1
    <3>3. QED
      BY <1>7, <3>2
  <2>4. QED
    BY <1>4, <2>1, <2>2, <2>3 DEF CleanFunction
<1>9. QED
  BY <1>3, <1>5, <1>6, <1>8 DEF CleanFile, CleanType

-----------------------------------------------------------------------------
(* The drift of a renamed project *)

\* A drift compares the sections of two snapshots one by one.
LEMMA SectionsCompared ==
  ASSUME NEW index, NEW renamed
  PROVE  LET d == DiffSnapshots(Snapshot(index, 1), Snapshot(renamed, 1)) IN
         /\ d.types = DiffSection(TypeEntries(index), TypeEntries(renamed))
         /\ d.interfaces = DiffSection(InterfaceEntries(index), InterfaceEntries(renamed))
         /\ d.functions = DiffSection(FunctionEntries(index), FunctionEntries(renamed))
BY DEF DiffSnapshots, Snapshot

\* A type, an interface or a function found changed was taken out of its
\* section or modified there.
LEMMA ChangedAbout ==
  ASSUME NEW before, NEW after, NEW x \in BaselineDrift(before, after).findings,
         x.class \in {"type-breaking", "interface-breaking", "api-signature"}
  PROVE  LET d == DiffSnapshots(before, after) IN
         \/ x.about \in d.types.removed \cup d.types.modified
         \/ x.about \in d.interfaces.removed \cup d.interfaces.modified
         \/ x.about \in d.functions.removed \cup d.functions.modified
<1> DEFINE d == DiffSnapshots(before, after)
           layers == MapOf(after.sections.layers)
<1>1. x \in DriftFindings(before, after)
  BY DEF BaselineDrift
<1>2. \/ x \in InterfaceDrift(d.interfaces)
      \/ x \in TypeDrift(d.types)
      \/ x \in SignatureDrift(d.functions)
      \/ x \in ContractDrift(d.contracts) \/ x \in LayerDrift(d.layers)
      \/ x \in CouplingIncrease(d.imports, layers)
      \/ x \in IsolationLoss(d.imports, layers)
      \/ x \in Proliferation(d.contracts, MapOf(after.sections.functions))
      \/ x \in ScaleShift(before, after)
  BY <1>1 DEF DriftFindings
<1> HIDE DEF d, layers
<1>3. x \notin ContractDrift(d.contracts)
  BY DEF ContractDrift, Finding
<1>4. x \notin LayerDrift(d.layers)
  BY DEF LayerDrift, Finding
<1>5. x \notin CouplingIncrease(d.imports, layers)
  <2> DEFINE I == d.imports
             gained == NewImports(I, layers)
             Internal(m) == {k \in DOMAIN m : m[k].kind = "internal"}
             A == {n \in gained : n.from # None /\ n.to # None /\ n.from # n.to}
             B == {n \in gained : Cardinality(Internal(I.after)) > Cardinality(Internal(I.before)) + 5}
  <2>1. CouplingIncrease(I, layers) = {Finding("coupling-increase", "warning", None) : n \in A}
                                      \cup {Finding("coupling-increase", "info", None) : n \in B}
    BY DEF CouplingIncrease
  <2> HIDE DEF A, B
  <2>2. QED
    BY <2>1 DEF Finding
<1>6. x \notin IsolationLoss(d.imports, layers)
  BY DEF IsolationLoss, Finding
<1>7. x \notin Proliferation(d.contracts, MapOf(after.sections.functions))
  BY DEF Proliferation, Finding
<1>8. x \notin ScaleShift(before, after)
  BY DEF ScaleShift, Finding
<1>9. x \in TypeDrift(d.types) => x.about \in d.types.removed \cup d.types.modified
  BY DEF TypeDrift, Finding
<1>10. x \in InterfaceDrift(d.interfaces)
         => x.about \in d.interfaces.removed \cup d.interfaces.modified
  BY DEF InterfaceDrift, Finding
<1>11. x \in SignatureDrift(d.functions)
         => x.about \in d.functions.removed \cup d.functions.modified
  BY DEF SignatureDrift, Finding
<1>12. QED
  BY <1>2, <1>3, <1>4, <1>5, <1>6, <1>7, <1>8, <1>9, <1>10, <1>11 DEF d

\* Files whose lines are of some names, without declarations among the members
\* of their types.
SourceFiles(files, N) == /\ files \in Seq(FilesOver(N))
                     /\ \A i \in DOMAIN files : Followed(files[i].lines)

\* An index holds the files of the walk, parsed.
LEMMA IndexOf ==
  ASSUME NEW files
  PROVE  /\ DOMAIN IndexFiles(files) = DOMAIN Walked(files)
         /\ \A i \in DOMAIN Walked(files) : IndexFiles(files)[i] = ParsedFile(Walked(files)[i])
BY DEF IndexFiles, ParsedFile

\* A package that is not reported is the same to a snapshot after the renaming.
LEMMA PackageSame ==
  ASSUME NEW N, NEW files, SourceFiles(files, N), NEW s, s # None, NEW new, NEW q,
         q \notin CheckRename(IndexFiles(files), s, new).packages
  PROVE  SamePackage(IndexFiles(files), IndexFiles(RenamedFiles(files, s, new)), q)
<1> DEFINE index == IndexFiles(files)
           to == RenamedFiles(files, s, new)
           renamed == IndexFiles(to)
           v == Walked(files)
           w == Walked(to)
           G == {files[i] : i \in DOMAIN files}
<1>1. files \in Seq(FilesOver(N)) /\ \A f \in FilesOver(N) : \E M : f \in FilesOver(M)
  BY DEF SourceFiles
<1>2. v \in Seq(G)
  BY <1>1, WalkSame
<1>3. DOMAIN w = DOMAIN v
  BY <1>1, WalkSame
<1>4. \A i \in DOMAIN v : w[i] = RenamedFile(v[i], s, new)
  <2>1. WalkedAlike(files, s, new)
    BY <1>1, WalkSame
  <2>2. QED
    BY <2>1 DEF WalkedAlike
<1>5. \A f \in G : f \in FilesOver(N) /\ Followed(f.lines)
  BY <1>1 DEF SourceFiles
<1> HIDE DEF v, w, G
<1>6. \A i \in DOMAIN v : v[i] \in FilesOver(N) /\ Followed(v[i].lines)
  <2>1. \A i \in DOMAIN v : v[i] \in G
    BY <1>2
  <2>2. QED
    BY <1>5, <2>1
<1>7. /\ DOMAIN index = DOMAIN v /\ \A i \in DOMAIN v : index[i] = ParsedFile(v[i])
      /\ DOMAIN renamed = DOMAIN v /\ \A i \in DOMAIN v : renamed[i] = ParsedFile(w[i])
  BY <1>3, IndexOf DEF v, w
<1> HIDE DEF index, renamed, to
<1>8. ASSUME NEW i \in DOMAIN index
      PROVE  /\ renamed[i].package = index[i].package
             /\ renamed[i].test = index[i].test
             /\ index[i].package = q => AlikeFiles(index[i], renamed[i])
  <2> DEFINE f == v[i]
  <2>1. /\ f \in FilesOver(N) /\ Followed(f.lines)
        /\ index[i] = ParsedFile(f) /\ renamed[i] = ParsedFile(RenamedFile(f, s, new))
    BY <1>4, <1>6, <1>7
  <2> HIDE DEF f
  <2>2. /\ ParsedFile(RenamedFile(f, s, new)).package = ParsedFile(f).package
        /\ ParsedFile(RenamedFile(f, s, new)).test = ParsedFile(f).test
    BY <2>1 DEF FilesOver, RenamedFile, ParsedFile
  <2>3. ASSUME index[i].package = q PROVE AlikeFiles(index[i], renamed[i])
    <3>1. index[i] \in ToSet(index)
      BY DEF ToSet
    <3>2. index[i].package \notin CheckRename(index, s, new).packages
      BY <2>3 DEF index
    <3> DEFINE x == index[i]
    <3> HIDE DEF x
    <3>3. CleanFile(x, s)
      BY <3>1, <3>2, QuietFile DEF x
    <3>4. CleanFile(ParsedFile(f), s)
      BY <2>1, <3>3 DEF x
    <3>5. AlikeFiles(ParsedFile(f), ParsedFile(RenamedFile(f, s, new)))
      BY <2>1, <3>4, FileAlike
    <3>6. QED
      BY <2>1, <3>5
  <2>4. QED
    BY <2>1, <2>2, <2>3
<1>9. SamePackage(index, renamed, q)
  BY <1>7, <1>8 DEF SamePackage
<1>10. QED
  BY <1>9 DEF index, renamed, to

\* What baseline-drift finds changed by a renaming is in a package rename-safety
\* said it affects.
LEMMA DriftIsAnnounced ==
  ASSUME NEW N, NEW files, SourceFiles(files, N), NEW s, s # None, NEW new,
         NEW x \in BaselineDrift(Snapshot(IndexFiles(files), 1),
                                 Snapshot(IndexFiles(RenamedFiles(files, s, new)), 1)).findings,
         x.class \in {"type-breaking", "interface-breaking", "api-signature"}
  PROVE  x.about[1] \in CheckRename(IndexFiles(files), s, new).packages
<1> DEFINE index   == IndexFiles(files)
           renamed == IndexFiles(RenamedFiles(files, s, new))
           k       == x.about
           q       == k[1]
           T == DiffSection(TypeEntries(index), TypeEntries(renamed))
           I == DiffSection(InterfaceEntries(index), InterfaceEntries(renamed))
           F == DiffSection(FunctionEntries(index), FunctionEntries(renamed))
<1>1. SUFFICES ASSUME q \notin CheckRename(index, s, new).packages PROVE FALSE
  OBVIOUS
<1>2. SamePackage(index, renamed, q)
  BY <1>1, PackageSame
<1>3. \/ k \in T.removed \cup T.modified
      \/ k \in I.removed \cup I.modified
      \/ k \in F.removed \cup F.modified
  <2> DEFINE b == Snapshot(index, 1)
             a == Snapshot(renamed, 1)
             d == DiffSnapshots(b, a)
  <2>1. x \in BaselineDrift(b, a).findings
    OBVIOUS
  <2> HIDE DEF b, a
  <2>2. \/ k \in d.types.removed \cup d.types.modified
        \/ k \in d.interfaces.removed \cup d.interfaces.modified
        \/ k \in d.functions.removed \cup d.functions.modified
    BY <2>1, ChangedAbout
  <2> HIDE DEF d, index, renamed
  <2>3. d.types = T /\ d.interfaces = I /\ d.functions = F
    BY SectionsCompared DEF d, b, a
  <2> HIDE DEF T, I, F
  <2>4. QED
    BY <2>2, <2>3
<1> HIDE DEF index, renamed, q
<1>4. /\ EntriesOf(TypeEntries(renamed), q) = EntriesOf(TypeEntries(index), q)
      /\ EntriesOf(InterfaceEntries(renamed), q) = EntriesOf(InterfaceEntries(index), q)
      /\ EntriesOf(FunctionEntries(renamed), q) = EntriesOf(FunctionEntries(index), q)
  BY <1>2, EntriesKept
<1> HIDE DEF k
<1>5. k \in T.removed \cup T.modified => k[1] # q
  BY <1>4, SectionKept
<1>6. k \in I.removed \cup I.modified => k[1] # q
  BY <1>4, SectionKept
<1>7. k \in F.removed \cup F.modified => k[1] # q
  BY <1>4, SectionKept
<1>8. QED
  BY <1>3, <1>5, <1>6, <1>7 DEF q

-----------------------------------------------------------------------------
(* What the usage map takes for an orphan *)

\* A name is within itself.
LEMMA WithinItself ==
  ASSUME NEW s \in Seq(STRING)
  PROVE  Within(s, s)
<1>1. SubSeq(s, 1, Len(s)) = s
  OBVIOUS
<1>2. Len(s) \in Nat /\ 0 \in 0 .. Len(s) /\ Len(s) \in 0 .. Len(s) /\ 0 + 1 = 1
  OBVIOUS
<1>3. SubSeq(s, 0 + 1, Len(s)) \in SubSeqs(s)
  BY <1>2 DEF SubSeqs
<1>4. QED
  BY <1>1, <1>2, <1>3 DEF Within

\* An orphan is a contract without a site.
LEMMA OrphanUnused ==
  ASSUME NEW index, NEW s \in UsageMap(index).areas.orphans
  PROVE  \E c \in Discovered(index) : c.name = s /\ UsageSites(index, c) = {}
<1> DEFINE Entry(c) == [name |-> c.name, family |-> c.family, path |-> c.path,
                        package |-> c.package, sites |-> UsageSites(index, c),
                        breadth |-> Breadth(c, UsageSites(index, c))]
           entries == {Entry(c) : c \in Discovered(index)}
<1>1. UsageMap(index).areas = UsageAreas(entries)
  BY DEF UsageMap
<1>2. \A es : UsageAreas(es).orphans = {e.name : e \in {e \in es : e.breadth = "orphan"}}
  BY DEF UsageAreas
<1> HIDE DEF entries
<1>3. PICK e \in entries : e.breadth = "orphan" /\ e.name = s
  BY <1>1, <1>2
<1>4. PICK c \in Discovered(index) : e = Entry(c)
  BY DEF entries
<1>5. c.name = s /\ Breadth(c, UsageSites(index, c)) = "orphan"
  BY <1>3, <1>4
<1>6. UsageSites(index, c) = {}
  BY <1>5 DEF Breadth
<1>7. QED
  BY <1>5, <1>6

\* A file without sites of a contract names it at most in aliases, variables,
\* receivers and types of its own name.
LEMMA OrphanReferences ==
  ASSUME NEW f, NEW c, NEW s \in Seq(STRING), c.name = s,
         FunctionSites(f, s) = {}, TypeSites(f, c) = {}, ConstantSites(f, s) = {},
         \A t \in f.types : t.kind \in {"struct", "interface", "alias"},
         NEW r \in ReferencesIn(f, s)
  PROVE  r.kind \in {"alias", "var", "receiver"} \/ r.line[1] = s
<1>1. \A expr : s \in expr => ExprContains(expr, s)
  BY WithinItself DEF ExprContains, NameContains
<1>2. ASSUME NEW g \in f.functions,
             \/ \E i \in DOMAIN g.params : s \in g.params[i]
             \/ \E i \in DOMAIN g.returns : s \in g.returns[i]
      PROVE  FALSE
  <2> DEFINE role == FunctionRole(g, s)
  <2>1. \/ \E i \in DOMAIN g.params : ExprContains(g.params[i], s)
        \/ \E i \in DOMAIN g.returns : ExprContains(g.returns[i], s)
    BY <1>1, <1>2
  <2>2. role \in {"construction", "propagation", "consumption"}
    BY <2>1 DEF FunctionRole
  <2> HIDE DEF role
  <2>3. role # None
    BY <2>2, NoneIsNoRole
  <2>4. [role |-> FunctionRole(g, s), line |-> <<OwnerOf(g), g.name>>] \in FunctionSites(f, s)
    BY <2>3 DEF FunctionSites, role
  <2>5. QED
    BY <2>4
<1>3. ASSUME NEW t \in f.types, t.name # s, t.kind # "alias", NEW m \in t.members,
             IF t.kind = "interface" /\ m.embedded THEN m.name = s ELSE s \in m.words
      PROVE  FALSE
  <2> DEFINE FieldRole == IF DirOf(f.path) = DirOf(c.path) THEN "propagation" ELSE "consumption"
             Using == {k \in t.members : IF t.kind = "interface" /\ k.embedded THEN k.name = s
                                         ELSE ExprContains(k.words, s)}
             site == [role |-> IF t.kind = "struct" THEN FieldRole ELSE "propagation",
                      line |-> <<t.name, m.name>>]
  <2>1. m \in Using
    BY <1>1, <1>3
  <2> DEFINE Sites(u) ==
               {[role |-> IF u.kind = "struct" THEN FieldRole ELSE "propagation",
                 line |-> <<u.name, k.name>>] :
                  k \in {k \in u.members : IF u.kind = "interface" /\ k.embedded THEN k.name = s
                                            ELSE ExprContains(k.words, s)}}
  <2>2. TypeSites(f, c) = UNION {Sites(u) : u \in {u \in f.types : u.name # s /\ u.kind # "alias"}}
    BY DEF TypeSites
  <2>3. site \in Sites(t)
    BY <2>1
  <2> HIDE DEF Sites, site
  <2>4. site \in TypeSites(f, c)
    BY <1>3, <2>2, <2>3
  <2>5. QED
    BY <2>4
<1>4. ASSUME NEW t \in f.types, NEW x \in TypeReferences(t, s)
      PROVE  x.kind = "alias" \/ x.line[1] = s
  <2>1. CASE t.kind = "struct"
    <3>1. PICK m \in t.members :
            /\ s \in m.words
            /\ x = IF m.embedded /\ m.words = {s} THEN Ref("embedded", t.name, <<t.name, m.name>>)
                   ELSE Ref("field", None, <<t.name, m.name>>)
      BY <1>4, <2>1 DEF TypeReferences
    <3>2. t.name = s
      BY <1>3, <2>1, <3>1
    <3>3. x.line = <<t.name, m.name>>
      BY <3>1 DEF Ref
    <3>4. QED
      BY <3>2, <3>3
  <2>2. CASE t.kind = "interface"
    <3>1. PICK m \in t.members : /\ m.embedded /\ m.name = s
                                 /\ x = Ref("embed", t.name, <<t.name, m.name>>)
      BY <1>4, <2>2 DEF TypeReferences
    <3>2. t.name = s
      BY <1>3, <2>2, <3>1
    <3>3. x.line = <<t.name, m.name>>
      BY <3>1 DEF Ref
    <3>4. QED
      BY <3>2, <3>3
  <2>3. CASE t.kind = "alias"
    <3>1. x = Ref("alias", t.name, <<None, t.name>>)
      BY <1>4, <2>3 DEF TypeReferences
    <3>2. QED
      BY <3>1 DEF Ref
  <2>4. QED
    BY <2>1, <2>2, <2>3
<1>5. ASSUME NEW g \in f.functions, NEW x \in FunctionReferences(g, s)
      PROVE  x.kind = "receiver"
  <2>1. PICK y \in ({"receiver"} \X {i \in {0} : OwnerOf(g) = s})
               \cup ({"param"} \X {i \in DOMAIN g.params : s \in g.params[i]})
               \cup ({"return"} \X {i \in DOMAIN g.returns : s \in g.returns[i]}) :
          x = [Ref(y[1], g.name, <<OwnerOf(g), g.name>>) EXCEPT !.nth = y[2]]
    BY <1>5 DEF FunctionReferences
  <2>2. x.kind = y[1]
    BY <2>1 DEF Ref
  <2>3. /\ {i \in DOMAIN g.params : s \in g.params[i]} = {}
        /\ {i \in DOMAIN g.returns : s \in g.returns[i]} = {}
    BY <1>2
  <2>4. y[1] = "receiver"
    BY <2>1, <2>3
  <2>5. QED
    BY <2>2, <2>4
<1>6. ASSUME NEW x \in ValueReferences(f, s)
      PROVE  x.kind = "var"
  <2>1. ASSUME NEW k \in f.constants, k.type = {s} PROVE FALSE
    <3>1. [role |-> "propagation", line |-> <<None, k.name>>] \in ConstantSites(f, s)
      BY <2>1 DEF ConstantSites
    <3>2. QED
      BY <3>1
  <2>2. PICK v \in f.variables : x = Ref("var", v.name, <<None, v.name>>)
    BY <1>6, <2>1 DEF ValueReferences
  <2>3. QED
    BY <2>2 DEF Ref
<1>7. QED
  BY <1>4, <1>5, <1>6 DEF ReferencesIn

\* What rename-safety finds of an orphan is in tests, aliases, variables,
\* receivers and types of its name.
LEMMA OrphansAreNamed ==
  ASSUME NEW index, NEW s \in Seq(STRING), s \in UsageMap(index).areas.orphans,
         \A f \in ToSet(index) : \A t \in f.types : t.kind \in {"struct", "interface", "alias"},
         NEW r \in References(index, s)
  PROVE  \/ r.path \in {f.path : f \in {f \in ToSet(index) : f.test}}
         \/ r.kind \in {"alias", "var", "receiver"}
         \/ r.line[1] = s
<1>1. PICK c \in Discovered(index) : c.name = s /\ UsageSites(index, c) = {}
  BY OrphanUnused
<1>2. PICK f \in ToSet(index) :
        \E x \in ReferencesIn(f, s) : r.kind = x.kind /\ r.line = x.line /\ r.path = f.path
  BY DEF References, ReferencesIn
<1>3. PICK x \in ReferencesIn(f, s) : r.kind = x.kind /\ r.line = x.line /\ r.path = f.path
  BY <1>2
<1>4. CASE f.test
  BY <1>3, <1>4
<1>5. CASE ~f.test
  <2>1. \A y \in FunctionSites(f, s) \cup TypeSites(f, c) \cup ConstantSites(f, s) : FALSE
    <3>1. TAKE y \in FunctionSites(f, s) \cup TypeSites(f, c) \cup ConstantSites(f, s)
    <3>2. [role |-> y.role, line |-> y.line, path |-> f.path, package |-> f.package]
            \in UsageSites(index, c)
      BY <1>1, <1>5 DEF UsageSites
    <3>3. QED
      BY <1>1, <3>2
  <2>2. FunctionSites(f, s) = {} /\ TypeSites(f, c) = {} /\ ConstantSites(f, s) = {}
    BY <2>1
  <2>3. \A t \in f.types : t.kind \in {"struct", "interface", "alias"}
    OBVIOUS
  <2>4. x.kind \in {"alias", "var", "receiver"} \/ x.line[1] = s
    BY <1>1, <2>2, <2>3, OrphanReferences
  <2>5. QED
    BY <1>3, <2>4
<1>6. QED
  BY <1>4, <1>5

\* The types of an index are structs, interfaces and aliases.
LEMMA IndexedKinds ==
  ASSUME NEW N, NEW files, SourceFiles(files, N)
  PROVE  \A f \in ToSet(IndexFiles(files)) :
           \A t \in f.types : t.kind \in {"struct", "interface", "alias"}
<1> DEFINE v == Walked(files)
           G == {files[i] : i \in DOMAIN files}
           index == IndexFiles(files)
<1>1. files \in Seq(FilesOver(N)) /\ \A f \in FilesOver(N) : \E M : f \in FilesOver(M)
  BY DEF SourceFiles
<1>2. v \in Seq(G)
  BY <1>1, WalkSame
<1>3. \A f \in G : f \in FilesOver(N)
  BY <1>1
<1>4. DOMAIN index = DOMAIN v /\ \A i \in DOMAIN v : index[i] = ParsedFile(v[i])
  BY IndexOf
<1> HIDE DEF v, G, index
<1>5. ASSUME NEW f \in FilesOver(N), NEW t \in ParsedFile(f).types
      PROVE  t.kind \in {"struct", "interface", "alias"}
  <2> DEFINE lines == f.lines
             last == Len(lines)
             p == TypesParsed(lines)
  <2>1. lines \in Seq(LinesOver(N)) /\ last \in 0 .. last
    BY DEF FilesOver
  <2> HIDE DEF lines
  <2>2. \A n \in 0 .. last : p[n] \in ParserOver(N)
    BY <2>1, ParserRuns
  <2>3. p[last] \in ParserOver(N)
    BY <2>1, <2>2
  <2>4. TypesOf(lines) \in Seq(TypesOver(N))
    BY <2>3 DEF ParserOver, TypesOf
  <2>5. t \in ToSet(TypesOf(lines))
    BY <1>5 DEF ParsedFile, lines
  <2>6. t \in TypesOver(N)
    BY <2>4, <2>5 DEF ToSet
  <2>7. QED
    BY <2>6 DEF TypesOver
<1>6. \A i \in DOMAIN v : v[i] \in FilesOver(N)
  BY <1>2, <1>3
<1>7. \A f \in ToSet(index) : \E g \in FilesOver(N) : f = ParsedFile(g)
  BY <1>4, <1>6 DEF ToSet
<1>8. QED
  BY <1>5, <1>7 DEF index

\* The Go files of a command line are sources.
LEMMA ProjectsAreSources ==
  ASSUME NEW l \in CommandLines
  PROVE  SourceFiles(l.project.gofiles, Seq(STRING))
<1> DEFINE files == l.project.gofiles
<1>1. GoLines = LinesOver(Seq(STRING))
  BY DEF GoLines, LinesOver
<1>2. files \in Seq([path : Seq(STRING), test : BOOLEAN, package : STRING, lines : Seq(GoLines)])
  BY SourcesAreGo
<1>3. \A i \in DOMAIN files : \A n \in DOMAIN files[i].lines :
        TypesParsed(files[i].lines)[n - 1].body /\ files[i].lines[n].name # None
          => files[i].lines[n].at \in {"", "}"}
  BY SourcesAreGo
<1> HIDE DEF files
<1>4. files \in Seq(FilesOver(Seq(STRING)))
  BY <1>1, <1>2 DEF FilesOver
<1>5. \A i \in DOMAIN files : Followed(files[i].lines)
  BY <1>3 DEF Followed, Follows
<1>6. QED
  BY <1>4, <1>5 DEF SourceFiles, files

\* Both hold of every command line.
LEMMA NavigationHolds ==
  ASSUME line \in CommandLines
  PROVE  NavigationAgrees
<1> DEFINE files   == line.project.gofiles
           s       == line.symbol
           new     == line.newName
           index   == IndexFiles(files)
           report  == CheckRename(index, s, new)
           renamed == IndexFiles(RenamedFiles(files, s, new))
           drift   == BaselineDrift(Snapshot(index, 1), Snapshot(renamed, 1))
           tests   == {f.path : f \in {f \in ToSet(index) : f.test}}
<1>1. SUFFICES ASSUME Runs({"rename-safety"})
               PROVE  /\ \A d \in drift.findings :
                           d.class \in {"type-breaking", "interface-breaking", "api-signature"}
                             => d.about[1] \in report.packages
                      /\ s \in UsageMap(index).areas.orphans =>
                           \A r \in report.references :
                              \/ r.path \in tests
                              \/ r.kind \in {"alias", "var", "receiver"}
                              \/ r.line[1] = s
  BY DEF NavigationAgrees
<1>2. s \in Seq(STRING) /\ s # None
  BY <1>1, CommandLinesAssumption DEF Runs
<1> DEFINE N == Seq(STRING)
<1> HIDE DEF N
<1>3. SourceFiles(files, N)
  BY ProjectsAreSources DEF N
<1> HIDE DEF files, s, new
<1>4. \A d \in drift.findings :
        d.class \in {"type-breaking", "interface-breaking", "api-signature"}
          => d.about[1] \in report.packages
  BY <1>2, <1>3, DriftIsAnnounced
<1>5. \A f \in ToSet(index) : \A t \in f.types : t.kind \in {"struct", "interface", "alias"}
  BY <1>3, IndexedKinds
<1>6. report.references = References(index, s)
  BY PackagesReported
<1> HIDE DEF index
<1>7. ASSUME s \in UsageMap(index).areas.orphans, NEW r \in References(index, s)
      PROVE  \/ r.path \in tests
             \/ r.kind \in {"alias", "var", "receiver"}
             \/ r.line[1] = s
  BY <1>2, <1>5, <1>7, OrphansAreNamed
<1>8. QED
  BY <1>4, <1>6, <1>7

\* Whatever a symbol is renamed to, what baseline-drift finds changed by it is
\* in a package that rename-safety said the renaming affects; and what the usage
\* map calls an orphan is found by rename-safety in tests, aliases, variables, its
\* own methods and types of its own name at most.
THEOREM RenamesAreAnnounced == RaccoonSpec => []NavigationAgrees
<1>1. line \in CommandLines => NavigationAgrees
  BY NavigationHolds
<1>2. QED
  BY <1>1, CommandLineKept, PTL

=============================================================================
