------------------------------- MODULE Gopls -------------------------------
(***************************************************************************)
(* The bridge of raccoon-cli to gopls (src/tools/raccoon-cli/src/lsp): a   *)
(* child process asked over two pipes, one request at a time, and the      *)
(* facts about a symbol merged from its answers with those of the index.   *)
(*                                                                         *)
(* gopls writes messages; a message is two fragments, and a read of the    *)
(* pipe returns any prefix of the fragments in it, because read_message    *)
(* buffers.  send_request makes a new buffer for every request and drops   *)
(* it with whatever was read ahead.                                        *)
(***************************************************************************)
EXTENDS Naturals, Sequences, SequencesExt

CONSTANTS MaxNotes,     \* bound on the notifications gopls sends
          MayHang       \* whether gopls may stop answering while it lives

ASSUME GoplsAssumption == MaxNotes \in Nat /\ MayHang \in BOOLEAN

VARIABLES bridge,       \* GoplsBridge and the GoplsClient it owns
          gopls         \* the child process

goplsVars == <<bridge, gopls>>

Queries == <<"definition", "references", "hover">>
QueryNames == {Queries[i] : i \in DOMAIN Queries}

\* What an answered query returned: some fact, none, or a JSON-RPC error.
QueryAnswers == {"found", "nothing", "refused"}

\* method: the request in hand; "drop" is the shutdown of Drop.
IdleBridge ==
    [running |-> FALSE, explicit |-> FALSE, anchor |-> FALSE, at |-> "idle",
     method |-> "initialize", id |-> 1, buffer |-> << >>, skipped |-> FALSE,
     client |-> FALSE, found |-> {}, mixed |-> FALSE, status |-> "none"]

NoProcess == [alive |-> FALSE, hung |-> FALSE, owes |-> {}, pipe |-> << >>,
              notes |-> 0, exiting |-> FALSE]

GoplsInit == bridge = IdleBridge /\ gopls = NoProcess

-----------------------------------------------------------------------------
(* The child *)

\* A message on the wire: the id it answers, 0 for a notification.
Message(id, method) == <<[id |-> id, method |-> method, part |-> "head"],
                         [id |-> id, method |-> method, part |-> "tail"]>>

Talks == gopls.alive /\ ~gopls.hung

GoplsAnswers ==
    /\ Talks
    /\ \E owed \in gopls.owes :
         gopls' = [gopls EXCEPT !.owes = @ \ {owed},
                                !.pipe = @ \o Message(owed.id, owed.method)]
    /\ UNCHANGED bridge

GoplsNotifies ==
    /\ Talks /\ gopls.notes < MaxNotes
    /\ gopls' = [gopls EXCEPT !.pipe = @ \o Message(0, "none"), !.notes = @ + 1]
    /\ UNCHANGED bridge

\* It exits when it was told to, and may die at any time.
GoplsExits ==
    /\ Talks /\ gopls.exiting
    /\ gopls' = [gopls EXCEPT !.alive = FALSE]
    /\ UNCHANGED bridge

GoplsDies ==
    /\ gopls.alive /\ ~gopls.exiting
    /\ gopls' = [gopls EXCEPT !.alive = FALSE]
    /\ UNCHANGED bridge

GoplsHangs ==
    /\ MayHang /\ Talks
    /\ gopls' = [gopls EXCEPT !.hung = TRUE]
    /\ UNCHANGED bridge

-----------------------------------------------------------------------------
(* The bridge *)

\* LspStatus of enrich_symbol_with_index.
StatusOf(client, found) ==
    IF ~client THEN "unavailable"
    ELSE IF found # {} THEN "enriched" ELSE "no results"

\* Enter the next request with a new buffer, or another state of the bridge.
Enter(at, method, found) ==
    [bridge EXCEPT !.at = at, !.method = method, !.found = found,
                   !.buffer = << >>, !.skipped = FALSE]

\* Without an anchor no query is sent at all (enrich_symbol_with_index).
AfterInitialize ==
    IF bridge.anchor THEN Enter("send", "definition", {})
    ELSE [Enter("drop", "shutdown", {}) EXCEPT !.status = StatusOf(TRUE, {})]

\* The query after a query; after the last one the symbol's status is set.
AfterQuery(found) ==
    CASE bridge.method = "definition" -> Enter("send", "references", found)
      [] bridge.method = "references" -> Enter("send", "hover", found)
      [] bridge.method = "hover"      ->
            [Enter("drop", "shutdown", found) EXCEPT !.status = StatusOf(TRUE, found)]

\* A request that failed.  A failed handshake makes the bridge unavailable and
\* drops the client, a failed query is logged, a failed shutdown ignored.
AfterError ==
    CASE bridge.method = "initialize" ->
            [Enter("send", "drop", {}) EXCEPT !.client = FALSE,
                                              !.status = StatusOf(FALSE, {})]
      [] bridge.method \in QueryNames  -> AfterQuery(bridge.found)
      [] bridge.method = "shutdown"    -> Enter("send", "drop", bridge.found)
      [] bridge.method = "drop"        -> Enter("kill", "drop", bridge.found)

\* start_with_timeout: an invalid workspace, no gopls on the PATH, a failed
\* spawn, or a child to shake hands with.
StartBridge(explicit) ==
    /\ ~bridge.running
    /\ \E anchor \in BOOLEAN :
         LET started == [IdleBridge EXCEPT !.running = TRUE, !.explicit = explicit,
                                           !.anchor = anchor]
         IN  \/ /\ bridge' = [started EXCEPT !.at = "done",
                                             !.status = StatusOf(FALSE, {})]
                /\ UNCHANGED gopls
             \/ /\ bridge' = [started EXCEPT !.at = "send", !.client = TRUE]
                /\ gopls' = [NoProcess EXCEPT !.alive = TRUE]

\* Mutant: the id is not advanced when the request before it failed.
SendStaleId ==
    /\ bridge.running /\ bridge.at = "send"
    /\ \/ /\ ~gopls.alive
          /\ bridge' = AfterError
          /\ UNCHANGED gopls
       \/ /\ gopls.alive
          /\ bridge' = [bridge EXCEPT !.at = "read"]
          /\ gopls' = [gopls EXCEPT !.owes = @ \cup
               {[id |-> bridge.id, method |-> bridge.method]}]

\* send_request: write to a child that reads, or fail on a broken pipe.
Send ==
    /\ bridge.running /\ bridge.at = "send"
    /\ \/ /\ ~gopls.alive
          /\ bridge' = [AfterError EXCEPT !.id = @ + 1]
          /\ UNCHANGED gopls
       \/ /\ gopls.alive
          /\ bridge' = [bridge EXCEPT !.at = "read", !.id = @ + 1]
          /\ gopls' = [gopls EXCEPT !.owes = @ \cup
               {[id |-> bridge.id + 1, method |-> bridge.method]}]

Reads == bridge.running /\ bridge.at = "read"

Fragment(part) == bridge.buffer # << >> /\ Head(bridge.buffer).part = part
Whole == Fragment("head") /\ Len(bridge.buffer) > 1
Incoming == Head(bridge.buffer)
Ours == Incoming.id = bridge.id

\* The buffer is filled when no message in it is complete.
Refill ==
    /\ Reads /\ ~Whole /\ gopls.pipe # << >>
    /\ \E n \in 1..Len(gopls.pipe) :
         /\ bridge' = [bridge EXCEPT !.buffer = @ \o SubSeq(gopls.pipe, 1, n)]
         /\ gopls' = [gopls EXCEPT !.pipe = SubSeq(@, n + 1, Len(@))]

\* A notification, or the late answer to another request.
SkipMessage ==
    /\ Reads /\ Whole /\ ~Ours
    /\ bridge' = [bridge EXCEPT !.buffer = SubSeq(@, 3, Len(@)), !.skipped = TRUE]
    /\ UNCHANGED gopls

\* The deadline is looked at between two messages only.
TimesOut ==
    /\ Reads /\ bridge.skipped
    /\ bridge' = AfterError
    /\ UNCHANGED gopls

\* The pipe is read from the middle of a message (what the last buffer had read
\* of it is lost): no header names the length of what comes next.
Desynchronised ==
    /\ Reads /\ Fragment("tail") /\ Len(bridge.buffer) > 1
    /\ bridge' = AfterError
    /\ UNCHANGED gopls

\* Mutant: nothing read is taken for nothing there yet.
ReadsAgain ==
    /\ Reads /\ ~Whole /\ ~gopls.alive /\ gopls.pipe = << >>
    /\ UNCHANGED goplsVars

\* The child is gone and so is its end of the pipe.
EndOfFile ==
    /\ Reads /\ ~Whole /\ ~gopls.alive /\ gopls.pipe = << >>
    /\ bridge' = AfterError
    /\ UNCHANGED gopls

\* The answer: a handshake may be refused, a query may return nothing.
Accept ==
    /\ Reads /\ Whole /\ Ours
    /\ \E answer \in QueryAnswers :
         LET next ==
               CASE bridge.method = "initialize" ->
                      IF answer = "refused" THEN AfterError ELSE AfterInitialize
                 [] bridge.method \in QueryNames ->
                      AfterQuery(IF answer = "found" THEN bridge.found \cup {bridge.method}
                                                     ELSE bridge.found)
                 [] OTHER -> IF answer = "refused" THEN AfterError
                             ELSE Enter("exit", bridge.method, bridge.found)
         IN  bridge' = [next EXCEPT !.mixed = @ \/ Incoming.method # bridge.method]
    /\ UNCHANGED gopls

\* The end of a command: shutdown is asked explicitly by the commands that
\* take --lsp, while lsp-enrich leaves it to Drop.
EndBridge ==
    /\ bridge.running /\ bridge.at = "drop"
    /\ bridge' = Enter("send", IF bridge.explicit THEN "shutdown" ELSE "drop",
                       bridge.found)
    /\ UNCHANGED gopls

\* shutdown_inner: the exit notification ...
SendExit ==
    /\ bridge.running /\ bridge.at = "exit"
    /\ IF gopls.alive
       THEN /\ gopls' = [gopls EXCEPT !.exiting = TRUE]
            /\ bridge' = [bridge EXCEPT !.at = "wait"]
       ELSE /\ bridge' = AfterError
            /\ UNCHANGED gopls

\* ... and the wait for the child, which has no deadline.
WaitChild ==
    /\ bridge.running /\ bridge.at = "wait" /\ ~gopls.alive
    /\ bridge' = IF bridge.method = "drop" THEN Enter("kill", "drop", bridge.found)
                 ELSE Enter("send", "drop", bridge.found)
    /\ UNCHANGED gopls

\* Mutant: Drop trusts the shutdown and kills nothing.
LeaveChild ==
    /\ bridge.running /\ bridge.at = "kill"
    /\ bridge' = [bridge EXCEPT !.at = "done"]
    /\ UNCHANGED gopls

\* Drop: kill what is left.
KillChild ==
    /\ bridge.running /\ bridge.at = "kill"
    /\ bridge' = [bridge EXCEPT !.at = "done"]
    /\ gopls' = [gopls EXCEPT !.alive = FALSE]

BridgeSteps == \/ Send \/ Refill \/ SkipMessage \/ TimesOut \/ Desynchronised
               \/ EndOfFile \/ Accept \/ EndBridge \/ SendExit \/ WaitChild
               \/ KillChild

GoplsSteps == GoplsAnswers \/ GoplsNotifies \/ GoplsExits \/ GoplsDies \/ GoplsHangs

BridgeDone == bridge.running /\ bridge.at = "done"

-----------------------------------------------------------------------------
(* Properties *)

\* Whatever was dropped, late or lost on the pipe, a fact is never taken from
\* the answer to another request (client.rs send_request).
NoAnswerMixup == ~bridge.mixed

\* A command that used the bridge leaves no gopls behind, whichever of the
\* handshake, the queries and the two shutdowns failed (client.rs Drop).
NoOrphanGopls == BridgeDone => ~gopls.alive

\* Callers always get an answer, and the command ends (lsp/mod.rs).
BridgeAnswers == bridge.running ~> BridgeDone

=============================================================================
