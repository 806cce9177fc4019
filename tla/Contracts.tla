----------------------------- MODULE Contracts -----------------------------
(***************************************************************************)
(* contract-audit (analyzers/contracts): what the registries, the envelope *)
(* and its codec, the domain events and the dataplane message declare in   *)
(* the Go source, and the thirteen checks of it.                           *)
(*                                                                         *)
(* The literals of a registry are records of a project's field registry;   *)
(* a field that is not written out is None, a subject or a type is the     *)
(* sequence of its tokens, the empty string the empty sequence.            *)
(***************************************************************************)
EXTENDS Naturals, Sequences, FiniteSets, Report, SequencesExt

-----------------------------------------------------------------------------
(* Scanning the registries *)

\* extract_control_specs: a literal without one of these fields is no contract.
ControlsOf(r) ==
    {c \in r.controls : None \notin {c.subject, c.request, c.reply}}

\* extract_event_specs, and the event of the dataplane route.
EventsOf(r) ==
    {e \in r.events : None \notin {e.subject, e.type}} \cup
    (IF r.route # None /\ r.route.prefix # None /\ r.route.type # None
     THEN {[name |-> "DataPlaneIngested", subject |-> Append(r.route.prefix, ">"),
            type |-> r.route.type]}
     ELSE {})

\* extract_stream_specs: the first literal of a name, and the route's stream
\* unless a registry declares one of that name.
StreamsIn(r) ==
    LET first == {i \in DOMAIN r.streams : \A j \in 1..(i - 1) :
                                              r.streams[j].name # r.streams[i].name}
        named == {r.streams[i] : i \in first}
    IN  named \cup
        (IF /\ r.route # None /\ r.route.prefix # None
            /\ r.route.stream \notin {s.name : s \in named}
         THEN {[name |-> r.route.stream, subjects |-> {Append(r.route.prefix, ">")}]}
         ELSE {})

\* extract_consumer_specs: the stream is found only when it is written out in
\* the literal, the filters fall back on the subject of the literal's event.
ConsumersIn(r) ==
    {[durable |-> c.durable, stream |-> c.stream,
      filters |-> IF c.filters # {} THEN c.filters
                  ELSE IF c.subject # None THEN {c.subject} ELSE {}] :
        c \in {c \in r.consumers : c.durable # None}}

\* subject_matches_pattern of contracts.rs, token by token.
Matches(subject, pattern) ==
    LET Agree(n) == \A i \in 1..n : pattern[i] \in {"*", subject[i]}
        both == IF Len(subject) < Len(pattern) THEN Len(subject) ELSE Len(pattern)
    IN  \/ subject = pattern
        \/ \E i \in 1..both : pattern[i] = ">" /\ Agree(i - 1)
        \/ Len(subject) = Len(pattern) /\ Agree(both)

-----------------------------------------------------------------------------
(* The checks *)

\* A token strictly inside a subject, replaced (".control." by ".command.").
Swapped(s, from, to) ==
    [i \in DOMAIN s |-> IF s[i] = from /\ i # 1 /\ i # Len(s) THEN to ELSE s[i]]

Inserted(s, token) ==
    SubSeq(s, 1, Len(s) - 1) \o <<token, s[Len(s)]>>

\* The convention: x.control.y has x.command.y or x.query.y and x.reply.y; any
\* other x.y.z of at least two tokens has x.y.command.z, and so on.
Derived(subject, token) ==
    IF \E i \in 2..(Len(subject) - 1) : subject[i] = "control"
    THEN Swapped(subject, "control", token) ELSE Inserted(subject, token)

Conventional(subject) ==
    \/ \E i \in 2..(Len(subject) - 1) : subject[i] = "control"
    \/ Len(subject) >= 2

EndsInWildcard(s) == Len(s) >= 2 /\ s[Len(s)] \in {">", "*"}

FinalToken(s) == IF s = << >> THEN None ELSE s[Len(s)]
FirstToken(s) == IF s = << >> THEN None ELSE s[1]

CheckControls(r) ==
    LET controls == ControlsOf(r) IN
    IF controls = {} THEN FromFindings("registry-control-completeness", 1, 0)
    ELSE FindsAll("registry-control-completeness",
            UNION {{<<c.name, f>> : f \in {f \in {"subject", "request", "reply"} : c[f] = << >>}} :
                      c \in controls},
            {c \in controls : c.queue \in {None, << >>}})

CheckEvents(r) ==
    LET events == EventsOf(r) IN
    IF events = {} THEN FromFindings("registry-event-completeness", 1, 0)
    ELSE FindsAll("registry-event-completeness",
            UNION {{<<e.name, f>> : f \in {f \in {"subject", "type"} : e[f] = << >>}} : e \in events},
            {})

CheckConvention(r) ==
    LET controls == {c \in ControlsOf(r) : Conventional(c.subject)} IN
    FindsAll("subject-type-convention",
        {<<c.name, "request">> : c \in {c \in controls :
            c.request \notin {Derived(c.subject, "command"), Derived(c.subject, "query")}}} \cup
        {<<c.name, "reply">> : c \in {c \in controls : c.reply # Derived(c.subject, "reply")}} \cup
        {<<e.name, "type">> : e \in {e \in EventsOf(r) :
            ~EndsInWildcard(e.subject) /\ e.type # Swapped(e.subject, "events", "event")}},
        {})

CheckSymmetry(r) ==
    FindsAll("reply-type-symmetry", {},
        {c \in ControlsOf(r) : FinalToken(c.request) # FinalToken(c.reply)})

CheckQueueGroups(r) ==
    LET grouped == {c \in ControlsOf(r) : c.queue \notin {None, << >>}} IN
    FindsAll("queue-group-convention", {},
        {<<c.name, "shape">> : c \in {c \in grouped : Len(c.queue) < 2}} \cup
        {<<c.name, "domain">> : c \in {c \in grouped :
                                          FirstToken(c.subject) # c.queue[1]}})

CheckStreamCoverage(r) ==
    IF StreamsIn(r) = {} THEN SkipCheck("event-stream-coverage")
    ELSE FindsAll("event-stream-coverage",
            {e \in EventsOf(r) : \A s \in StreamsIn(r) : \A pattern \in s.subjects :
                                    ~Matches(e.subject, pattern)}, {})

CheckFilters(r) ==
    LET streams == StreamsIn(r)
        Known(c) == \E s \in streams : s.name = c.stream
        Of(c)    == CHOOSE s \in streams : s.name = c.stream
    IN  FindsAll("consumer-filter-validity",
            UNION {IF Known(c)
                   THEN {<<c.durable, f>> : f \in {f \in c.filters :
                            \A pattern \in Of(c).subjects : ~Matches(f, pattern)}}
                   ELSE IF c.stream # None THEN {<<c.durable, << >> >>} ELSE {} :
                     c \in ConsumersIn(r)}, {})

\* check_envelope_required_fields.
CheckEnvelope(envelope) ==
    IF envelope = None THEN SkipCheck("envelope-required-fields")
    ELSE FindsAll("envelope-required-fields",
            ({"id", "kind", "type", "timestamp", "content_type"} \ envelope.required) \cup
            ({"command", "event", "request", "reply"} \ envelope.kinds),
            IF envelope.contentType # "application/json" THEN {"content-type"} ELSE {})

\* The kind each function of the codec should use.
CodecFunctions ==
    [encodeControlRequest |-> "command", encodeControlReply |-> "reply",
     encodeEvent |-> "event", decodeControlRequest |-> "command",
     decodeControlReply |-> "reply", decodeEvent |-> "event"]

\* extract_kind_checks: a function whose name occurs in the file is taken to
\* use the kind it should, whatever it does.
KindsRead(codec) == [f \in codec.functions |-> CodecFunctions[f]]

\* check_codec_consistency.
CheckCodec(codec) ==
    IF codec = None THEN SkipCheck("codec-consistency")
    ELSE LET kinds == KindsRead(codec) IN
         FindsAll("codec-consistency",
            {f \in DOMAIN kinds : kinds[f] # CodecFunctions[f]} \cup
            (IF codec.format # "cbor" THEN {"format"} ELSE {}),
            DOMAIN CodecFunctions \ DOMAIN kinds)

MessageFields == {"binding", "origin", "payload", "metadata"}
ValidatedPaths ==
    {"binding.name", "binding.topic", "binding.scope.kind", "binding.scope.key",
     "origin.source", "origin.topic", "metadata.message_id", "metadata.ingested_at",
     "metadata.content_type", "payload"}

\* check_dataplane_field_completeness and check_dataplane_content_type_default.
CheckMessage(m) ==
    IF m = None THEN SkipCheck("dataplane-field-completeness")
    ELSE FindsAll("dataplane-field-completeness",
            (MessageFields \ m.fields) \cup (ValidatedPaths \ m.validated),
            IF m.idFormat THEN {} ELSE {"id"})

CheckDefaults(m) ==
    IF m = None THEN SkipCheck("dataplane-content-type")
    ELSE FindsAll("dataplane-content-type", {},
            (IF m.contentType # "application/json" THEN {"content-type"} ELSE {}) \cup
            (IF m.source # "kafka" THEN {"source"} ELSE {}))

\* check_event_metadata_presence.
CheckMetadata(events) ==
    IF events = {} THEN SkipCheck("event-metadata-presence")
    ELSE FindsAll("event-metadata-presence", {e \in events : ~e.metadata}, {})

\* check_event_registry_alignment: from the third token on, a subject names the
\* domain event; a domain event is the end of some subject.
CheckAlignment(r, events) ==
    LET specs == EventsOf(r)
        HasSuffix(s, t) == Len(t) <= Len(s) /\ SubSeq(s, Len(s) - Len(t) + 1, Len(s)) = t
        Concrete(s) == \A i \in DOMAIN s : s[i] \notin {">", "*"}
    IN  IF events = {} \/ specs = {} THEN SkipCheck("event-registry-alignment")
        ELSE FindsAll("event-registry-alignment", {},
            {<<"registry", e.name>> : e \in {e \in specs :
                /\ \A i \in 1..(Len(e.subject) - 1) : e.subject[i] # "dataplane"
                /\ Len(e.subject) >= 4
                /\ SubSeq(e.subject, 3, Len(e.subject)) \notin {d.name : d \in events}
                /\ Concrete(e.subject)}} \cup
            {<<"domain", d.name>> : d \in {d \in events :
                \A e \in specs : ~HasSuffix(e.subject, d.name)}})

\* analyze.
ContractReport(p) ==
    IF "internal" \notin p.entries THEN ReportOf(<<FromFindings("internal-dir", 1, 0)>>)
    ELSE ReportOf(<<
        CheckControls(p.registry), CheckEvents(p.registry), CheckConvention(p.registry),
        CheckSymmetry(p.registry), CheckQueueGroups(p.registry),
        CheckStreamCoverage(p.registry), CheckFilters(p.registry),
        CheckEnvelope(p.envelope), CheckCodec(p.codec),
        CheckMessage(p.message), CheckDefaults(p.message),
        CheckMetadata(p.events), CheckAlignment(p.registry, p.events)>>)

=============================================================================
