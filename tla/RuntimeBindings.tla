--------------------------- MODULE RuntimeBindings ---------------------------
(***************************************************************************)
(* runtime-bindings (analyzers/runtime_bindings): the bindings found in    *)
(* the HTTP fixtures under tests/http, resolved against the subjects and   *)
(* streams of the Go source, and the checks around them.                   *)
(***************************************************************************)
EXTENDS GoSource, SequencesExt

-----------------------------------------------------------------------------
(* Scanning *)

\* The lines of all the files in the order they are read, comments left out.
CodeLines(files) ==
    SelectSeq(FlattenSeq(files), LAMBDA line : ~line.comment)

\* extract_subject_prefix: the last ingestion subject without a wildcard on a
\* line that mentions the prefix.
SubjectPrefix(files) ==
    LET lines == CodeLines(files)
        Named(line) == {s \in Words(line, "subject") :
                           s[1] = "dataplane" /\ (\E i \in DOMAIN s : s[i] = "ingestion")
                           /\ s[Len(s)] # ">"}
        having == {i \in DOMAIN lines : "Prefix" \in lines[i].keys /\ Named(lines[i]) # {}}
        latest == CHOOSE i \in having : \A j \in having : j <= i
    IN  IF having = {} THEN None
        ELSE CHOOSE s \in Named(lines[latest]) : TRUE

\* extract_lifecycle_events.
LifecycleEvents(files) ==
    LET lines == CodeLines(files)
        named == {i \in DOMAIN lines : "EventName" \in lines[i].keys}
    IN  {s \in UNION {Words(lines[i], "subject") : i \in named} : s[1] = "config"}

\* scan_runtime_bindings: the ingestion stream also gets the wildcard of the
\* prefix, whatever it declares.
ScanBindings(p) ==
    LET prefix   == SubjectPrefix(p.source)
        declared == StreamsOf(p.source, FALSE)
        Also(n)  == IF n = "DATA_PLANE_INGESTION" /\ prefix # None
                    THEN {Append(prefix, ">")} ELSE {}
    IN  [prefix   |-> prefix,
         streams  |-> [n \in DOMAIN declared |-> declared[n] \cup Also(n)],
         durables |-> DurablesOf(p.source),
         events   |-> LifecycleEvents(p.source),
         scopes   |-> {p.configs[s].scope : s \in {s \in DOMAIN p.configs :
                          ~p.configs[s].broken /\ p.configs[s].scope # None}}]

\* scan_http_fixtures: the bindings of every body that parses, named or not,
\* always of the default scope; a binding seen before is not merged again.
Fixtures(p) ==
    {b \in UNION {p.http[i].bindings : i \in {i \in DOMAIN p.http : ~p.http[i].broken}} :
        b.name # "" \/ b.topic # ""}

DefaultScope == <<"global", "default">>

-----------------------------------------------------------------------------
(* Resolving *)

\* subject_matches_pattern of runtime_bindings.rs: a wildcard at the end is a
\* prefix, any other pattern the subject itself.
MatchesBinding(subject, pattern) ==
    IF Len(pattern) >= 2 /\ pattern[Len(pattern)] = ">"
    THEN StartsWith(subject, SubSeq(pattern, 1, Len(pattern) - 1))
    ELSE subject = pattern

\* derive_jetstream_subject.
SubjectOf(prefix, binding) ==
    prefix \o DefaultScope \o <<binding.name>>

\* resolve_bindings: the bindings whose subject no stream takes, or that have none.
Unresolved(src, bindings) ==
    {b \in bindings :
        \/ src.prefix = None
        \/ \A n \in DOMAIN src.streams : \A pattern \in src.streams[n] :
              ~MatchesBinding(SubjectOf(src.prefix, b), pattern)}

-----------------------------------------------------------------------------
(* The checks *)

CheckSubjectPattern(src) ==
    FindsAll("subject-pattern", {x \in {"prefix"} : src.prefix = None},
             {x \in {"pattern"} : src.prefix = None})

CheckRouting(src) ==
    FindsAll("routing-constants",
        ({"DATA_PLANE_INGESTION"} \ DOMAIN src.streams) \cup
        ({"validator-dataplane-v1", "consumer-runtime-refresh-v1",
          "emulator-runtime-refresh-v1"} \ DOMAIN src.durables),
        {"validator-runtime-cache-v1"} \ DOMAIN src.durables)

CheckLifecycle(src) ==
    FindsAll("lifecycle-events", {},
        {<<"config", "activated">>, <<"config", "deactivated">>,
         <<"config", "ingestion_runtime_changed">>} \ src.events)

CheckFixtures(bindings) ==
    IF bindings = {} THEN PassCheck("fixture-bindings", 0)
    ELSE FindsAll("fixture-bindings", {}, {b \in bindings : b.topic = ""})

CheckResolved(src, bindings) ==
    IF bindings = {} THEN FromFindings("resolved-bindings", 0, 1)
    ELSE FindsAll("resolved-bindings", {}, Unresolved(src, bindings))

\* check_topic_subject_mapping.
CheckTopicSubjects(src, bindings) ==
    FindsAll("topic-subject-mapping",
        {b \in bindings :
            /\ src.prefix # None
            /\ "DATA_PLANE_INGESTION" \in DOMAIN src.streams
            /\ \A pattern \in src.streams["DATA_PLANE_INGESTION"] :
                  ~MatchesBinding(SubjectOf(src.prefix, b), pattern)}, {})

\* check_binding_consumer_coverage, check_binding_validator_coverage.
CheckEntries(name, p, files) == FindsAll(name, files \ p.entries, {})

\* check_scope_consistency: fixtures have no other scope than the default.
CheckScopes(bindings) == FindsAll("scope-consistency", {}, {})

\* check_bootstrap_runtime_contract: the five lines of Go it looks for.
BootstrapLines == {"bindings-field", "runtimes-field", "populates-runtimes",
                   "runtime-mapper", "projections-route"}

\* check_drift: a durable that is there is bound to the stream it belongs to,
\* and the scope of the bindings is one that a configuration bootstraps.
CheckBindingDrift(src, bindings) ==
    LET home == [d \in {"validator-dataplane-v1", "validator-runtime-cache-v1",
                        "consumer-runtime-refresh-v1", "emulator-runtime-refresh-v1"} |->
                    IF d = "validator-dataplane-v1" THEN "DATA_PLANE_INGESTION"
                    ELSE "CONFIGCTL_EVENTS"]
    IN  FindsAll("drift-detection",
            {d \in DOMAIN home \cap DOMAIN src.durables : src.durables[d] # home[d]} \cup
            {x \in {"prefix"} : src.prefix \notin
                                   {None, <<"dataplane", "ingestion", "received">>}},
            ({"CONFIGCTL_EVENTS"} \ DOMAIN src.streams) \cup
            {x \in {"scope"} : /\ bindings # {} /\ src.scopes # {}
                               /\ DefaultScope \notin src.scopes})

\* analyze, and what is left of it without the source: the configurations are
\* scanned with it.
BindingsReport(p) ==
    LET scanned  == SourceReadable(p) /\ "config" \notin p.unreadable
        src      == ScanBindings(p)
        fixtures == "http" \in p.entries \ p.unreadable
        bindings == IF fixtures THEN Fixtures(p) ELSE {}
        Check(name, check) == IF scanned THEN check ELSE SkipCheck(name)
    IN  IF "internal" \notin p.entries THEN ReportOf(<<FromFindings("internal-dir", 1, 0)>>)
        ELSE ReportOf(
            (IF scanned
             THEN <<CheckSubjectPattern(src), CheckRouting(src), CheckLifecycle(src)>>
             ELSE <<FromFindings("source-scan", 1, 0)>>) \o
            (IF "configs" \in p.entries THEN <<PassCheck("config-bindings", 0)>> ELSE << >>) \o
            (IF fixtures THEN <<CheckFixtures(bindings)>> ELSE << >>) \o
            <<CheckResolved(src, IF scanned THEN bindings ELSE {}),
              Check("topic-subject-mapping", CheckTopicSubjects(src, bindings)),
              Check("consumer-coverage",
                    CheckEntries("consumer-coverage", p, {"bootstrap-client", "topology-builder"})),
              Check("validator-coverage",
                    CheckEntries("validator-coverage", p, {"runtime-cache", "validation-worker"})),
              CheckScopes(bindings),
              CheckEntries("bootstrap-runtime-contract", p, BootstrapLines),
              Check("drift-detection", CheckBindingDrift(src, bindings))>>)

=============================================================================
