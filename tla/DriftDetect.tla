----------------------------- MODULE DriftDetect -----------------------------
(***************************************************************************)
(* drift-detect (analyzers/drift_detect.rs): what configurations, compose, *)
(* source, Makefile and documentation say of one another.  Beside what     *)
(* Topology and RuntimeBindings read, a project p has                      *)
(*   roles      the role of each file of source: "domain" under            *)
(*              internal/domain, "registry" for a registry of the          *)
(*              adapters, or "other"                                       *)
(*   makefile   its lines, [form, target]                                  *)
(*   docs       the words after make and raccoon-cli in DEVELOPMENT.md     *)
(*   main       the lines of main.rs, [indent, enum, braces, variant]      *)
(***************************************************************************)
EXTENDS Topology, SequencesExt

-----------------------------------------------------------------------------
(* Gathering *)

\* is_event_name: two tokens, the second a known verb or a compound.
EventVerbs == {"activated", "deactivated", "compiled", "validated", "rejected",
               "archived", "ingestion_runtime_changed"}

IsEventName(s) == Len(s) = 2 /\ s[2] \in EventVerbs

\* normalize_registry_event_name.
Normalized(s) ==
    IF Len(s) = 4 /\ s[1] = "configctl" /\ s[2] \in {"event", "events"}
    THEN SubSeq(s, 3, 4) ELSE s

\* The words of a kind on the lines of the files with a role that a test takes.
WordsIn(p, role, kind, Takes(_, _)) ==
    UNION {UNION {Words(p.source[f][i], kind) :
                     i \in {i \in DOMAIN p.source[f] : /\ ~p.source[f][i].comment
                                                       /\ Takes(p.source[f], i)}}
              : f \in {f \in DOMAIN p.source : role \in {p.roles[f], "any"}}}

\* scan_domain_events: a name of an event, or any name near the word Event.
DomainEvents(p) ==
    {s \in WordsIn(p, "domain", "subject", LAMBDA file, i :
             \/ "EventName" \in file[i].keys
             \/ /\ "Name" \in file[i].keys
                /\ \E j \in Around(file, i, 5) : "Event" \in file[j].keys) : IsEventName(s)}

\* scan_registry_events.
RegistryEvents(p) ==
    {s \in {Normalized(s) : s \in WordsIn(p, "registry", "subject",
                                LAMBDA file, i : "Type" \in file[i].keys)} : IsEventName(s)}

\* scan_config_bindings: the fixtures are read as text, so that the bindings of
\* one that does not parse count too; the source names bindings without a topic.
ConfigBindings(p) ==
    (UNION {{[name |-> b.name, topic |-> b.topic, from |-> <<"http", i>>] : b \in p.http[i].bindings} :
               i \in IF "http" \in p.entries THEN DOMAIN p.http ELSE {}})
    \cup {[name |-> d, topic |-> "", from |-> <<"go", 0>>] :
              d \in WordsIn(p, "any", "durable", LAMBDA file, i : "BindingName" \in file[i].keys)}

\* extract_makefile_targets: whatever has the form of a rule, an indented line
\* of a recipe included, since the line is trimmed before it is looked at.
MakefileTargets(p) ==
    {p.makefile[i].target : i \in {i \in DOMAIN p.makefile : p.makefile[i].form = "rule"}}

\* extract_dev_doc_references.
DocWords(p, tool) == {d.word : d \in {d \in p.docs : d.tool = tool}}

\* scan_cli_subcommands: the variants of enum Commands, four columns in; the
\* table when main.rs is not there or holds none.
KnownCommands == {"doctor", "topology-doctor", "contract-audit", "runtime-bindings",
                  "arch-guard", "runtime-smoke", "scenario-smoke", "results-inspect",
                  "quality-gate", "trace-pack", "drift-detect"}

EnumLine(st, line) ==
    LET depth == st.depth + line.braces IN
    CASE st.done -> st
      [] ~st.done /\ ~st.inside /\ line.enum -> [st EXCEPT !.inside = TRUE, !.depth = depth]
      [] ~st.done /\ ~st.inside /\ ~line.enum -> st
      [] ~st.done /\ st.inside /\ depth <= 0 -> [st EXCEPT !.done = TRUE]
      [] OTHER -> [st EXCEPT !.depth = depth,
                             !.found = IF line.indent = 4 /\ line.variant # None
                                       THEN @ \cup {line.variant} ELSE @]

CliCommands(p) ==
    LET found == FoldLeft(EnumLine, [inside |-> FALSE, done |-> FALSE, depth |-> 0,
                                     found |-> {}], p.main).found
    IN  IF found = {} THEN KnownCommands ELSE found

-----------------------------------------------------------------------------
(* The checks *)

AppServices == {"configctl", "server", "consumer", "emulator", "validator"}

\* check_config_compose_drift.
CheckConfigCompose(composed, configs, services) ==
    LET both == DOMAIN configs \cap DOMAIN services IN
    IF ~composed \/ DOMAIN configs = {} THEN SkipCheck("config-compose-drift")
    ELSE FindsAll("config-compose-drift",
            {<<s, "kafka">> : s \in {s \in both : configs[s].brokers # {}
                                                  /\ "kafka" \notin services[s].deps}}
            \cup {<<s, "nats">> : s \in {s \in both : configs[s].nats # None
                                                  /\ "nats" \notin services[s].deps}},
            ((DOMAIN configs \ DOMAIN services) \cap AppServices)
            \cup ((DOMAIN services \cap AppServices) \ DOMAIN configs))

\* check_config_source_drift.
CheckConfigSource(scanned, st) ==
    LET refresh == {"consumer-runtime-refresh-v1", "emulator-runtime-refresh-v1"}
                      \cap DOMAIN st.durables
    IN  IF ~scanned THEN SkipCheck("config-source-drift")
        ELSE FindsAll("config-source-drift",
            ({"DATA_PLANE_INGESTION", "CONFIGCTL_EVENTS"} \ DOMAIN st.streams)
            \cup {d \in DOMAIN st.durables : st.durables[d] \notin DOMAIN st.streams}
            \cup {<<d, "refresh">> : d \in {d \in refresh : st.durables[d] # "CONFIGCTL_EVENTS"}},
            {x \in {"dataplane"} : /\ DOMAIN st.streams # {}
                                   /\ \A s \in st.subjects :
                                         ~StartsWith(s, <<"dataplane", "ingestion", "received">>)}
            \cup UNION {{<<n, s>> : s \in {s \in st.streams[n] :
                            \A t \in st.subjects : ~StartsWith(t, WithoutWildcard(s))}} :
                        n \in DOMAIN st.streams})

\* check_binding_topology_drift.
CheckBindingTopology(scanned, st, bindings) ==
    LET topics == {b.topic : b \in {b \in bindings : b.topic # ""}}
        Declaring(name) == {b.from : b \in {b \in bindings : b.name = name}}
    IN  IF ~scanned THEN SkipCheck("binding-topology-drift")
        ELSE FindsAll("binding-topology-drift",
            IF topics = {} THEN {}
            ELSE ({"DATA_PLANE_INGESTION"} \ DOMAIN st.streams)
                 \cup ({"validator-dataplane-v1"} \ DOMAIN st.durables),
            {b.name : b \in {b \in bindings : Cardinality(Declaring(b.name)) > 2}})

\* check_workflow_drift.
CheckWorkflow(p) ==
    LET targets    == MakefileTargets(p)
        documented == DocWords(p, "make")
    IN  IF targets = {} /\ documented = {} THEN SkipCheck("workflow-drift")
        ELSE FindsAll("workflow-drift",
            (documented \ targets) \ {"test", "build", "docker-build"},
            {<<"cli", c>> : c \in DocWords(p, "raccoon-cli") \ CliCommands(p)}
            \cup (({"check", "verify", "check-deep", "smoke", "trace-pack", "results-inspect"}
                      \cap targets) \ documented))

\* check_contract_domain_drift.
CheckContractDomain(p) ==
    LET domain == DomainEvents(p)  registry == RegistryEvents(p)
    IN  IF domain = {} /\ registry = {} THEN SkipCheck("contract-domain-drift")
        ELSE FindsAll("contract-domain-drift", {},
                      (domain \ registry) \cup (registry \ domain))

\* check_compose_profile_drift.
CheckComposeProfiles(composed, services) ==
    LET used == UNION {services[s].profiles : s \in DOMAIN services}
    IN  IF ~composed THEN SkipCheck("compose-profile-drift")
        ELSE FindsAll("compose-profile-drift", {},
                IF used = {} THEN {} ELSE {"core", "runtime", "dataplane", "all"} \ used)

\* gather_evidence and analyze: a piece that is missing, or cannot be read, is
\* empty or skipped.
DriftReport(p) ==
    LET composed == Parses(p)
        scanned  == Scans(p)
        configs  == IF "configs" \in p.entries THEN ParsedConfigs(p) ELSE << >>
        services == IF composed THEN ParseCompose(p.compose) ELSE << >>
        st       == ScanSource(p.source)
    IN  ReportOf(<<CheckConfigCompose(composed, configs, services),
                   CheckConfigSource(scanned, st),
                   CheckBindingTopology(scanned, st, IF scanned THEN ConfigBindings(p) ELSE {}),
                   CheckWorkflow(p),
                   IF "internal" \in p.entries THEN CheckContractDomain(p)
                   ELSE SkipCheck("contract-domain-drift"),
                   CheckComposeProfiles(composed, services)>>)

=============================================================================
