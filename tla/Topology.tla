------------------------------ MODULE Topology ------------------------------
(***************************************************************************)
(* doctor and topology-doctor (analyzers/doctor.rs, analyzers/topology):   *)
(* the report on a project of what its directories, deployed               *)
(* configurations, docker compose file and Go source say of the pipeline   *)
(* emulator -> kafka -> consumer -> jetstream -> validator.                *)
(*                                                                         *)
(* A project is a record                                                   *)
(*   entries   the files and directories looked for by name                *)
(*   configs   the configurations by service                               *)
(*   order     one configuration, which the hash map iterates first        *)
(*   compose   the lines of the compose file, without comments             *)
(*   source    the Go files under internal/                                *)
(*   unreadable  what is there and cannot be read, so that nothing of it   *)
(*             is in the rest: "configs" (their directory), "config" (one of *)
(*             them), "compose", "http" (a fixture), "contracts" (a Go file  *)
(*             contract-audit reads), "source" (another Go file)             *)
(* and more that the other structural checks read.                         *)
(***************************************************************************)
EXTENDS GoSource, SequencesExt

-----------------------------------------------------------------------------
(* doctor *)

\* A check that found one thing or nothing.
Finds(name, severity, found) ==
    FromFindings(name, IF found /\ severity = "error" THEN 1 ELSE 0,
                       IF found /\ severity = "warning" THEN 1 ELSE 0)

DoctorReport(p) ==
    ReportOf(<<Finds("project-root", "error", "go.work" \notin p.entries)>> \o
        [i \in 1..4 |->
            LET dir == <<"internal", "deploy", "tests", "tools">>[i]
            IN  Finds(dir, "warning", dir \notin p.entries)] \o
        <<Finds("compose-file", "warning", "compose" \notin p.entries),
          Finds("config-files", "warning",
                "configs" \notin p.entries \/ DOMAIN p.configs = {})>>)

-----------------------------------------------------------------------------
(* parse_compose: a line is [indent, form, key, value] where form is key     *)
(* ("k:"), pair ("k: v"), list ("k: [v, ...]") or item ("- v").              *)

EmptyService == [image |-> None, deps |-> {}, profiles |-> {}, ports |-> {},
                 port |-> None]

\* Nothing read yet.
ParserStart == [skip |-> FALSE, inside |-> FALSE, service |-> None, section |-> None,
                serviceIndent |-> 0, sectionIndent |-> 0, services |-> << >>]

\* parse_section_item.  The internal port is that of the first plaintext listener.
WithItem(svc, section, line) ==
    CASE section = "depends_on" /\ line.form = "key" /\ line.key # "condition" ->
            [svc EXCEPT !.deps = @ \cup {line.key}]
      [] section = "depends_on" /\ line.form = "item" -> [svc EXCEPT !.deps = @ \cup {line.value}]
      [] section = "ports" /\ line.form = "item" -> [svc EXCEPT !.ports = @ \cup {line.value}]
      [] section = "profiles" /\ line.form = "item" -> [svc EXCEPT !.profiles = @ \cup {line.value}]
      [] section = "environment" /\ line.form = "pair" /\ line.key = "KAFKA_CFG_LISTENERS"
         /\ \E i \in DOMAIN line.value : line.value[i][1] = "PLAINTEXT" ->
            [svc EXCEPT !.port = SelectSeq(line.value, LAMBDA l : l[1] = "PLAINTEXT")[1][2]]
      [] OTHER -> svc

\* parse_inline_list: an inline list of dependencies is dropped.
WithInline(svc, section, values) ==
    CASE section = "profiles" -> [svc EXCEPT !.profiles = @ \cup values]
      [] section = "ports"    -> [svc EXCEPT !.ports = @ \cup values]
      [] OTHER                -> svc

\* A line of a service that is not inside one of its sections.
ServiceLine(st, line) ==
    LET svc == st.services[st.service]
        sections == {"depends_on", "ports", "profiles", "environment"}
    IN  CASE line.key \in sections /\ line.form = "list" ->
                [st EXCEPT !.services[st.service] = WithInline(svc, line.key, line.value)]
          [] line.key \in sections /\ line.form # "list" ->
                [st EXCEPT !.section = line.key, !.sectionIndent = line.indent]
          [] line.key = "image" /\ line.form = "pair" ->
                [st EXCEPT !.services[st.service].image = line.value]
          [] OTHER -> st

\* A line below services:, which may end the section and the service before it.
InServices(before, line) ==
    IF before.service # None /\ before.section # None /\ line.indent > before.sectionIndent
    THEN [before EXCEPT !.services[before.service] = WithItem(@, before.section, line)]
    ELSE LET ends == before.service # None /\ line.indent <= before.serviceIndent
             st   == [before EXCEPT !.section = None,
                                    !.service = IF ends THEN None ELSE @]
         IN  IF st.service = None /\ line.form = "key"
             THEN [st EXCEPT !.service = line.key, !.serviceIndent = line.indent,
                             !.services = IF line.key \in DOMAIN @ THEN @
                                          ELSE [s \in DOMAIN @ \cup {line.key} |->
                                                  IF s = line.key THEN EmptyService ELSE @[s]]]
             ELSE IF st.service # None /\ line.form # "item" THEN ServiceLine(st, line) ELSE st

\* The body of the loop of parse_compose.
ParseLine(st, line) ==
    IF st.skip /\ line.indent > 0 THEN st
    ELSE LET now == [st EXCEPT !.skip = FALSE] IN
         IF line.indent = 0 /\ line.key = "x-" THEN [now EXCEPT !.skip = TRUE]
         ELSE IF line.indent = 0 /\ line.form = "key"
         THEN [now EXCEPT !.inside = line.key = "services", !.service = None, !.section = None]
         ELSE IF now.inside THEN InServices(now, line) ELSE now

ParseCompose(lines) == FoldLeft(ParseLine, ParserStart, lines).services

-----------------------------------------------------------------------------
(* Checks of the configurations: a configuration is [brokers, group, nats,   *)
(* base, interval, scope, broken], a broker <<host, port>>, a base URL       *)
(* [url, host].                                                              *)

\* parse_all_configs: one that does not parse is registered without any data.
EmptyConfig == [brokers |-> {}, group |-> FALSE, nats |-> None, base |-> None,
                interval |-> None, scope |-> None, broken |-> TRUE]

ParsedConfigs(p) == [s \in DOMAIN p.configs |->
                        IF p.configs[s].broken THEN EmptyConfig ELSE p.configs[s]]

\* check_configs.
CheckConfigs(configs) ==
    LET Has(s) == s \in DOMAIN configs
        errors == {<<s, "kafka">> : s \in {s \in {"consumer", "emulator"} :
                                              Has(s) /\ configs[s].brokers = {}}}
            \cup {<<s, "nats">> : s \in {s \in {"consumer", "emulator", "validator"} :
                                              Has(s) /\ configs[s].nats = None}}
            \cup {<<s, "interval">> : s \in {s \in {"consumer", "emulator"} :
                                              Has(s) /\ configs[s].interval \in {None, ""}}}
        warnings == {<<s, "present">> : s \in {s \in {"consumer", "emulator", "validator"} : ~Has(s)}}
            \cup {<<s, "group">> : s \in {s \in {"consumer"} : Has(s) /\ ~configs[s].group}}
            \cup {<<s, "zero">> : s \in {s \in {"consumer", "emulator"} :
                                              Has(s) /\ configs[s].interval = "0s"}}
    IN  FindsAll("config-completeness", errors, warnings)

Services == {"nats", "kafka", "configctl", "server", "consumer", "emulator", "validator"}

\* check_compose.
CheckCompose(services) ==
    FindsAll("compose-services", Services \ DOMAIN services, {})

\* The tables of check_compose_dependencies and check_compose_runtime_contract.
ExpectedDeps == [consumer |-> {"nats", "server", "kafka"},
                 emulator |-> {"nats", "server", "kafka", "consumer", "validator"},
                 validator |-> {"nats", "configctl"},
                 server |-> {"nats", "configctl"},
                 configctl |-> {"nats"}]

ExpectedProfiles == [configctl |-> {"core", "all"}, server |-> {"core", "all"},
                     validator |-> {"runtime", "all"}, kafka |-> {"dataplane", "all"},
                     consumer |-> {"dataplane", "all"}, emulator |-> {"dataplane", "all"}]

ExpectedImages == [nats |-> "nats:2.10.18-alpine", kafka |-> "bitnamilegacy/kafka:3.9.0"]

ExpectedPorts == [nats |-> {"4222:4222", "8222:8222"}, server |-> {"8080:8080"},
                  kafka |-> {"19092:19092"}]

\* What a table asks of the services that exist and they do not have.
Missing(services, expected, field) ==
    UNION {{<<s, field, x>> : x \in expected[s] \ services[s][field]} :
              s \in DOMAIN services \cap DOMAIN expected}

CheckComposeDependencies(services) ==
    FindsAll("compose-dependencies", {}, Missing(services, ExpectedDeps, "deps"))

CheckComposeRuntimeContract(services) ==
    FindsAll("compose-runtime-contract",
        Missing(services, ExpectedProfiles, "profiles")
        \cup Missing(services, ExpectedPorts, "ports")
        \cup {s \in DOMAIN services \cap DOMAIN ExpectedImages :
                 services[s].image # ExpectedImages[s]}, {})

-----------------------------------------------------------------------------
(* Checks of the source *)

\* "x.y.>" without its wildcard.
WithoutWildcard(subject) ==
    IF subject # << >> /\ subject[Len(subject)] = ">"
    THEN SubSeq(subject, 1, Len(subject) - 1) ELSE subject

CheckSourceStreams(st) ==
    FindsAll("source-streams",
        {"DATA_PLANE_INGESTION", "CONFIGCTL_EVENTS"} \ DOMAIN st.streams, {})

CheckSourceDurables(st) ==
    FindsAll("source-durables",
        {"validator-dataplane-v1", "validator-runtime-cache-v1",
         "consumer-runtime-refresh-v1", "emulator-runtime-refresh-v1"}
        \ DOMAIN st.durables, {})

CheckSourceSubjects(st) ==
    FindsAll("source-subjects", {},
        {prefix \in {<<"dataplane", "ingestion", "received">>,
                     <<"configctl", "events", "config">>,
                     <<"configctl", "control">>} :
            \A s \in st.subjects : ~StartsWith(s, prefix)})

-----------------------------------------------------------------------------
(* Checks across the three.  A project whose compose file or source is not   *)
(* there has none to check against.                                          *)

\* Mutant: brokers are only compared with the compose file.
NoBrokerComparison(configs, services, order) ==
    LET used == UNION {{<<s, b>> : b \in configs[s].brokers} : s \in DOMAIN configs}
        kafka == "kafka" \in DOMAIN services
        port == IF kafka /\ services["kafka"].port # None THEN services["kafka"].port ELSE "9092"
    IN  FindsAll("kafka-broker-consistency",
            {u \in used : kafka /\ u[2][2] # None /\ u[2][2] # port},
            {u \in used : kafka /\ u[2][1] \notin {"kafka", "localhost", "127.0.0.1"}})

\* check_kafka_broker_consistency: every configuration with brokers is compared
\* with the first one, and each broker with the compose file.
CheckKafkaBrokers(configs, services, order) ==
    LET having == {s \in DOMAIN configs : configs[s].brokers # {}}
        first  == IF order \in having THEN order ELSE CHOOSE s \in having : TRUE
        used   == UNION {{<<s, b>> : b \in configs[s].brokers} : s \in DOMAIN configs}
        kafka  == "kafka" \in DOMAIN services
        port   == IF kafka /\ services["kafka"].port # None
                  THEN services["kafka"].port ELSE "9092"
    IN  FindsAll("kafka-broker-consistency",
            {u \in used : kafka /\ u[2][2] # None /\ u[2][2] # port},
            {s \in having : configs[s].brokers # configs[first].brokers} \cup
            {u \in used : kafka /\ u[2][1] \notin {"kafka", "localhost", "127.0.0.1"}})

\* check_nats_url_consistency.
CheckNatsUrls(configs, order) ==
    LET having == {s \in DOMAIN configs : configs[s].nats # None}
        first  == IF order \in having THEN order ELSE CHOOSE s \in having : TRUE
    IN  FindsAll("nats-url-consistency", {},
            {s \in having : configs[s].nats # configs[first].nats})

\* check_bootstrap_url_consistency.
CheckBootstrapUrls(configs, services, order) ==
    LET having == {s \in DOMAIN configs : configs[s].base # None}
        first  == IF order \in having THEN order ELSE CHOOSE s \in having : TRUE
    IN  FindsAll("bootstrap-url-consistency", {},
            {<<s, "differs">> : s \in {s \in having : configs[s].base # configs[first].base}} \cup
            {<<s, "host">> : s \in {s \in having :
                /\ "server" \in DOMAIN services
                /\ configs[s].base.host \notin {"server", "localhost", "127.0.0.1"}}})

\* check_bootstrap_reconcile_consistency.
CheckReconcile(configs) ==
    Finds("bootstrap-reconcile-consistency", "warning",
        /\ {"consumer", "emulator"} \subseteq DOMAIN configs
        /\ None \notin {configs["consumer"].interval, configs["emulator"].interval}
        /\ configs["consumer"].interval # configs["emulator"].interval)

\* check_stream_subject_alignment.
CheckStreamSubjects(st) ==
    FindsAll("stream-subject-alignment", {},
        UNION {{<<n, s>> : s \in {s \in st.streams[n] :
                  \A t \in st.subjects : ~StartsWith(t, WithoutWildcard(s))}} :
                  n \in DOMAIN st.streams})

\* check_durable_stream_alignment.
CheckDurableStreams(st) ==
    FindsAll("durable-stream-alignment",
        {d \in DOMAIN st.durables : st.durables[d] \notin DOMAIN st.streams}, {})

\* check_pipeline_continuity.
CheckPipeline(configs, hasSource, st) ==
    LET Kafka(s) == s \in DOMAIN configs /\ configs[s].brokers # {}
        Nats(s)  == s \in DOMAIN configs /\ configs[s].nats # None
        gaps == {hop \in {<<"emulator", "kafka">>, <<"consumer", "kafka">>,
                          <<"consumer", "nats">>, <<"validator", "nats">>} :
                    ~(IF hop[2] = "kafka" THEN Kafka(hop[1]) ELSE Nats(hop[1]))}
        bridge == "consumer" \in DOMAIN configs /\ ~(Kafka("consumer") /\ Nats("consumer"))
        dataplane == /\ hasSource
                     /\ ("DATA_PLANE_INGESTION" \in DOMAIN st.streams)
                          # ("validator-dataplane-v1" \in DOMAIN st.durables)
    IN  FindsAll("pipeline-continuity",
            gaps \cup (IF bridge THEN {<<"bridge">>} ELSE {})
                 \cup (IF dataplane THEN {<<"dataplane">>} ELSE {}), {})

\* The compose file parses, the source can be scanned.
Parses(p) == "compose" \in p.entries \ p.unreadable
Scans(p)  == "internal" \in p.entries /\ SourceReadable(p)

\* analyze: without configurations nothing else is checked.
TopologyReport(p) ==
    LET configs  == ParsedConfigs(p)
        composed == Parses(p)
        services == IF composed THEN ParseCompose(p.compose) ELSE << >>
        scanned  == Scans(p)
        st       == IF scanned THEN ScanSource(p.source)
                    ELSE [streams |-> << >>, durables |-> << >>, subjects |-> {}]
    IN  IF "configs" \notin p.entries
        THEN ReportOf(<<Finds("configs-dir-exists", "error", TRUE)>>)
        ELSE ReportOf(
            <<PassCheck("configs-dir-exists", 0), CheckConfigs(configs)>> \o
            (IF composed
             THEN <<CheckCompose(services), CheckComposeDependencies(services),
                    CheckComposeRuntimeContract(services)>>
             ELSE IF "compose" \in p.entries THEN <<Finds("compose-parse", "error", TRUE)>>
             ELSE <<Finds("compose-exists", "warning", TRUE)>>) \o
            (IF scanned
             THEN <<CheckSourceStreams(st), CheckSourceDurables(st), CheckSourceSubjects(st)>>
             ELSE IF "internal" \in p.entries THEN <<Finds("source-scan", "error", TRUE)>>
             ELSE << >>) \o
            <<CheckKafkaBrokers(configs, services, p.order),
              CheckNatsUrls(configs, p.order),
              CheckBootstrapUrls(configs, services, p.order),
              CheckReconcile(configs),
              IF scanned THEN CheckStreamSubjects(st) ELSE SkipCheck("stream-subject-alignment"),
              IF scanned THEN CheckDurableStreams(st) ELSE SkipCheck("durable-stream-alignment"),
              CheckPipeline(configs, scanned, st)>>)

=============================================================================
