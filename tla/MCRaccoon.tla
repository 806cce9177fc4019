----------------------------- MODULE MCRaccoon -----------------------------
(***************************************************************************)
(* raccoon-cli on small working trees: Healthy is what the repository      *)
(* looks like to the analyzers, cut down to one of each kind; the others   *)
(* are Healthy with something edited, alone or in pairs.                   *)
(***************************************************************************)
EXTENDS Raccoon

LOCAL INSTANCE SequencesExt
LOCAL INSTANCE FiniteSetsExt

MCMaxNotes == 1
MCMayHang == FALSE
MCSources == <<[file |-> "compose-ps.json", kind |-> "command"],
               [file |-> "readyz.json", kind |-> "endpoint"],
               [file |-> "consumer.jsonc", kind |-> "config"],
               [file |-> "consumer.log", kind |-> "log"]>>
MCPollLimit == 2
MCPageLimit == 1
MCMaxResults == 2
MCMaxOthers == 2

\* Clusters that are up: one that has nothing to load and that nobody else uses,
\* and one where the data plane runs what another operator activated, who may
\* activate something else, and the validator is about to learn of it.
MCCluster(version, others) ==
    [up |-> AllServices, own |-> None, active |-> version,
     held |-> FALSE, again |-> FALSE,
     loaded |-> [s \in {"consumer", "emulator"} |-> version],
     queued |-> << >>, fetched |-> None, cached |-> FALSE,
     results |-> << >>, others |-> others, flapped |-> FALSE]

MCClusters == {MCCluster(None, MCMaxOthers), MCCluster(1, 1)}

-----------------------------------------------------------------------------
(* Configurations and compose *)

Config(kafka, bootstrap) ==
    [brokers |-> IF kafka THEN {<<"kafka", "9092">>} ELSE {}, group |-> kafka,
     nats |-> "nats://nats:4222", broken |-> FALSE,
     base |-> IF bootstrap THEN [url |-> "http://server:8080", host |-> "server"] ELSE None,
     interval |-> IF bootstrap THEN "30s" ELSE None,
     scope |-> IF bootstrap THEN DefaultScope ELSE None]

Key(n, k) == [indent |-> n, form |-> "key", key |-> k, value |-> None]
Pair(n, k, v) == [indent |-> n, form |-> "pair", key |-> k, value |-> v]
Items(n, k, vs) == [indent |-> n, form |-> "list", key |-> k, value |-> vs]
Item(n, v) == [indent |-> n, form |-> "item", key |-> None, value |-> v]

Service(name, deps, profiles) ==
    <<Key(2, name)>> \o
    (IF deps = << >> THEN << >> ELSE <<Key(4, "depends_on")>>) \o
    FlattenSeq([i \in DOMAIN deps |-> <<Key(6, deps[i]), Pair(8, "condition", "healthy")>>]) \o
    <<Items(4, "profiles", profiles)>>

ComposeLines ==
    <<Key(0, "x-"), Pair(2, "init", "true"), Key(0, "services"),
      Key(2, "nats"), Pair(4, "image", "nats:2.10.18-alpine"), Key(4, "ports"),
      Item(6, "4222:4222"), Item(6, "8222:8222"),
      Key(2, "kafka"), Pair(4, "image", "bitnamilegacy/kafka:3.9.0"), Key(4, "ports"),
      Item(6, "19092:19092"), Key(4, "environment"),
      Pair(6, "KAFKA_CFG_LISTENERS", <<<<"PLAINTEXT", "9092">>, <<"EXTERNAL", "19092">>>>),
      Items(4, "profiles", {"dataplane", "all"})>>
    \o Service("configctl", <<"nats">>, {"core", "all"})
    \o Service("server", <<"nats", "configctl">>, {"core", "all"})
    \o <<Key(4, "ports"), Item(6, "8080:8080")>>
    \o Service("validator", <<"nats", "configctl">>, {"runtime", "all"})
    \o Service("consumer", <<"nats", "server", "kafka">>, {"dataplane", "all"})
    \o Service("emulator", <<"nats", "server", "kafka", "consumer", "validator">>,
               {"dataplane", "all"})

-----------------------------------------------------------------------------
(* The Go source as lines of quoted words *)

Stream(s)  == [kind |-> "stream", of |-> s]
Subject(s) == [kind |-> "subject", of |-> s]
Durable(s) == [kind |-> "durable", of |-> s]
Quoting(keys, words) == [comment |-> FALSE, keys |-> keys, quoted |-> words]

Verbs == <<"activated", "deactivated", "ingestion_runtime_changed">>

EventsFile == [i \in DOMAIN Verbs |->
    Quoting({"EventName", "Name", "Event"}, <<Subject(<<"config", Verbs[i]>>)>>)]

RegistryFile ==
    <<Quoting({"Stream"}, << >>),
      Quoting({"Name"}, <<Stream("CONFIGCTL_EVENTS")>>),
      Quoting({"Subjects"}, <<Subject(<<"configctl", "events", "config", ">">>)>>),
      Quoting({"}"}, << >>),
      Quoting({"Subject"}, <<Subject(<<"configctl", "control", "create_draft">>)>>)>>
    \o FlattenSeq([i \in DOMAIN Verbs |->
         <<Quoting({"Subject"}, <<Subject(<<"configctl", "events", "config", Verbs[i]>>)>>),
           Quoting({"Type"}, <<Subject(<<"configctl", "event", "config", Verbs[i]>>)>>)>>])
    \o <<Quoting({"Durable"}, <<Durable("validator-runtime-cache-v1")>>),
         Quoting({"Durable"}, <<Durable("consumer-runtime-refresh-v1")>>),
         Quoting({"Durable"}, <<Durable("emulator-runtime-refresh-v1")>>)>>

DataplaneFile ==
    <<Quoting({"Prefix"}, <<Subject(<<"dataplane", "ingestion", "received">>)>>),
      Quoting({"Stream"}, <<Stream("DATA_PLANE_INGESTION")>>),
      Quoting({"Type"}, <<Subject(<<"dataplane", "event", "ingestion", "received">>)>>),
      Quoting({"Durable"}, <<Durable("validator-dataplane-v1")>>)>>

-----------------------------------------------------------------------------
(* The registries, the envelope and the message *)

HealthyRegistry ==
    [controls |-> {[name |-> "CreateDraft", subject |-> <<"configctl", "control", "create_draft">>,
                    request |-> <<"configctl", "command", "create_draft">>,
                    reply |-> <<"configctl", "reply", "create_draft">>,
                    queue |-> <<"configctl", "control">>]},
     events |-> {[name |-> Verbs[i], subject |-> <<"configctl", "events", "config", Verbs[i]>>,
                  type |-> <<"configctl", "event", "config", Verbs[i]>>] : i \in DOMAIN Verbs},
     streams |-> <<[name |-> "CONFIGCTL_EVENTS",
                    subjects |-> {<<"configctl", "events", "config", ">">>}]>>,
     consumers |-> {[durable |-> "validator-runtime-cache-v1", stream |-> None, filters |-> {},
                     subject |-> <<"configctl", "events", "config", "activated">>]},
     route |-> [prefix |-> <<"dataplane", "ingestion", "received">>,
                type |-> <<"dataplane", "event", "ingestion", "received">>,
                stream |-> "DATA_PLANE_INGESTION"]]

-----------------------------------------------------------------------------
(* The Go files of the index: one per layer *)

Import(name) == [BlankLine EXCEPT !.at = "import", !.path = name]
Module(path) == <<"quality">> \o path
Code_(layer, package, lines) ==
    [path |-> <<"internal", layer, package, layer>>, test |-> FALSE, package |-> layer,
     lines |-> lines]

Struct(name, fields) ==
    <<[BlankLine EXCEPT !.at = "type", !.name = name, !.exported = TRUE,
                        !.shape = "struct{", !.braces = 1]>>
    \o [i \in DOMAIN fields |-> [BlankLine EXCEPT !.name = fields[i], !.exported = TRUE,
                                                  !.words = {<<"string">>}]]
    \o <<[BlankLine EXCEPT !.at = "}", !.braces = 0 - 1]>>

Interface(name, methods) ==
    <<[BlankLine EXCEPT !.at = "type", !.name = name, !.exported = TRUE,
                        !.shape = "interface{", !.braces = 1]>>
    \o [i \in DOMAIN methods |-> [BlankLine EXCEPT !.name = methods[i], !.exported = TRUE,
                                                   !.shape = "("]]
    \o <<[BlankLine EXCEPT !.at = "}", !.braces = 0 - 1]>>

Adapters    == <<"internal", "adapters", "nats">>
Application == <<"internal", "application", "ports">>
Domain      == <<"internal", "domain", "configctl">>
Handlers    == <<"internal", "interfaces", "http">>

Function(result) == [BlankLine EXCEPT !.at = "func", !.name = <<"Load">>, !.exported = TRUE,
                                      !.params = <<{<<"string">>}>>, !.returns = <<result>>]
FieldOf(type, field, expr) ==
    [Struct(type, <<field>>) EXCEPT ![2].words = expr]
Constant == [BlankLine EXCEPT !.at = "const", !.name = <<"Limit">>, !.exported = TRUE,
                              !.value = "10"]

GoFiles ==
    <<Code_("actors", "scopes", <<Import(Module(Adapters)), Import(Module(Application))>>),
      Code_("adapters", "nats", <<Import(Module(Application)), Import(<<"github.com", "nats-io">>)>>
                                \o Struct(<<"Config", "Event">>, <<<<"Id">>, <<"Scope">>>>)),
      Code_("application", "ports", <<Import(Module(Domain))>>
                                    \o Interface(<<"Config", "Repository">>, <<<<"Save">>, <<"Find">>>>)),
      Code_("domain", "configctl", Struct(<<"Version">>, <<<<"Id">>>>)),
      [path |-> <<"internal", "domain", "configctl", "version_test">>, test |-> TRUE,
       package |-> "domain", lines |-> << >>]>>

-----------------------------------------------------------------------------
(* The tree *)

Healthy ==
    [version |-> 1,
     entries |-> {"go.work", "internal", "deploy", "tests", "tools", "compose", "configs", "http",
                  "bootstrap-client", "topology-builder", "runtime-cache", "validation-worker"}
                 \cup BootstrapLines,
     configs |-> [consumer |-> Config(TRUE, TRUE), emulator |-> Config(TRUE, TRUE),
                  validator |-> Config(FALSE, FALSE), configctl |-> Config(FALSE, FALSE),
                  server |-> Config(FALSE, FALSE)],
     order |-> "consumer",
     compose |-> ComposeLines,
     source |-> <<EventsFile, RegistryFile, DataplaneFile>>,
     roles |-> <<"domain", "registry", "other">>,
     registry |-> HealthyRegistry,
     envelope |-> [required |-> {"id", "kind", "type", "timestamp", "content_type"},
                   kinds |-> {"command", "event", "request", "reply"},
                   contentType |-> "application/json"],
     codec |-> [functions |-> DOMAIN CodecFunctions, format |-> "cbor"],
     message |-> [fields |-> MessageFields, validated |-> ValidatedPaths, idFormat |-> TRUE,
                  contentType |-> "application/json", source |-> "kafka"],
     events |-> {[name |-> <<"config", Verbs[i]>>, metadata |-> TRUE] : i \in DOMAIN Verbs},
     http |-> <<[broken |-> FALSE, bindings |-> {[name |-> "orders", topic |-> "orders.v1"]}]>>,
     makefile |-> <<[form |-> "rule", target |-> "check"], [form |-> "other", target |-> None]>>,
     docs |-> {[tool |-> "make", word |-> "check"], [tool |-> "raccoon-cli", word |-> "doctor"]},
     main |-> <<[indent |-> 0, enum |-> TRUE, braces |-> 1, variant |-> None],
                [indent |-> 4, enum |-> FALSE, braces |-> 0, variant |-> "doctor"],
                [indent |-> 0, enum |-> FALSE, braces |-> 0 - 1, variant |-> None]>>,
     gofiles |-> GoFiles,
     tools |-> {},
     unreadable |-> {}]

-----------------------------------------------------------------------------
(* Edits of the tree *)

WithoutLine(lines, i) == SubSeq(lines, 1, i - 1) \o SubSeq(lines, i + 1, Len(lines))
LineOf(lines, Is(_)) == SelectInSeq(lines, Is)

\* The Go files with some lines put at the front of one of them.
GoFileWith(p, layer, lines) ==
    [p EXCEPT !.gofiles = [i \in DOMAIN @ |->
        IF @[i].package = layer /\ ~@[i].test THEN [@[i] EXCEPT !.lines = lines \o @] ELSE @[i]]]

GoFileWithout(p, layer, name) ==
    [p EXCEPT !.gofiles = [i \in DOMAIN @ |->
        IF @[i].package = layer
        THEN [@[i] EXCEPT !.lines = SelectSeq(@, LAMBDA l : l.name # name)] ELSE @[i]]]

\* A project with one edit more.
Edited(p, e) ==
    CASE e = "emulator broker"   -> [p EXCEPT !.configs.emulator.brokers = {<<"localhost", "9092">>}]
      [] e = "broker port"       -> [p EXCEPT !.configs.emulator.brokers = {<<"kafka", "9093">>},
                                              !.configs.consumer.brokers = {<<"kafka", "9093">>}]
      [] e = "broker without port" -> [p EXCEPT !.configs.emulator.brokers = {<<"kafka", None>>},
                                                !.configs.consumer.brokers = {<<"kafka", None>>}]
      [] e = "validator nats"    -> [p EXCEPT !.configs.validator.nats = "nats://other:4222"]
      [] e = "no nats"           -> [p EXCEPT !.configs.consumer.nats = None]
      [] e = "no group"          -> [p EXCEPT !.configs.consumer.group = FALSE]
      [] e = "broken config"     -> [p EXCEPT !.configs.validator.broken = TRUE]
      [] e = "interval"          -> [p EXCEPT !.configs.emulator.interval = "0s"]
      [] e = "bootstrap url"     -> [p EXCEPT !.configs.emulator.base.host = "other"]
      [] e = "scope"             -> [p EXCEPT !.configs.consumer.scope = <<"other", "default">>,
                                              !.configs.emulator.scope = <<"other", "default">>]
      [] e = "emulator first"    -> [p EXCEPT !.order = "emulator"]
      [] e = "listener"          -> [p EXCEPT !.compose = [i \in DOMAIN @ |->
            IF @[i].key = "KAFKA_CFG_LISTENERS" THEN [@[i] EXCEPT !.value[1][2] = "9093"] ELSE @[i]]]
      [] e = "no listener"       -> [p EXCEPT !.compose = SelectSeq(@,
            LAMBDA l : l.key # "KAFKA_CFG_LISTENERS")]
      [] e = "no dependency"     -> [p EXCEPT !.compose = SelectSeq(@,
            LAMBDA l : ~(l.indent = 6 /\ l.form = "key" /\ l.key = "kafka"))]
      [] e = "no profile"        -> [p EXCEPT !.compose = SelectSeq(@, LAMBDA l : l.key # "profiles")]
      [] e = "no consumer"       -> [p EXCEPT !.compose = SelectSeq(@,
            LAMBDA l : ~(l.indent = 2 /\ l.key = "consumer"))]
      [] e = "no dataplane durable" -> [p EXCEPT !.source[3] = SubSeq(@, 1, 3)]
      [] e = "durable elsewhere" -> [p EXCEPT !.source[3] = SubSeq(@, 1, 3),
                                              !.source[2] = @ \o <<DataplaneFile[4]>>]
      [] e = "no event stream"   -> [p EXCEPT !.source[2] = WithoutLine(@, 2)]
      [] e = "commented"         -> [p EXCEPT !.source[3][2].comment = TRUE]
      [] e = "no event name"     -> [p EXCEPT !.source[1] = SubSeq(@, 2, Len(@))]
      [] e = "reply type"        -> [p EXCEPT !.registry.controls =
            {[c EXCEPT !.reply = <<"configctl", "reply", "other">>] : c \in @}]
      [] e = "no queue"          -> [p EXCEPT !.registry.controls = {[c EXCEPT !.queue = None] : c \in @}]
      [] e = "uncovered event"   -> [p EXCEPT !.registry.streams[1].subjects = {<<"configctl", ">">>},
                                              !.registry.route = None]
      [] e = "consumer filter"   -> [p EXCEPT !.registry.consumers =
            {[c EXCEPT !.stream = "CONFIGCTL_EVENTS", !.subject = <<"other">>] : c \in @}]
      [] e = "envelope"          -> [p EXCEPT !.envelope.required = @ \ {"id"}]
      [] e = "codec"             -> [p EXCEPT !.codec.functions = @ \ {"decodeEvent"}]
      [] e = "message field"     -> [p EXCEPT !.message.validated = @ \ {"payload"}]
      [] e = "no metadata"       -> [p EXCEPT !.events = {[d EXCEPT !.metadata = FALSE] : d \in @}]
      [] e = "fixture"           -> [p EXCEPT !.http[1].bindings = {[name |-> "orders", topic |-> ""]}]
      [] e = "broken fixture"    -> [p EXCEPT !.http[1].broken = TRUE]
      [] e = "undocumented"      -> [p EXCEPT !.docs = {}, !.makefile[2] =
                                              [form |-> "rule", target |-> "smoke"]]
      [] e = "stale document"    -> [p EXCEPT !.docs = @ \cup {[tool |-> "make", word |-> "gone"],
                                                               [tool |-> "raccoon-cli", word |-> "gone"]}]
      [] e = "go in tools"       -> [p EXCEPT !.tools = {"go.mod"}]
      [] e = "domain to adapters"      -> GoFileWith(p, "domain", <<Import(Module(Adapters))>>)
      [] e = "domain to nats"          -> GoFileWith(p, "domain", <<Import(<<"github.com", "nats-io">>)>>)
      [] e = "domain to interfaces"    -> GoFileWith(p, "domain", <<Import(Module(Handlers))>>)
      [] e = "application to handlers" -> GoFileWith(p, "application", <<Import(Module(Handlers))>>)
      [] e = "actors to handlers"      -> GoFileWith(p, "actors", <<Import(Module(Handlers))>>)
      [] e = "no contract"  -> GoFileWithout(p, "adapters", <<"Config", "Event">>)
      [] e = "no field"     -> GoFileWithout(p, "adapters", <<"Scope">>)
      [] e = "no interface" -> GoFileWithout(p, "application", <<"Config", "Repository">>)
      [] e = "no method"    -> GoFileWithout(p, "application", <<"Find">>)
      [] e = "no type"      -> GoFileWithout(p, "domain", <<"Version">>)
      [] e = "more contracts" -> GoFileWith(p, "domain",
            Struct(<<"A", "Command">>, <<>>) \o Struct(<<"B", "Query">>, <<>>)
            \o Struct(<<"C", "Reply">>, <<>>))
      [] e = "function"     -> GoFileWith(p, "domain", <<Function({<<"string">>})>>)
      [] e = "other result" -> GoFileWith(p, "domain", <<Function({<<"nats">>})>>)
      [] e = "constant"     -> GoFileWith(p, "domain", <<Constant>>)
      [] e = "repository leaks" -> GoFileWith(p, "application",
            Interface(<<"Event", "Port">>, <<<<"Publish">>>>))

ConfigEdits == {"emulator broker", "broker port", "broker without port", "validator nats", "no nats",
                "no group", "broken config", "interval", "bootstrap url", "scope", "emulator first"}
ComposeEdits == {"listener", "no listener", "no dependency", "no profile", "no consumer"}
SourceEdits == {"no dataplane durable", "durable elsewhere", "no event stream", "commented",
                "no event name"}
RegistryEdits == {"reply type", "no queue", "uncovered event", "consumer filter", "envelope",
                  "codec", "message field", "no metadata"}
OtherEdits == {"fixture", "broken fixture", "undocumented", "stale document", "go in tools"}
ImportEdits == {"domain to adapters", "domain to nats", "domain to interfaces",
                "application to handlers", "actors to handlers"}
CodeEdits == {"no contract", "no field", "no interface", "no method", "no type",
              "more contracts", "function", "other result", "constant", "repository leaks"}

\* Lines that use ConfigEvent in each way the analyzers tell apart, and the
\* file they are put in.
Event == {<<"Config", "Event">>}
UseOf ==
    [param     |-> <<"actors", <<[Function({<<"error">>}) EXCEPT !.params = <<Event>>]>>>>,
     result    |-> <<"application", <<Function(Event)>>>>,
     both      |-> <<"actors", <<[Function(Event) EXCEPT !.name = <<"Convert">>, !.params = <<Event>>]>>>>,
     builder   |-> <<"adapters", <<[Function(Event) EXCEPT !.name = <<"With", "Scope">>,
                                      !.receiver = [type |-> <<"Config", "Event">>]]>>>>,
     validates |-> <<"adapters", <<[Function({}) EXCEPT !.name = <<"Validate">>, !.returns = <<>>,
                                      !.receiver = [type |-> <<"Config", "Event">>]]>>>>,
     field     |-> <<"domain", FieldOf(<<"History">>, <<"Last">>, Event)>>,
     embedded  |-> <<"adapters", FieldOf(<<"Outbox">>, <<"Config", "Event">>, {})>>,
     namesake  |-> <<"domain", FieldOf(<<"Config", "Event">>, <<"Inner">>, Event)>>,
     alias     |-> <<"actors", <<[BlankLine EXCEPT !.at = "type", !.name = <<"Notice">>,
                                    !.words = Event]>>>>,
     typed     |-> <<"domain", <<[Constant EXCEPT !.words = Event]>>>>,
     variable  |-> <<"domain", <<[Constant EXCEPT !.at = "var", !.name = <<"Default">>, !.words = Event]>>>>,
     signature |-> <<"application", [Interface(<<"Sink">>, <<<<"Publish">>>>)
                                        EXCEPT ![2].words = Event]>>,
     repository |-> <<"actors", FieldOf(<<"Store">>, <<"Configs">>, {<<"Config", "Repository">>})>>,
     version   |-> <<"adapters", FieldOf(<<"Envelope">>, <<"Version">>, {<<"Version">>})>>]

\* Parts of the tree that are not there.
Without(entry) == [Healthy EXCEPT !.entries = @ \ {entry}]

\* Parts of it that are there and cannot be read.
Unreadable ==
    {[Healthy EXCEPT !.unreadable = {"configs"}, !.configs = << >>],
     [Healthy EXCEPT !.unreadable = {"config"}, !.configs.validator.broken = TRUE],
     [Healthy EXCEPT !.unreadable = {"compose"}, !.compose = << >>],
     [Healthy EXCEPT !.unreadable = {"http"}, !.http[1].bindings = {}],
     [Healthy EXCEPT !.unreadable = {"contracts"}, !.source[2] = << >>],
     [Healthy EXCEPT !.unreadable = {"source"}, !.source[3] = << >>]}

One(edits) == {Edited(Healthy, e) : e \in edits}
Two(edits, more) == {Edited(Edited(Healthy, e), f) : e \in edits, f \in more}

Projects ==
    {Healthy} \cup {Without(e) : e \in Healthy.entries} \cup Unreadable
    \cup One(ConfigEdits \cup ComposeEdits \cup SourceEdits \cup RegistryEdits \cup OtherEdits
             \cup ImportEdits \cup CodeEdits)
    \cup Two(ConfigEdits, {"broker port", "listener", "emulator first", "no dependency"})

CodeProjects == {Healthy} \cup One(ImportEdits \cup CodeEdits)
                \cup Two(ImportEdits, ImportEdits)

Using(uses) == FoldSet(LAMBDA u, p : GoFileWith(p, UseOf[u][1], UseOf[u][2]), Healthy, uses)

UseProjects(n) == {Using(uses) : uses \in kSubset(n, DOMAIN UseOf)}

-----------------------------------------------------------------------------
(* The command lines *)

Line(command, project) ==
    [command |-> command, project |-> project, profile |-> "fast", failFast |-> FALSE,
     compress |-> FALSE, test |-> None, baseline |-> None, changed |-> {},
     symbol |-> None, newName |-> None]

\* A tree that is not this project's: every directory is missing.
Elsewhere == [Healthy EXCEPT !.entries = {}, !.configs = << >>, !.compose = << >>,
                             !.source = << >>, !.roles = << >>, !.gofiles = << >>,
                             !.docs = {}, !.makefile = << >>]

StaticLines == {Line("arch-guard", p) : p \in CodeProjects}
               \cup {Line(c, p) : c \in StaticStepNames \cup {"coverage-map"},
                                  p \in {Healthy, Elsewhere} \cup Unreadable}

GateLines ==
    {[Line("quality-gate", p) EXCEPT !.profile = profile, !.failFast = failFast] :
        p \in Projects, profile \in {"fast", "ci"}, failFast \in BOOLEAN}
    \cup {[Line("quality-gate", p) EXCEPT !.profile = "deep", !.failFast = failFast] :
        p \in {Healthy, Elsewhere}, failFast \in BOOLEAN}

SmokeLines == {[Line("smoke", Elsewhere) EXCEPT !.test = t] : t \in Scenarios \cup {"runtime-smoke"}}

PackLines == {[Line("trace-pack", Elsewhere) EXCEPT !.compress = c] : c \in BOOLEAN}

\* The commands with --lsp hold their bridge alike.
BridgeLines == {Line(c, Elsewhere) : c \in {"lsp-enrich", "impact-map --lsp"}}

OldBaseline(p) == [p EXCEPT !.version = 0]

DriftPairs == {<<b, p>> : b \in CodeProjects, p \in {Healthy}}
              \cup {<<b, p>> : b \in {None, OldBaseline(Healthy), Healthy}, p \in CodeProjects}

DriftLines == {[Line(c, x[2]) EXCEPT !.baseline = x[1]] :
                  c \in {"baseline-drift", "snapshot-diff"}, x \in DriftPairs}

\* What a change may touch: a file of each area, and of none.
Touched == {<<"deploy", "configs", "consumer">>, <<"deploy", "compose", "compose">>,
            Adapters \o <<"codec">>, <<"internal", "adapters", "kafka", "consumer">>,
            Domain \o <<"domain">>, <<"internal", "application", "configctl", "service">>,
            Handlers \o <<"routes">>, <<"internal", "actors", "scopes", "validator", "cache">>,
            <<"internal", "actors", "scopes", "consumer", "router">>, <<"tools", "main">>}

Changes == {c \in SUBSET Touched : Cardinality(c) <= 2 \/ c = Touched}

AdviceLines ==
    {[Line("recommend", x[2]) EXCEPT !.baseline = x[1], !.changed = c] :
        x \in {<<None, Healthy>>, <<Healthy, Healthy>>}
              \cup {<<Healthy, p>> : p \in One({"no contract", "no method", "other result"})},
        c \in Changes}
    \cup {[Line(command, Healthy) EXCEPT !.changed = Touched] :
        command \in {"tdd", "impact-map", "snapshot"}}

\* What the navigation commands are asked about: each kind of declaration, and
\* a name nothing declares.
NavigationLines ==
    LET Rename(p, s) == [Line("rename-safety", p) EXCEPT !.symbol = s, !.newName = <<"Renamed">>]
    IN  {Rename(p, <<"Config", "Event">>) : p \in UseProjects(2)}
        \cup {Rename(p, s) : p \in UseProjects(1),
                 s \in {<<"Config", "Event">>, <<"Config", "Repository">>, <<"Version">>,
                        <<"Load">>, <<"Limit">>, <<"Unknown">>}}
        \cup {[Line(c, Healthy) EXCEPT !.symbol = <<"Version">>] :
                 c \in {"symbol-trace", "contract-usage-map"}}

MCCommandLines == NavigationLines \cup StaticLines \cup GateLines \cup SmokeLines \cup PackLines \cup BridgeLines
                  \cup DriftLines \cup AdviceLines

=============================================================================
