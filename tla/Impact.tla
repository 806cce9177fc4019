------------------------------- MODULE Impact -------------------------------
(***************************************************************************)
(* What to run after a change (analyzers/impact_map.rs, coverage_map.rs,   *)
(* tdd.rs and recommend.rs).  Each of the first three keeps a table of its *)
(* own of the same sensitive areas; recommend joins what they say with the *)
(* drift from a baseline.                                                  *)
(*                                                                         *)
(* A change is a path, a sequence of names.  A command is a static check,  *)
(* <<"scenario-smoke", s>>, <<"quality-gate">> or <<"verify">>.            *)
(***************************************************************************)
EXTENDS Snapshot, SequencesExt

\* The areas in the order of the tables.
AreaNames == <<"config-files", "compose", "nats-adapters", "kafka-adapters", "domain",
               "application", "http-handlers", "actors", "validator-logic",
               "consumer-pipeline", "config-lifecycle">>

\* The directories of an area, the same in the three tables.
Patterns(area) ==
    CASE area = "config-files"   -> {<<"deploy", "configs">>}
      [] area = "compose"        -> {<<"deploy", "compose">>}
      [] area = "nats-adapters"  -> {<<"internal", "adapters", "nats">>}
      [] area = "kafka-adapters" -> {<<"internal", "adapters", "kafka">>}
      [] area = "domain"         -> {<<"internal", "domain">>}
      [] area = "application"    -> {<<"internal", "application">>}
      [] area = "http-handlers"  -> {<<"internal", "interfaces", "http">>}
      [] area = "actors"         -> {<<"internal", "actors">>}
      [] area = "validator-logic" -> {<<"internal", "actors", "scopes", "validator">>,
                                      <<"internal", "application", "validatorresults">>}
      [] area = "consumer-pipeline" -> {<<"internal", "actors", "scopes", "consumer">>,
                                        <<"internal", "application", "dataplane">>}
      [] area = "config-lifecycle" -> {<<"internal", "actors", "scopes", "configctl">>,
                                       <<"internal", "application", "configctl">>}

\* The areas of a path: a pattern ends in a slash, so that a directory is not
\* in the area it is the root of.
AreasOf(path) ==
    {a \in ToSet(AreaNames) : \E d \in Patterns(a) : Within(d, DirOf(path))}

\* area_for_path: only the first area of a path counts.
FirstArea(path) ==
    LET i == SelectInSeq(AreaNames, LAMBDA a : a \in AreasOf(path))
    IN  IF i = 0 THEN "general" ELSE AreaNames[i]

-----------------------------------------------------------------------------
(* impact-map *)

\* The commands of SENSITIVE_AREAS.
ImpactCommands(area) ==
    CASE area \in {"config-files", "compose"} ->
            {<<"doctor">>, <<"topology-doctor">>, <<"drift-detect">>}
      [] area = "nats-adapters" ->
            {<<"contract-audit">>, <<"runtime-bindings">>, <<"arch-guard">>}
      [] area = "kafka-adapters" ->
            {<<"topology-doctor">>, <<"runtime-bindings">>, <<"arch-guard">>}
      [] area \in {"domain", "application"} -> {<<"arch-guard">>, <<"contract-audit">>}
      [] area = "http-handlers" -> {<<"arch-guard">>}
      [] area = "actors" -> {<<"arch-guard">>, <<"runtime-bindings">>}
      [] area = "validator-logic" ->
            {<<"contract-audit">>, <<"runtime-bindings">>, <<"scenario-smoke", "happy-path">>}
      [] area = "consumer-pipeline" ->
            {<<"topology-doctor">>, <<"runtime-bindings">>, <<"scenario-smoke", "happy-path">>}
      [] area = "config-lifecycle" ->
            {<<"contract-audit">>, <<"scenario-smoke", "config-lifecycle">>}

\* match_areas: any area also asks for the gate.
MatchedCommands(path) ==
    (UNION {ImpactCommands(a) : a \in AreasOf(path)})
    \cup (IF AreasOf(path) = {} THEN {} ELSE {<<"quality-gate">>})

\* find_dependents: the other packages with an internal import of a directory.
Dependents(index, dir) ==
    {g \in Packages(index) :
        /\ g.dir # dir
        /\ \E i \in DOMAIN index : /\ index[i].path \in g.files
                                   /\ \E m \in index[i].imports : m.kind = "internal"
                                                                  /\ IsSuffix(dir, m.path)}

\* collect_exported_symbols_from_file: what files export, by kind.
ExportedOf(files) ==
    UNION {{<<"type", t.name>> : t \in {t \in f.types : t.exported}}
           \cup {<<"func", g.name>> : g \in {g \in f.functions : g.exported}}
           \cup {<<"const", c.name>> : c \in {c \in f.constants : c.exported}} : f \in files}

\* is_message_type.
MessageSuffixes == {"Command", "Query", "Reply", "Event", "Request", "Response", "Message"}

IsMessage(name, path) ==
    name[Len(name)] \in MessageSuffixes \/ ToSet(path) \cap {"contracts", "messages", "events"} # {}

\* append_contracts_from_types.
ContractsOf(files) ==
    UNION {UNION {CASE t.kind = "interface" ->
                         {<<"interface", t.name>>}
                         \cup {<<"method", m.name>> : m \in {m \in t.members : ~m.embedded}}
                    [] t.kind = "struct" ->
                         IF IsMessage(t.name, f.path) THEN {<<"message", t.name>>} ELSE {}
                    [] t.kind = "alias" ->
                         IF ToSet(f.path) \cap {"contracts", "events"} # {}
                         THEN {<<"alias", t.name>>} ELSE {} :
                  t \in {t \in f.types : t.exported}} : f \in files}

\* compute_risks: what each risk is and whether it was observed.
Risks(exported, contracts, dependents) ==
    {<<kind, "observed">> : kind \in {c[1] : c \in contracts} \cap {"interface", "message"}}
    \cup (CASE Cardinality(dependents) > 3 -> {<<"fan-out", "observed">>}
            [] Cardinality(dependents) \in 1..3 -> {<<"dependents", "observed">>}
            [] dependents = {} -> {})
    \cup (IF Cardinality(exported) > 10 THEN {<<"surface", "inferred">>} ELSE {})

ImpactOf(kind, files, dependents, exported, contracts, path) ==
    [kind |-> kind, exported |-> exported, dependents |-> dependents,
     contracts |-> contracts, areas |-> AreasOf(path),
     risks |-> Risks(exported, contracts, dependents),
     commands |-> MatchedCommands(path)]

\* analyze_target: a file, else a package (of whose files the tests are left
\* out), else the types and functions of that name, else only a path.
AnalyzeTarget(index, target) ==
    LET files == {f \in ToSet(index) : f.path = target}
        inDir == {f \in ToSet(index) : DirOf(f.path) = target}
        named == {f \in ToSet(index) :
                    \/ \E t \in f.types : <<t.name>> = target
                    \/ \E g \in f.functions : <<g.name>> = target}
        unit  == {f \in inDir : ~f.test}
    IN  CASE files # {} ->
               ImpactOf("file", files, Dependents(index, DirOf(target)),
                        ExportedOf(files), ContractsOf(files), target)
          [] files = {} /\ inDir # {} ->
               ImpactOf("package", unit, Dependents(index, target),
                        ExportedOf(unit), ContractsOf(unit), target)
          [] files = {} /\ inDir = {} /\ named # {} ->
               ImpactOf("symbol", named,
                        UNION {Dependents(index, DirOf(f.path)) : f \in named},
                        {x \in ExportedOf(named) : <<x[2]>> = target /\ x[1] # "const"},
                        ContractsOf(named),
                        index[SelectInSeq(index, LAMBDA f : f \in named)].path)
          [] OTHER ->
               [ImpactOf("unresolved", {}, {}, {}, {}, target) EXCEPT !.risks =
                    {<<"unresolved", IF AreasOf(target) = {} THEN "observed" ELSE "inferred">>}]

\* analyze: the commands and areas of all the targets.
ImpactMap(index, targets) ==
    LET impacts == {AnalyzeTarget(index, t) : t \in targets}
    IN  [impacts  |-> impacts,
         commands |-> UNION {i.commands : i \in impacts},
         areas    |-> UNION {i.areas : i \in impacts}]

-----------------------------------------------------------------------------
(* coverage-map *)

\* DIMENSIONS: their command, and which need a running cluster.
StaticDimensions == {"project-structure", "topology", "contracts", "runtime-bindings",
                     "architecture", "drift"}

\* dimension_command.
CommandOf(dimension) ==
    CASE dimension = "project-structure" -> <<"doctor">>
      [] dimension = "topology"          -> <<"topology-doctor">>
      [] dimension = "contracts"         -> <<"contract-audit">>
      [] dimension = "runtime-bindings"  -> <<"runtime-bindings">>
      [] dimension = "architecture"      -> <<"arch-guard">>
      [] dimension = "drift"             -> <<"drift-detect">>

\* required_dimensions of SENSITIVE_AREAS: the static ones, and scenarios.
RequiredDimensions(area) ==
    CASE area \in {"config-files", "compose"} -> {"project-structure", "topology", "drift"}
      [] area = "nats-adapters"  -> {"contracts", "runtime-bindings", "architecture"}
      [] area = "kafka-adapters" -> {"topology", "runtime-bindings", "architecture"}
      [] area \in {"domain", "application"} -> {"architecture", "contracts"}
      [] area = "http-handlers"  -> {"architecture"}
      [] area = "actors"         -> {"architecture", "runtime-bindings"}
      [] area = "validator-logic"   -> {"contracts", "runtime-bindings"}
      [] area = "consumer-pipeline" -> {"topology", "runtime-bindings"}
      [] area = "config-lifecycle"  -> {"contracts"}

RequiredScenarios(area) ==
    CASE area = "validator-logic"   -> {"happy-path", "invalid-payload"}
      [] area = "consumer-pipeline" -> {"happy-path"}
      [] area = "config-lifecycle"  -> {"config-lifecycle"}
      [] OTHER                      -> {}

\* What the table requires of a path, as commands.
RequiredCommands(path) ==
    UNION {{CommandOf(d) : d \in RequiredDimensions(a)}
           \cup {<<"scenario-smoke", s>> : s \in RequiredScenarios(a)} : a \in AreasOf(path)}

\* analyze: one check per area that is there, then the tests, which it only
\* looks for under internal/.
CoverageReport(p) ==
    LET dirs    == {DirOf(f.path) : f \in ToSet(p.gofiles)}
        present == SelectSeq(AreaNames,
                             LAMBDA a : \E d \in Patterns(a), dir \in dirs : IsPrefix(d, dir))
        tests   == {f \in ToSet(p.gofiles) : f.test /\ f.path[1] = "internal"}
        Lacks(a) == RequiredDimensions(a) \ StaticDimensions
    IN  ReportOf(<<PassCheck("dimension-inventory", 0)>>
                 \o [i \in DOMAIN present |-> FindsAll(present[i], Lacks(present[i]), {})]
                 \o <<FindsAll("go-test-coverage", {}, {x \in {"tests"} : tests = {}}),
                      PassCheck("coverage-summary", 0)>>)

-----------------------------------------------------------------------------
(* tdd *)

\* AREA_DEFS: the dimensions and the scenarios of an area.
TddDimensions(area) ==
    CASE area \in {"config-files", "compose"} -> {"project-structure", "topology", "drift"}
      [] area = "nats-adapters"  -> {"contracts", "runtime-bindings", "architecture"}
      [] area = "kafka-adapters" -> {"topology", "runtime-bindings", "architecture"}
      [] area \in {"domain", "application"} -> {"architecture", "contracts"}
      [] area = "http-handlers"  -> {"architecture"}
      [] area = "actors"         -> {"architecture", "runtime-bindings"}
      [] area = "validator-logic"   -> {"contracts", "runtime-bindings"}
      [] area = "consumer-pipeline" -> {"topology", "runtime-bindings"}
      [] area = "config-lifecycle"  -> {"contracts"}

\* Mutant: the table gives the validator one scenario, as that of impact-map does.
OneScenario(area) ==
    CASE area \in {"nats-adapters", "kafka-adapters", "consumer-pipeline",
                   "validator-logic"}                       -> {"happy-path"}
      [] area \in {"compose", "http-handlers", "actors"} -> {"readiness-probe"}
      [] area = "config-lifecycle"                       -> {"config-lifecycle"}
      [] OTHER                                           -> {}

TddScenarios(area) ==
    CASE area \in {"nats-adapters", "kafka-adapters", "consumer-pipeline"} -> {"happy-path"}
      [] area \in {"compose", "http-handlers", "actors"} -> {"readiness-probe"}
      [] area = "validator-logic"                        -> {"happy-path", "invalid-payload"}
      [] area = "config-lifecycle"                       -> {"config-lifecycle"}
      [] OTHER                                           -> {}

\* find_nearby_tests: the areas of the tests beside the changed files.
TestedAreas(index, changed) ==
    {FirstArea(f.path) : f \in {f \in ToSet(index) : f.test /\ \E c \in changed : Len(c) > 1
                                                        /\ DirOf(f.path) = DirOf(c)}}

\* find_coverage_gaps: [area, tests, scenario] of the areas that lack one.
CoverageGaps(index, areas, changed) ==
    LET tested == {a \in areas : \/ a \in TestedAreas(index, changed)
                                 \/ \E f \in ToSet(index), d \in Patterns(a) :
                                       f.test /\ IsPrefix(d, DirOf(f.path))}
    IN  {[area |-> a, tests |-> a \in tested, scenario |-> TddScenarios(a) # {}] :
            a \in {a \in areas : a \notin tested \/ TddScenarios(a) = {}}}

\* analyze.
Tdd(index, changed) ==
    LET areas     == UNION {AreasOf(c) : c \in changed}
        scenarios == UNION {TddScenarios(a) : a \in areas}
        checks    == {CommandOf(d) : d \in UNION {TddDimensions(a) : a \in areas}}
        before    == checks \cup {<<"scenario-smoke", s>> : s \in scenarios}
    IN  [areas      |-> areas,
         gaps       |-> CoverageGaps(index, areas, changed),
         scenarios  |-> scenarios,
         needsInfra |-> scenarios # {},
         profile    |-> IF scenarios # {} THEN "deep" ELSE "fast",
         before     |-> before,
         after      |-> before \cup {<<"verify">>}]

-----------------------------------------------------------------------------
(* recommend *)

\* classify_change_scope.
ScopeArea(path) ==
    LET layers == {l \in ToSet(LayerNames) : Within(<<"internal", l>>, DirOf(path))} IN
    CASE layers # {} -> CHOOSE l \in layers : TRUE
      [] layers = {} /\ Contains(DirOf(path), "deploy") -> "deploy"
      [] layers = {} /\ ~Contains(DirOf(path), "deploy") ->
            IF Contains(DirOf(path), "tools") THEN "tools" ELSE "other"

ChangeScope(changed) ==
    LET n == Cardinality({ScopeArea(c) : c \in changed}) IN
    CASE changed = {} -> "none"
      [] Cardinality(changed) = 1 -> "single-file"
      [] Cardinality(changed) > 1 /\ (Cardinality(changed) > 15 \/ n >= 4) -> "large"
      [] Cardinality(changed) \in 2..15 /\ n \in 2..3 -> "cross-layer"
      [] OTHER -> "localized"

\* The drift findings that count: DriftContext keeps the others as information.
Grave(findings) == {f \in findings : f.severity \in {"critical", "warning"}}

\* The scenarios of the areas, of the drift and of a large change.
RecommendedScenarios(tdd, findings, scope) ==
    LET Class(names) == \E f \in Grave(findings) : f.class \in names IN
    tdd.scenarios
    \cup (IF Class({"contract-surface", "contract-proliferation"}) THEN {"happy-path"} ELSE {})
    \cup (IF Class({"interface-breaking", "type-breaking"}) THEN {"invalid-payload"} ELSE {})
    \cup (IF \E f \in findings : f.severity = "critical" THEN {"readiness-probe"} ELSE {})
    \cup (IF scope = "large" THEN {"happy-path", "readiness-probe"} ELSE {})

\* Mutant: the scope of the change is looked at first.
ScopeFirst(tdd, findings, scope, scenarios) ==
    CASE scope \in {"large", "cross-layer"} -> "ci"
      [] scope \notin {"large", "cross-layer"} /\ scenarios # {} -> "deep"
      [] OTHER -> "fast"

\* determine_gate_profile.
GateProfile(tdd, findings, scope, scenarios) ==
    LET critical == \E f \in findings : f.severity = "critical" IN
    CASE tdd.needsInfra \/ critical -> "deep"
      [] ~(tdd.needsInfra \/ critical) /\ scope \in {"large", "cross-layer"} -> "ci"
      [] ~(tdd.needsInfra \/ critical) /\ scope \notin {"large", "cross-layer"} ->
            IF scenarios # {} THEN "deep" ELSE "fast"

\* build_report.  findings is empty without a baseline, and for one that cannot
\* be read.
Recommend(index, changed, findings) ==
    LET tdd       == Tdd(index, changed)
        impact    == ImpactMap(index, changed)
        scope     == ChangeScope(changed)
        scenarios == RecommendedScenarios(tdd, findings, scope)
    IN  [scope     |-> scope,
         scenarios |-> scenarios,
         profile   |-> GateProfile(tdd, findings, scope, scenarios),
         before    |-> tdd.before,
         after     |-> tdd.after,
         actions   |-> {<<"close-gap", g.area>> : g \in tdd.gaps}
                       \cup (IF DriftVerdict(findings) = "drifted" THEN {<<"new-baseline">>} ELSE {})
                       \cup (IF scope = "cross-layer" THEN {<<"arch-guard">>} ELSE {})
                       \cup (IF \E i \in impact.impacts : i.contracts # {}
                             THEN {<<"contract-audit">>} ELSE {}),
         risks     |-> (UNION {i.risks : i \in impact.impacts})
                       \cup {<<f.class, f.severity>> : f \in Grave(findings)}]

=============================================================================
