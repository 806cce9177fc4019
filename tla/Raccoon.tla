------------------------------- MODULE Raccoon -------------------------------
(***************************************************************************)
(* raccoon-cli (src/tools/raccoon-cli/src/main.rs): one command line is    *)
(* run on a working tree and ends with an exit code, 0 when what it        *)
(* checked is well, 1 when it is not, 2 when it could not tell.            *)
(*                                                                         *)
(* The structural checks, the snapshots and the recommendations are        *)
(* functions of the tree, which no command changes; the smoke tests meet a *)
(* running cluster, the bridge a child process, trace-pack the disk.       *)
(***************************************************************************)
EXTENDS Gate, Smoke, Gopls, TracePack, Contracts, RuntimeBindings, DriftDetect,
        ArchGuard, RenameSafety, ContractUsage

CONSTANT CommandLines   \* the command lines: a command, the project it is run on,
                        \* and its options [profile, failFast, compress, test,
                        \* baseline, changed, symbol, newName]

\* What clap parses these options to, and Scenario::parse the name of a test.
ASSUME CommandLinesAssumption ==
    \A l \in CommandLines :
        /\ l.profile \in Profiles /\ l.failFast \in BOOLEAN /\ l.compress \in BOOLEAN
        /\ l.command = "smoke" => l.test \in Scenarios \cup {"runtime-smoke"}
        /\ l.command = "rename-safety" => l.symbol \in Seq(STRING) \ {None}

\* A deploy directory holds finitely many configurations, each with finitely
\* many brokers.
ASSUME DeploymentsAreFinite ==
    \A l \in CommandLines :
        LET configs == l.project.configs IN
        /\ IsFiniteSet(DOMAIN configs)
        /\ \A s \in DOMAIN configs : IsFiniteSet(configs[s].brokers)

\* A Go file is lines that say what the parser looks at, and Go has no
\* declaration among the members of a type.
GoLines == [at : STRING, name : {None} \cup Seq(STRING), exported : BOOLEAN,
            words : SUBSET Seq(STRING), shape : STRING, path : {None} \cup Seq(STRING),
            alias : {None} \cup STRING, value : {None} \cup STRING, braces : Int,
            receiver : {None} \cup [type : Seq(STRING)], closed : BOOLEAN,
            params : Seq(SUBSET Seq(STRING)), returns : Seq(SUBSET Seq(STRING))]

ASSUME SourcesAreGo ==
    \A l \in CommandLines : LET files == l.project.gofiles IN
        /\ files \in Seq([path : Seq(STRING), test : BOOLEAN, package : STRING, lines : Seq(GoLines)])
        /\ \A i \in DOMAIN files : LET lines == files[i].lines IN
              \A n \in DOMAIN lines :
                  TypesParsed(lines)[n - 1].body /\ lines[n].name # None => lines[n].at \in {"", "}"}

VARIABLES line,         \* the command line of this process
          exit          \* its exit code, None while it runs

raccoonVars == <<line, exit, tree, gate, smoke, cluster, bridge, gopls, pack, disk>>

\* The analyzers that give up on a tree with what they cannot read: both readers
\* of parse_all_configs, and contract-audit with its Go files.
GivingUp(p) ==
    {s \in {"topology-doctor", "drift-detect"} : "configs" \in p.entries \cap p.unreadable}
    \cup {s \in {"contract-audit"} : "internal" \in p.entries /\ "contracts" \in p.unreadable}

\* The six analyzers the gate runs, and what each returns on a tree.
Results(p) ==
    [s \in StaticStepNames |->
        IF s \in GivingUp(p) THEN Failed
        ELSE Ok(CASE s = "doctor"           -> DoctorReport(p)
                  [] s = "topology-doctor"  -> TopologyReport(p)
                  [] s = "contract-audit"   -> ContractReport(p)
                  [] s = "runtime-bindings" -> BindingsReport(p)
                  [] s = "arch-guard"       -> ArchReport(p)
                  [] s = "drift-detect"     -> DriftReport(p))]

\* What a check found is counted: errors and warnings are numbers.
ASSUME FindingsAreCounted ==
    \A l \in CommandLines :
        LET results == Results(l.project) IN
        \A s \in StaticStepNames : \A c \in ToSet(results[s].report.checks) :
            c.errors \in Nat /\ c.warnings \in Nat

\* An index, of the project or of the baseline, holds files by their positions,
\* with finitely many imports, and a path is a sequence of names.
ASSUME IndexesAreFinite ==
    \A l \in CommandLines : \A p \in {l.project} \cup ({l.baseline} \ {None}) :
        LET index == IndexFiles(p.gofiles) IN
        /\ IsFiniteSet(DOMAIN index) /\ DOMAIN index \subseteq Nat
        /\ \A i \in DOMAIN index :
              /\ index[i].path \in Seq(STRING) /\ IsFiniteSet(index[i].imports)
              /\ \A m \in index[i].imports : m.path \in Seq(STRING)

\* What recommend is given are files; impact-map, whose targets may be symbols
\* too, would take one named like a declaration for that declaration.
ASSUME FilesAreNotSymbols ==
    \A l \in CommandLines : l.command = "recommend" =>
        \A f \in ToSet(IndexFiles(l.project.gofiles)) :
            /\ \A t \in f.types : <<t.name>> \notin l.changed
            /\ \A g \in f.functions : <<g.name>> \notin l.changed

\* The commands that read the tree and print, whatever they find.
Advisors == {"recommend", "tdd", "impact-map", "snapshot", "snapshot-diff",
             "symbol-trace", "rename-safety", "contract-usage-map"}

\* The commands that hold a bridge; all but the first shut it down themselves.
BridgeCommands == {"lsp-enrich", "impact-map --lsp", "symbol-trace --lsp", "rename-safety --lsp"}

RaccoonInit ==
    /\ line \in CommandLines
    /\ exit = None
    /\ tree = Results(line.project)
    /\ GateInit /\ SmokeInit /\ GoplsInit /\ PackInit

-----------------------------------------------------------------------------
(* main *)

Runs(commands) == exit = None /\ line.command \in commands

ExitOf(result) ==
    IF result.error THEN 2 ELSE IF result.report.passed THEN 0 ELSE 1

EndsWith(code) ==
    /\ exit' = code
    /\ UNCHANGED <<line, tree, gate, smoke, cluster, bridge, gopls, pack, disk>>

\* The commands whose report is a Report.
StaticCommand ==
    \/ Runs(StaticStepNames) /\ EndsWith(ExitOf(tree[line.command]))
    \/ Runs({"coverage-map"}) /\ EndsWith(ExitOf(Ok(CoverageReport(line.project))))

\* The snapshot a baseline file holds: None when it is missing or broken.
BaselineOf(l) == IF l.baseline = None THEN None
                 ELSE Snapshot(IndexFiles(l.baseline.gofiles), l.baseline.version)

DriftOf(l) == BaselineDrift(BaselineOf(l), Snapshot(IndexFiles(l.project.gofiles), 1))

\* baseline-drift: only a drifted verdict is a failure.
DriftCommand ==
    /\ Runs({"baseline-drift"})
    /\ EndsWith(IF DriftOf(line).error THEN 2
                ELSE IF DriftOf(line).verdict = "drifted" THEN 1 ELSE 0)

\* snapshot-diff cannot do without two snapshots of one version; the others
\* always print something.
AdvisorCommand ==
    /\ Runs(Advisors)
    /\ EndsWith(IF line.command = "snapshot-diff" /\ DriftOf(line).error THEN 2 ELSE 0)

\* What recommend prints: a baseline that cannot be read is ignored.
Recommended(l) == Recommend(IndexFiles(l.project.gofiles), l.changed, DriftOf(l).findings)

-----------------------------------------------------------------------------
(* The commands of several steps *)

StartGateCommand ==
    /\ Runs({"quality-gate"})
    /\ StartGate(line.profile, line.failFast)
    /\ UNCHANGED <<line, exit, smokeVars, goplsVars, packVars>>

GateStep ==
    /\ Runs({"quality-gate"})
    /\ RunStatic \/ SkipStep
    /\ UNCHANGED <<line, exit, smokeVars, goplsVars, packVars>>

\* The gate runs the smoke test in the middle of its own run.
GateStartsSmoke ==
    /\ Runs({"quality-gate"})
    /\ BeginGateSmoke
    /\ StartSmoke("runtime-smoke")
    /\ UNCHANGED <<line, exit, goplsVars, packVars>>

GateEndsSmoke ==
    /\ Runs({"quality-gate"})
    /\ SmokeDone
    /\ EndGateSmoke(Ok(SmokeReport))
    /\ UNCHANGED <<line, exit, smokeVars, goplsVars, packVars>>

EndGateCommand ==
    /\ Runs({"quality-gate"}) /\ GateDone
    /\ EndsWith(IF GatePassed THEN 0 ELSE 1)

StartSmokeCommand ==
    /\ Runs({"smoke"})
    /\ StartSmoke(line.test)
    /\ UNCHANGED <<line, exit, gateVars, goplsVars, packVars>>

SmokeStep ==
    /\ Runs({"smoke", "quality-gate"})
    /\ StageRuns \/ ClusterMoves
    /\ UNCHANGED <<line, exit, gateVars, goplsVars, packVars>>

EndSmokeCommand ==
    /\ Runs({"smoke"}) /\ SmokeDone
    /\ EndsWith(ExitOf(Ok(SmokeReport)))

PackCommand ==
    /\ Runs({"trace-pack"})
    /\ StartPack(line.compress) \/ PackSteps
    /\ UNCHANGED <<line, exit, gateVars, smokeVars, goplsVars>>

EndPackCommand ==
    /\ Runs({"trace-pack"}) /\ pack.at \in {"done", "failed"}
    /\ EndsWith(IF pack.at = "done" THEN 0 ELSE 2)

BridgeCommand ==
    /\ Runs(BridgeCommands)
    /\ \/ StartBridge(line.command # "lsp-enrich")
       \/ BridgeSteps
       \/ GoplsSteps
    /\ UNCHANGED <<line, exit, gateVars, smokeVars, packVars>>

EndBridgeCommand == Runs(BridgeCommands) /\ BridgeDone /\ EndsWith(0)

RaccoonNext ==
    \/ StaticCommand \/ DriftCommand \/ AdvisorCommand
    \/ StartGateCommand \/ GateStep \/ GateStartsSmoke \/ GateEndsSmoke \/ EndGateCommand
    \/ StartSmokeCommand \/ SmokeStep \/ EndSmokeCommand
    \/ PackCommand \/ EndPackCommand
    \/ BridgeCommand \/ EndBridgeCommand

\* The program goes on with its own next step, and a child that was asked
\* something answers, and exits when it is told to.
RaccoonSpec ==
    /\ RaccoonInit
    /\ [][RaccoonNext]_raccoonVars
    /\ WF_raccoonVars(BridgeSteps /\ UNCHANGED <<line, exit, gateVars, smokeVars, packVars>>)
    /\ WF_raccoonVars(GoplsAnswers /\ UNCHANGED <<line, exit, gateVars, smokeVars, packVars>>)
    /\ WF_raccoonVars(GoplsExits /\ UNCHANGED <<line, exit, gateVars, smokeVars, packVars>>)

-----------------------------------------------------------------------------
(* Properties *)

\* A tree the ci gate lets through is wired: what the emulator publishes is
\* read by the consumer from the same broker, at the port compose opens (the
\* default one when it names none), and what the consumer publishes reaches the
\* validator over the same NATS, on the stream its durable is bound to.  No
\* single check says so: configurations, compose file and source are compared
\* two by two (topology.rs, drift_detect.rs).
GreenIsWired ==
    Runs({"quality-gate"}) /\ GateDone /\ gate.profile = "ci" /\ GatePassed =>
        LET p        == line.project
            configs  == ParsedConfigs(p)
            services == ParseCompose(p.compose)
            st       == ScanSource(p.source)
        IN  /\ configs["emulator"].brokers = configs["consumer"].brokers
            /\ \A b \in configs["consumer"].brokers :
                  b[2] \in {None, IF services["kafka"].port # None
                                  THEN services["kafka"].port ELSE "9092"}
            /\ configs["consumer"].nats = configs["validator"].nats
            /\ {"kafka", "nats"} \subseteq services["consumer"].deps
            /\ st.durables["validator-dataplane-v1"] = "DATA_PLANE_INGESTION"
            /\ "DATA_PLANE_INGESTION" \in DOMAIN st.streams

\* How far out a layer is: it may only reach layers further in.
Depth == [domain |-> 0, application |-> 1, adapters |-> 2, interfaces |-> 2, actors |-> 3]

\* Code of a layer never reaches, through any chain of imports among the
\* layers, a layer that is further out, when arch-guard finds no error: it only
\* looks at one import at a time (arch_guard.rs check_layer_deps).
LayersHold ==
    Runs({"arch-guard"}) /\ tree["arch-guard"].report.passed =>
        LET index == IndexFiles(line.project.gofiles) IN
        \A i \in Code(index) :
            LET from == LayerAt(DirOf(index[i].path)) IN
            from \in Layers =>
                \A d \in ReachableFrom(index, DirOf(index[i].path)) :
                    LET to == LayerAt(d) IN to = from \/ Depth[to] < Depth[from]

\* What code relies on does not disappear unnoticed: when the drift from a
\* baseline is not a failure, every exported contract is still there, and every
\* method of an interface, unless two packages of one name declare it (the
\* sections of a snapshot tell packages apart by name only, snapshot.rs); and
\* snapshot-diff infers no broken interface or type from the same snapshots.
DriftSeesLosses ==
    line.command = "baseline-drift" /\ exit = 0 =>
        LET before == IndexFiles(line.baseline.gofiles)
            after  == IndexFiles(line.project.gofiles)
            Declared(index) == UNION {{<<i, t>> : t \in index[i].types} : i \in Code(index)}
            Contract(x) == x[2].exported /\ ContractFamily(x[2].name) # None
            Methods(index, x) == {<<index[x[1]].package, x[2].name, m.name>> :
                                     m \in {m \in x[2].members : ~m.embedded}}
            Twice(index, x) == \E y \in Declared(index) :
                                  y # x /\ y[2].name = x[2].name
                                  /\ index[y[1]].package = index[x[1]].package
        IN  /\ {x[2].name : x \in {x \in Declared(before) : Contract(x)}}
                  \subseteq {x[2].name : x \in {x \in Declared(after) : Contract(x)}}
            /\ UNION {Methods(before, x) : x \in {x \in Declared(before) :
                          x[2].kind = "interface" /\ ~Twice(before, x)}}
                  \subseteq UNION {Methods(after, x) : x \in Declared(after)}
            /\ LET b == Snapshot(before, 1)  a == Snapshot(after, 1) IN
               Inferences(DiffSnapshots(b, a), b, a)
                  \cap {<<"breaking-interface", "warning">>, <<"breaking-type", "warning">>} = {}

\* The four tables of the sensitive areas agree: what impact-map and
\* coverage-map ask for after a change, tdd and recommend ask for too, and the
\* gate recommend chooses runs the smoke test when a scenario is among its
\* commands (impact_map.rs, coverage_map.rs, tdd.rs, recommend.rs).
GuidanceAgrees ==
    Runs({"recommend"}) =>
        LET advice == Recommended(line)
            impact == ImpactMap(IndexFiles(line.project.gofiles), line.changed)
        IN  /\ impact.commands \ {<<"quality-gate">>} \subseteq advice.after
            /\ \A c \in line.changed : RequiredCommands(c) \subseteq advice.after
            /\ (\E s \in Scenarios : <<"scenario-smoke", s>> \in advice.after)
                  => IncludesRuntime(advice.profile)

\* The files of a project after a symbol was renamed: where it is declared, or
\* embedded, and wherever a type expression names it.
RenamedName(name, symbol, newName) == IF name = symbol THEN newName ELSE name

RenamedExpr(expr, symbol, newName) == {RenamedName(n, symbol, newName) : n \in expr}

NamesMember(l) == l.at = "" /\ (l.words # {} \/ l.shape = "(")

RenamedLine(l, symbol, newName) ==
    LET In(exprs) == [i \in DOMAIN exprs |-> RenamedExpr(exprs[i], symbol, newName)]
    IN  [l EXCEPT !.name     = IF NamesMember(l) THEN @ ELSE RenamedName(@, symbol, newName),
                  !.words    = RenamedExpr(@, symbol, newName),
                  !.params   = In(@),
                  !.returns  = In(@),
                  !.receiver = IF @ = None THEN None
                               ELSE [type |-> RenamedName(@.type, symbol, newName)]]

RenamedLines(lines, symbol, newName) ==
    [j \in DOMAIN lines |-> RenamedLine(lines[j], symbol, newName)]

RenamedFiles(files, symbol, newName) ==
    [i \in DOMAIN files |-> [files[i] EXCEPT !.lines = RenamedLines(@, symbol, newName)]]

\* Three analyzers walk the index for the uses of a type, each in its own way.
\* Every type, interface and function that baseline-drift finds changed once a
\* symbol is renamed is in a package rename-safety said the rename affects; and
\* a contract the usage map calls an orphan is found by rename-safety in tests,
\* aliases, variables, its own methods and types of its own name at most
\* (snapshot.rs, rename_safety.rs, contract_usage_map.rs).
NavigationAgrees ==
    Runs({"rename-safety"}) =>
        LET index   == IndexFiles(line.project.gofiles)
            report  == CheckRename(index, line.symbol, line.newName)
            renamed == IndexFiles(RenamedFiles(line.project.gofiles, line.symbol, line.newName))
            drift   == BaselineDrift(Snapshot(index, 1), Snapshot(renamed, 1))
            tests   == {f.path : f \in {f \in ToSet(index) : f.test}}
        IN  /\ \A d \in drift.findings :
                  d.class \in {"type-breaking", "interface-breaking", "api-signature"}
                     => d.about[1] \in report.packages
            /\ line.symbol \in UsageMap(index).areas.orphans =>
                  \A r \in report.references :
                     \/ r.path \in tests
                     \/ r.kind \in {"alias", "var", "receiver"}
                     \/ r.line[1] = line.symbol

\* "New import from domain to adapters: isolation loss" (baseline_drift.rs): a
\* directory of the domain or the application that imports infrastructure it
\* did not import before is a drift.
IsolationLossReported ==
    line.command = "baseline-drift" /\ exit = 0 =>
        LET before == IndexFiles(line.baseline.gofiles)
            after  == IndexFiles(line.project.gofiles)
            Reaches(index) == {u \in Uses(index) : /\ DetectLayer(u[1]) \in {"domain", "application"}
                                                   /\ DetectLayer(u[2]) \in Infrastructure}
        IN  Reaches(after) \subseteq Reaches(before)

=============================================================================
