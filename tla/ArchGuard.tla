------------------------------ MODULE ArchGuard ------------------------------
(***************************************************************************)
(* arch-guard (analyzers/arch_guard.rs): the boundaries between the layers *)
(* of the Go source, read from the index.  A project p has gofiles, its    *)
(* Go files in the order of their paths, entries, and tools, what the      *)
(* files of tools/ say: "go.mod" for a Go module and "import" for a Rust   *)
(* line that uses the project's Go code.                                   *)
(***************************************************************************)
EXTENDS Snapshot, SequencesExt

\* LAYERS, and is_allowed_dependency: what each layer may import beside itself.
MayImport == [domain      |-> {},
              application |-> {"domain"},
              adapters    |-> {"domain", "application"},
              actors      |-> {"domain", "application", "adapters"},
              interfaces  |-> {"domain", "application"}]

Layers == DOMAIN MayImport

\* A file outside internal/ is in no layer.
ASSUME NoneIsNoLayer == None \notin Layers

\* Mutant: a layer may import what imports it.
EitherWay(from, to) ==
    from = to \/ to \in MayImport[from] \/ from \in MayImport[to]

Allowed(from, to) == from = to \/ to \in MayImport[from]

\* INFRA_PREFIXES: the packages the domain must not import.
InfraImports == {<<"github.com", "nats-io">>, <<"github.com", "segmentio", "kafka-go">>,
                 <<"github.com", "anthdm", "hollywood">>, <<"net", "http">>,
                 <<"database", "sql">>}

\* INFRA_TYPE_MARKERS, and the packages type_expr_refs_adapter looks for.
InfraWords   == {"nats", "kafka", "hollywood", "jetstream", "http", "sql",
                 "natsadapter", "kafkaadapter"}
AdapterWords == {"nats", "kafka", "natsadapter", "kafkaadapter", "repository"}

\* file_layer, extract_internal_layer: the name after internal/.
LayerOfFile(f) == IF Len(f.path) > 1 /\ f.path[1] = "internal" THEN f.path[2] ELSE None

ImportedLayer(m) ==
    LET i == SelectInSeq(m.path, LAMBDA n : n = "internal")
    IN  IF m.kind = "internal" /\ i > 0 /\ i < Len(m.path) THEN m.path[i + 1] ELSE None

\* The files under a directory that are not tests.
FilesUnder(index, dir) ==
    {f \in ToSet(index) : ~f.test /\ IsPrefix(dir, DirOf(f.path))}

\* A check of the files under a directory, skipped when there are none.
CheckFiles(name, files, errors, warnings) ==
    IF files = {} THEN SkipCheck(name) ELSE FindsAll(name, errors, warnings)

\* The imports of some files that a layer of their choice is imported by.
Imports(files, Bad(_, _)) ==
    UNION {{<<f.path, m.path>> : m \in {m \in f.imports : Bad(f, m)}} : f \in files}

-----------------------------------------------------------------------------
(* The checks *)

\* check_layer_deps: shared is exempt on both sides.
CheckLayerDeps(index) ==
    FindsAll("layer-dependency-direction",
        Imports(FilesUnder(index, <<"internal">>),
                LAMBDA f, m : /\ LayerOfFile(f) \in Layers
                              /\ ImportedLayer(m) \in Layers
                              /\ ~Allowed(LayerOfFile(f), ImportedLayer(m))), {})

CheckDomainPurity(index) ==
    LET files == FilesUnder(index, <<"internal", "domain">>)
    IN  CheckFiles("domain-purity", files,
            Imports(files, LAMBDA f, m : \E p \in InfraImports : IsPrefix(p, m.path)), {})

CheckApplicationIsolation(index) ==
    LET files == FilesUnder(index, <<"internal", "application">>)
    IN  CheckFiles("application-isolation", files,
            Imports(files, LAMBDA f, m : ImportedLayer(m) \in Infrastructure), {})

CheckInterfacesIsolation(index) ==
    LET files == FilesUnder(index, <<"internal", "interfaces">>)
    IN  CheckFiles("interfaces-isolation", files,
            Imports(files, LAMBDA f, m : ImportedLayer(m) \in {"adapters", "actors"}), {})

CheckCmdBoundary(index) ==
    LET files == FilesUnder(index, <<"cmd">>)
    IN  CheckFiles("cmd-boundary", files, {},
            Imports(files, LAMBDA f, m : ImportedLayer(m) = "domain")
            \cup {<<f.path>> : f \in {f \in files : Cardinality(f.types) > 5}})

CheckToolingBoundary(p) ==
    IF "tools" \notin p.entries THEN SkipCheck("tooling-boundary")
    ELSE FindsAll("tooling-boundary", p.tools \cap {"go.mod", "import"}, {})

\* check_no_cross_cmd_imports.
CheckNoCrossCmd(index) ==
    LET files    == FilesUnder(index, <<"cmd">>)
        programs == {f.path[2] : f \in files}
    IN  CheckFiles("no-cross-cmd", files,
            Imports(files, LAMBDA f, m : \E other \in programs \ {f.path[2]} :
                                            Within(<<"cmd", other>>, m.path)), {})

\* check_deploy_boundary reads the tests too.
CheckDeployBoundary(p) ==
    FindsAll("deploy-boundary", {},
        UNION {{<<f.path, i>> : i \in {i \in DOMAIN f.lines : f.lines[i].value = "deploy/"}} :
               f \in {f \in ToSet(p.gofiles) : f.path[1] = "internal"}})

\* check_port_contract_leaks: a method whose signature names infrastructure
\* and an adapter is reported twice.
CheckPortLeaks(index) ==
    LET files == FilesUnder(index, <<"internal", "application", "ports">>)
        methods == UNION {UNION {{<<t.name, m>> : m \in {m \in t.members : ~m.embedded}} :
                              t \in {t \in f.types : t.kind = "interface"}} : f \in files}
    IN  CheckFiles("port-contract-leaks", files,
            UNION {{<<x, words>> : words \in {w \in {InfraWords, AdapterWords} :
                                                  w \cap NameWords(x[2].words) # {}}} : x \in methods}, {})

CheckDomainTypes(index) ==
    LET files == FilesUnder(index, <<"internal", "domain">>)
    IN  CheckFiles("domain-type-contamination", files,
            UNION {UNION {{<<t.name, m>> : m \in {m \in t.members : NameWords(m.words) \cap InfraWords # {}}} :
                       t \in {t \in f.types : t.kind = "struct"}} : f \in files}, {})

\* check_exported_func_signatures: each parameter and each result by itself.
CheckExportedSignatures(index) ==
    LET files == FilesUnder(index, <<"internal", "domain">>)
                 \cup FilesUnder(index, <<"internal", "application">>)
        Leaks(g) == {<<g.name, x[1], x[2]>> : x \in
                        ({"in"} \X {i \in DOMAIN g.params : NameWords(g.params[i]) \cap InfraWords # {}})
                        \cup ({"out"} \X {i \in DOMAIN g.returns : NameWords(g.returns[i]) \cap InfraWords # {}})}
    IN  CheckFiles("exported-signature-leaks", files, {},
            UNION {UNION {Leaks(g) : g \in {g \in f.functions : g.exported}} : f \in files})

\* analyze.
ArchReport(p) ==
    LET index == IndexFiles(p.gofiles) IN
    IF "internal" \notin p.entries
    THEN ReportOf(<<FindsAll("setup", {"internal"}, {})>>)
    ELSE ReportOf(<<CheckLayerDeps(index), CheckDomainPurity(index),
                    CheckApplicationIsolation(index), CheckInterfacesIsolation(index),
                    CheckCmdBoundary(index), CheckToolingBoundary(p),
                    CheckNoCrossCmd(index), CheckDeployBoundary(p),
                    CheckPortLeaks(index), CheckDomainTypes(index),
                    CheckExportedSignatures(index)>>)

-----------------------------------------------------------------------------
(* What a passed report means *)

\* Who imports whom among the directories of the code.
Uses(index) ==
    UNION {{<<DirOf(index[i].path), Tail(m.path)>> :
              m \in {m \in index[i].imports : m.kind = "internal"}} : i \in Code(index)}

\* The layer a directory is in by where it is, as file_layer says of its files.
LayerAt(dir) == IF Len(dir) > 1 /\ dir[1] = "internal" THEN dir[2] ELSE None

\* What some directories import among those of the layers.
ImportedBy(index, dirs) ==
    {u[2] : u \in {u \in Uses(index) : u[1] \in dirs /\ LayerAt(u[2]) \in Layers}}

\* Following imports from a directory, at most as far as there are files.
ReachableFrom(index, dir) ==
    LET Further(dirs) == dirs \cup ImportedBy(index, dirs)
        seen[n \in Nat] == IF n = 0 THEN {dir} ELSE Further(seen[n - 1])
    IN  seen[Cardinality(DOMAIN index)]

=============================================================================
