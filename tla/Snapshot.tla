------------------------------ MODULE Snapshot ------------------------------
(***************************************************************************)
(* Structural memory (analyzers/snapshot.rs, snapshot_diff.rs and          *)
(* baseline_drift.rs): a snapshot of the index, the difference of two      *)
(* snapshots section by section, and the drift of a project from a         *)
(* baseline saved before.                                                  *)
(*                                                                         *)
(* A section is a set of entries [at, key, data]: at is the position of    *)
(* the file the entry comes from, key what the difference matches entries  *)
(* by, and data what it compares.                                          *)
(***************************************************************************)
EXTENDS CodeIntel, SequencesExt

-----------------------------------------------------------------------------
(* Generating a snapshot *)

\* The layers in the order detect_layer tries them.
LayerNames == <<"domain", "application", "adapters", "actors", "interfaces">>

Infrastructure == {"adapters", "actors", "interfaces"}

\* path.contains: one path within another.
Within(inner, path) == inner \in SubSeqs(path)

\* detect_layer.
DetectLayer(dir) ==
    LET named == {l \in ToSet(LayerNames) : Within(<<"internal", l>>, dir)} IN
    CASE named # {} -> CHOOSE l \in named : TRUE
      [] named = {} /\ dir # << >> /\ dir[1] \in {"cmd", "tools"} -> dir[1]
      [] named = {} /\ (dir = << >> \/ dir[1] \notin {"cmd", "tools"}) ->
            IF Contains(dir, "shared") THEN "shared" ELSE None

\* CONTRACT_SUFFIXES and detect_contract_family, on the words of a name.
ContractFamily(name) ==
    LET family == [Command |-> "command", Query |-> "query", Reply |-> "reply",
                   Event |-> "event", Envelope |-> "envelope", Record |-> "record",
                   Binding |-> "binding", Gateway |-> "port", Repository |-> "port",
                   Port |-> "port", Service |-> "port"]
    IN  IF Len(name) > 1 /\ name[Len(name)] \in DOMAIN family
        THEN family[name[Len(name)]] ELSE None

\* The positions of the files that are not tests.
Code(index) == {i \in DOMAIN index : ~index[i].test}

\* build_packages, build_imports: which directories import a path.
PackageEntries(index) ==
    {[at |-> 0, key |-> g.dir, data |-> <<g.name, g.files>>] : g \in Packages(index)}

ImportEntries(index) ==
    LET imports == UNION {index[i].imports : i \in DOMAIN index}
    IN  {[at |-> 0, key |-> m.path,
          data |-> [kind  |-> m.kind,
                    users |-> {DirOf(index[i].path) : i \in {i \in DOMAIN index :
                                  \E n \in index[i].imports : n.path = m.path}}]] :
            m \in imports}

\* build_types: members of structs only.
TypeEntries(index) ==
    UNION {{[at |-> i, key |-> <<index[i].package, t.name>>,
             data |-> [kind |-> t.kind, exported |-> t.exported,
                       fields |-> IF t.kind = "struct"
                                  THEN {<<m.name, m.words>> : m \in t.members} ELSE {}]] :
              t \in index[i].types} : i \in Code(index)}

\* build_functions and func_entry: exported functions only.
FunctionEntries(index) ==
    UNION {{[at |-> i, key |-> <<index[i].package, f.receiver, f.name>>,
             data |-> <<f.params, f.returns>>] :
              f \in {f \in index[i].functions : f.exported}} : i \in Code(index)}

\* build_constants.
ConstantEntries(index) ==
    UNION {{[at |-> i, key |-> <<index[i].package, c.name>>, data |-> <<c.value, c.type>>] :
              c \in {c \in index[i].constants : c.exported}} : i \in Code(index)}

\* build_interfaces.
InterfaceEntries(index) ==
    UNION {{[at |-> i, key |-> <<index[i].package, t.name>>,
             data |-> [methods |-> {m.name : m \in {m \in t.members : ~m.embedded}},
                       embeds  |-> {m.name : m \in {m \in t.members : m.embedded}}]] :
              t \in {t \in index[i].types : t.kind = "interface"}} : i \in Code(index)}

\* build_arch_layers.
LayerEntries(index) ==
    {[at |-> 0, key |-> g.dir, data |-> DetectLayer(g.dir)] :
        g \in {g \in Packages(index) : DetectLayer(g.dir) # None}}

\* build_contracts.
ContractEntries(index) ==
    UNION {{[at |-> i, key |-> t.name, data |-> ContractFamily(t.name)] :
              t \in {t \in index[i].types : t.exported /\ ContractFamily(t.name) # None}} :
           i \in Code(index)}

\* build_snapshot_from_index.  The time and the root are left out.
Snapshot(index, version) ==
    [version  |-> version,
     sections |-> [packages   |-> PackageEntries(index),   imports   |-> ImportEntries(index),
                   types      |-> TypeEntries(index),      functions |-> FunctionEntries(index),
                   constants  |-> ConstantEntries(index),  interfaces |-> InterfaceEntries(index),
                   layers     |-> LayerEntries(index),     contracts |-> ContractEntries(index)],
     stats    |-> Stats(index)]

-----------------------------------------------------------------------------
(* Comparing two snapshots *)

\* Collecting the entries of a section in a map: the last one of a key stays.
MapOf(entries) ==
    LET Newest(k) == {e \in entries : e.key = k /\ \A o \in entries : o.key = k => o.at <= e.at}
    IN  [k \in {e.key : e \in entries} |-> (CHOOSE e \in Newest(k) : TRUE).data]

\* Mutant: what is gone is not reported.
AddedOnly(before, after) ==
    LET b == MapOf(before)  a == MapOf(after)
    IN  [before |-> b, after |-> a,
         added |-> DOMAIN a \ DOMAIN b, removed |-> {},
         modified |-> {k \in DOMAIN a \cap DOMAIN b : a[k] # b[k]}]

\* The diff_* functions: entries are matched by key and compared by data.
DiffSection(before, after) ==
    LET b == MapOf(before)  a == MapOf(after)
    IN  [before   |-> b,
         after    |-> a,
         added    |-> DOMAIN a \ DOMAIN b,
         removed  |-> DOMAIN b \ DOMAIN a,
         modified |-> {k \in DOMAIN a \cap DOMAIN b : a[k] # b[k]}]

TotalChanges(d) == Cardinality(d.added) + Cardinality(d.removed) + Cardinality(d.modified)

\* diff: only snapshots of one format version are compared.
Comparable(before, after) == before.version = after.version

DiffSnapshots(before, after) ==
    [s \in DOMAIN before.sections |-> DiffSection(before.sections[s], after.sections[s])]

FieldNames(data) == {f[1] : f \in data.fields}

\* A field kept under its name with another type (fields_type_changed).
Retyped(b, a) == {f \in b.fields : f[1] \in FieldNames(a) /\ f \notin a.fields}

Distance(before, after, stat) ==
    LET b == before.stats[stat]  a == after.stats[stat]
    IN  IF a > b THEN a - b ELSE b - a

\* derive_inferences: their categories and severities.
Inferences(d, before, after) ==
    LET c == d.contracts  i == d.interfaces  l == d.layers  t == d.types
        Some(found, category, severity) == IF found THEN {<<category, severity>>} ELSE {}
        Severity(bad) == IF bad THEN "warning" ELSE "info"
    IN  Some(TotalChanges(c) > 0, "contract-surface", Severity(c.removed # {}))
        \cup Some(\/ i.removed # {}
                  \/ \E k \in i.modified : i.before[k].methods \ i.after[k].methods # {},
                  "breaking-interface", "warning")
        \cup Some(\E k \in i.modified : i.after[k].methods \ i.before[k].methods # {},
                  "interface-expansion", "info")
        \cup Some(TotalChanges(l) > 0, "architecture-boundary",
                  Severity(l.removed # {} \/ l.modified # {}))
        \cup Some(\E k \in t.modified : FieldNames(t.before[k]) \ FieldNames(t.after[k]) # {},
                  "breaking-type", "warning")
        \cup Some(\E k \in t.modified : Retyped(t.before[k], t.after[k]) # {},
                  "type-migration", "warning")
        \cup Some(d.functions.modified # {}, "api-change", "warning")
        \cup Some(Distance(before, after, "types") > 10, "scale", "info")
        \cup Some(Distance(before, after, "lines") > 500, "scale", "info")

-----------------------------------------------------------------------------
(* Drift from a baseline: findings are [class, severity, about]. *)

Finding(class, severity, about) == [class |-> class, severity |-> severity, about |-> about]

\* collect_contract_surface_drift.
ContractDrift(d) ==
    {Finding("contract-surface", "critical", k) : k \in d.removed}
    \cup {Finding("contract-surface", "warning", k) : k \in d.modified}
    \cup {Finding("contract-surface", "info", None) : k \in d.added}

\* collect_interface_drift.
InterfaceDrift(d) ==
    LET Lost(k) == d.before[k].methods \ d.after[k].methods
        New(k)  == d.after[k].methods \ d.before[k].methods
    IN  {Finding("interface-breaking", "critical", k) :
            k \in d.removed \cup {k \in d.modified : Lost(k) # {}}}
        \cup {Finding("interface-expansion", "warning", k) :
            k \in {k \in d.modified : New(k) # {}}}

\* collect_layer_boundary_drift.
LayerDrift(d) ==
    {Finding("layer-boundary", "warning", k) : k \in d.removed}
    \cup {Finding("layer-boundary", "critical", k) : k \in d.modified}
    \cup {Finding("layer-boundary", "info", None) : k \in d.added}

\* collect_type_breaking_drift: a new field or a new visibility breaks nothing.
TypeDrift(d) ==
    LET Lost(k)   == \/ FieldNames(d.before[k]) \ FieldNames(d.after[k]) # {}
                     \/ d.before[k].kind # d.after[k].kind
        Broken(k) == Lost(k) \/ Retyped(d.before[k], d.after[k]) # {}
    IN  {Finding("type-breaking", "warning", k) : k \in d.removed}
        \cup {Finding("type-breaking", IF Lost(k) THEN "critical" ELSE "warning", k) :
                k \in {k \in d.modified : Broken(k)}}

\* collect_api_signature_drift.
SignatureDrift(d) ==
    {Finding("api-signature", "warning", k) : k \in d.modified \cup d.removed}

\* layer_map, find_layer_for_dir and find_layer_for_path.
LayerOfDir(dir, layers) ==
    LET above == {k \in DOMAIN layers : IsPrefix(k, dir)}
    IN  CASE dir \in DOMAIN layers -> layers[dir]
          [] dir \notin DOMAIN layers /\ above # {} -> layers[CHOOSE k \in above : TRUE]
          [] OTHER -> None

LayerOfPath(path, layers) ==
    LET inside == {k \in DOMAIN layers : Within(k, path)}
    IN  IF inside = {} THEN None ELSE layers[CHOOSE k \in inside : TRUE]

\* The imports a project gained: who imports what from which layer into which.
\* Only paths nobody imported before are looked at.
NewImports(d, layers) ==
    UNION {{[user |-> u, from |-> LayerOfDir(u, layers),
             path |-> k, to |-> LayerOfPath(k, layers)] : u \in d.after[k].users} :
           k \in {k \in d.added : d.after[k].kind = "internal"}}

\* collect_coupling_increase.
CouplingIncrease(d, layers) ==
    LET crossing == {n \in NewImports(d, layers) : n.from # None /\ n.to # None /\ n.from # n.to}
        Internal(m) == {k \in DOMAIN m : m[k].kind = "internal"}
    IN  {Finding("coupling-increase", "warning", None) : n \in crossing}
        \cup {Finding("coupling-increase", "info", None) : n \in
                {n \in NewImports(d, layers) :
                    Cardinality(Internal(d.after)) > Cardinality(Internal(d.before)) + 5}}

\* collect_isolation_loss.
IsolationLoss(d, layers) ==
    {Finding("isolation-loss", "critical", None) :
        n \in {n \in NewImports(d, layers) : /\ n.to \in Infrastructure
                                             /\ n.from \in {"domain", "application"}}}

\* collect_contract_proliferation: three new contracts, one of them without a
\* method that validates it.
Proliferation(contracts, functions) ==
    LET checks == {k \in DOMAIN functions : /\ k[3][1] \in {"Validate", "Normalize", "Check"}
                                            /\ k[2] # None}
        validated == {k[2].type : k \in checks}
    IN  {Finding("contract-proliferation", "warning", None) :
            k \in {k \in contracts.added : Cardinality(contracts.added) >= 3
                                           /\ k \notin validated}}

\* collect_structural_scale_shift.
ScaleShift(before, after) ==
    {Finding("scale-shift", "info", s[1]) :
        s \in {s \in {<<"types", 10>>, <<"lines", 500>>, <<"packages", 3>>} :
                  Distance(before, after, s[1]) > s[2]}}

\* analyze_snapshots: its findings and its verdict.
DriftFindings(before, after) ==
    LET d == DiffSnapshots(before, after)
        layers == MapOf(after.sections.layers)
    IN  ContractDrift(d.contracts) \cup InterfaceDrift(d.interfaces)
        \cup LayerDrift(d.layers) \cup TypeDrift(d.types)
        \cup SignatureDrift(d.functions) \cup CouplingIncrease(d.imports, layers)
        \cup IsolationLoss(d.imports, layers)
        \cup Proliferation(d.contracts, MapOf(after.sections.functions))
        \cup ScaleShift(before, after)

DriftVerdict(findings) ==
    LET Some(severity) == \E f \in findings : f.severity = severity
    IN  CASE Some("critical") -> "drifted"
          [] ~Some("critical") /\ Some("warning") -> "mild"
          [] OTHER -> "clean"

\* analyze: a baseline that is missing, does not parse or has another version
\* is an error, not a drift.
BaselineDrift(baseline, project) ==
    IF baseline = None \/ ~Comparable(baseline, project)
    THEN [error |-> TRUE, verdict |-> None, findings |-> {}]
    ELSE LET findings == DriftFindings(baseline, project)
         IN  [error |-> FALSE, verdict |-> DriftVerdict(findings), findings |-> findings]

=============================================================================
