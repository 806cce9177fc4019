---------------------------- MODULE ContractUsage ----------------------------
(***************************************************************************)
(* contract-usage-map (analyzers/contract_usage_map.rs): the contract      *)
(* types of the code by family, where each is built, passed on, consumed   *)
(* and validated, and how widely it is used.  A type is looked for as a    *)
(* part of a name: ConfigEvent is found in ConfigEventSpec too.            *)
(*                                                                         *)
(* A usage site is [role, line, package, path], its line as in Navigation. *)
(***************************************************************************)
EXTENDS Navigation, SequencesExt

\* str.contains: the type's words within those of a name of an expression.
NameContains(name, part) == Within(part, name)

ExprContains(expr, part) == \E name \in expr : NameContains(name, part)

Ends(name, words) == name[Len(name)] \in words

-----------------------------------------------------------------------------
(* Families *)

\* CONTRACT_FAMILIES in their order: the types that mark a family, and the
\* package whose types belong to it when their names look like contracts.
Families ==
    LET Verbed(verbs, what) == {v \o what : v \in verbs}
        Config(word) == <<"Config", word>>
    IN <<[name |-> "Envelope", types |-> {<<"Envelope">>}, package |-> <<"shared", "envelope">>],
         [name |-> "Event Metadata", types |-> {<<"Metadata">>, <<"Event">>},
          package |-> <<"shared", "events">>],
         [name |-> "Correlation ID", types |-> {}, package |-> <<"shared", "requestctx">>],
         [name |-> "Problem", types |-> {<<"Problem">>, <<"Problem", "Code">>, <<"Validation", "Issue">>},
          package |-> <<"shared", "problem">>],
         [name |-> "Configctl Commands",
          types |-> Verbed({<<"Create", "Draft">>, <<"Validate", "Draft">>}, <<"Command">>)
                    \cup Verbed({<<"Validate">>, <<"Compile">>, <<"Activate">>, <<"Deactivate">>,
                                 <<"Archive">>, <<"Reject">>}, Config("Command")),
          package |-> <<"application", "configctl", "contracts">>],
         [name |-> "Configctl Queries",
          types |-> {<<"Get">> \o Config("Query"), <<"List", "Configs", "Query">>,
                     <<"List", "Active", "Ingestion", "Bindings", "Query">>,
                     <<"Get", "Active">> \o Config("Query")},
          package |-> <<"application", "configctl", "contracts">>],
         [name |-> "Configctl Replies",
          types |-> Verbed({<<"Create", "Draft">>, <<"Validate", "Draft">>, <<"List", "Configs">>},
                           <<"Reply">>)
                    \cup Verbed({<<"Get">>, <<"Compile">>, <<"Activate">>}, Config("Reply")),
          package |-> <<"application", "configctl", "contracts">>],
         [name |-> "Configctl Records",
          types |-> Verbed({<<"Binding">>, <<"Field">>, <<"Rule">>, <<"Activation", "Scope">>,
                            <<"Activation">>, <<"Runtime", "Projection">>,
                            <<"Active", "Ingestion", "Binding">>, <<"Config", "Metadata">>,
                            <<"Compilation", "Artifact", "Summary">>,
                            <<"Compilation", "Artifact">>}, <<"Record">>)
                    \cup {Config("Version") \o <<w>> : w \in {"Summary", "Detail"}},
          package |-> <<"application", "configctl", "contracts">>],
         [name |-> "Domain Events",
          types |-> {<<"Draft", "Created", "Event">>, <<"Ingestion", "Runtime", "Changed", "Event">>}
                    \cup {Config(w) \o <<"Event">> :
                            w \in {"Validated", "Compiled", "Activated", "Deactivated",
                                   "Archived", "Rejected"}},
          package |-> <<"domain", "configctl">>],
         [name |-> "Domain Runtime",
          types |-> {<<"Compilation", "Artifact">>, <<"Activation", "Scope">>, <<"Activation">>,
                     <<"Runtime", "Projection">>, <<"Ingestion", "Runtime", "Projection">>,
                     <<"Binding">>, <<"Field">>, <<"Rule">>},
          package |-> <<"domain", "configctl">>],
         [name |-> "Data Plane",
          types |-> {<<"Message">>, <<"Origin", "Record">>, <<"Metadata", "Record">>,
                     <<"Routed", "Message">>},
          package |-> <<"application", "dataplane">>],
         [name |-> "Validator Results",
          types |-> {<<"Validation", w, "Record">> : w \in {"Result", "Binding", "Config"}}
                    \cup {<<"Violation", "Record">>}
                    \cup {<<"List", "Validation", "Results", w>> : w \in {"Query", "Reply"}},
          package |-> <<"application", "validatorresults">>],
         [name |-> "Runtime Contracts",
          types |-> {<<w, "Record">> : w \in {"Runtime", "Scope", "Config", "Artifact"}},
          package |-> <<"application", "runtimecontracts">>],
         [name |-> "Validator Runtime",
          types |-> {<<"Get", "Active", "Runtime", w>> : w \in {"Query", "Reply"}}
                    \cup {<<"Active", "Runtime", "Record">>},
          package |-> <<"application", "validatorruntime">>],
         [name |-> "NATS Registry",
          types |-> {<<w, "Spec">> : w \in {"Control", "Event", "Stream", "Consumer"}}
                    \cup {<<"Configctl", "Registry">>},
          package |-> <<"adapters", "nats">>],
         [name |-> "Kafka Message", types |-> {}, package |-> <<"adapters", "kafka">>],
         [name |-> "Actor Messages", types |-> {}, package |-> <<"actors", "scopes">>]>>

\* is_contract_like_name.
LooksLikeContract(name) ==
    \/ Ends(name, {"Command", "Query", "Reply", "Record", "Event", "Message", "Spec", "Registry",
                   "Binding", "Route", "Scope", "Projection", "Artifact", "Config", "Runtime",
                   "Envelope", "Problem", "Metadata", "Violation", "Status", "Diagnostic", "Issue"})
    \/ name \in {<<"Activation">>, <<"Field">>, <<"Rule">>, <<"Kind">>}
    \/ ToSet(name) \cap {"Spec", "Registry"} # {}

\* classify_type: the first family that claims the type.
FamilyOf(name, dir) ==
    LET i == SelectInSeq(Families, LAMBDA f : \/ name \in f.types
                                              \/ Within(f.package, dir) /\ LooksLikeContract(name))
    IN  IF i = 0 THEN None ELSE Families[i].name

\* discover_contracts: of two exported types of one name only the first counts.
Discovered(index) ==
    LET Claims(i, t) == ~index[i].test /\ t.exported /\ FamilyOf(t.name, DirOf(index[i].path)) # None
        First(i, t)  == \A j \in 1..i - 1 : \A o \in index[j].types : o.name = t.name => ~Claims(j, o)
    IN  UNION {{[name |-> t.name, family |-> FamilyOf(t.name, DirOf(index[i].path)),
                 path |-> index[i].path, package |-> index[i].package] :
                  t \in {t \in index[i].types : Claims(i, t) /\ First(i, t)}} : i \in DOMAIN index}

-----------------------------------------------------------------------------
(* Usage sites *)

\* is_constructor_name: any name that starts with New, Create or Make.
IsConstructor(g, name) ==
    \/ g.name[1] \in {"New", "Create", "Make"}
    \/ g.name = name
    \/ IsPrefix(<<"new">> \o name, g.name)

ASSUME NoneIsNoRole == None \notin {"construction", "propagation", "consumption", "validation"}

\* What a function does with a type: func_returns_type, func_takes_type, and
\* the conditions trace_contract_usage tries in turn.
FunctionRole(g, name) ==
    LET returns == \E i \in DOMAIN g.returns : ExprContains(g.returns[i], name)
        takes   == \E i \in DOMAIN g.params : ExprContains(g.params[i], name)
        onType  == g.receiver # None /\ NameContains(g.receiver.type, name)
        builds  == \/ IsConstructor(g, name)
                   \/ onType /\ g.name[1] = "With"
                   \/ ~onType /\ ~takes
    IN  CASE returns /\ builds  -> "construction"
          [] returns /\ ~builds -> "propagation"
          [] ~returns /\ takes  -> "consumption"
          [] OTHER              -> None

FunctionSites(f, name) ==
    {[role |-> FunctionRole(g, name), line |-> <<OwnerOf(g), g.name>>] :
        g \in {g \in f.functions : FunctionRole(g, name) # None}}
    \cup {[role |-> "validation", line |-> <<OwnerOf(g), g.name>>] :
        g \in {g \in f.functions : /\ g.receiver # None /\ NameContains(OwnerOf(g), name)
                                   /\ g.name \in {<<"Validate">>, <<"Normalize">>}}}

\* Mutant: the fields of structs of other packages are not looked at.
OwnFields(f, contract) ==
    UNION {{[role |-> "propagation", line |-> <<t.name, m.name>>] :
              m \in {m \in t.members : /\ ExprContains(m.words, contract.name)
                                       /\ DirOf(f.path) = DirOf(contract.path)}} :
           t \in {t \in f.types : t.name # contract.name /\ t.kind # "alias"}}

\* The fields of the other structs, and the methods and the embedded interfaces
\* of the other interfaces.  An alias is not looked at.
TypeSites(f, contract) ==
    LET name == contract.name
        FieldRole == IF DirOf(f.path) = DirOf(contract.path) THEN "propagation" ELSE "consumption"
        Using(t) == {m \in t.members : IF t.kind = "interface" /\ m.embedded THEN m.name = name
                                       ELSE ExprContains(m.words, name)}
    IN  UNION {{[role |-> IF t.kind = "struct" THEN FieldRole ELSE "propagation",
                 line |-> <<t.name, m.name>>] : m \in Using(t)} :
               t \in {t \in f.types : t.name # name /\ t.kind # "alias"}}

\* Constants of the type, or named after it.  Variables are not looked at.
ConstantSites(f, name) ==
    {[role |-> "propagation", line |-> <<None, c.name>>] :
        c \in {c \in f.constants : c.type = {name} \/ NameContains(c.name, name)}}

\* trace_contract_usage, outside the tests.
UsageSites(index, contract) ==
    UNION {{[role |-> s.role, line |-> s.line, path |-> f.path, package |-> f.package] :
              s \in FunctionSites(f, contract.name) \cup TypeSites(f, contract)
                    \cup ConstantSites(f, contract.name)} :
           f \in {f \in ToSet(index) : ~f.test}}

\* package_layer.
UsageLayer(path) ==
    LET layers == <<"domain", "application", "adapters", "actors", "interfaces", "shared", "cmd">>
        i == SelectInSeq(layers, LAMBDA l : Within(<<"internal", l>>, path))
    IN  IF i = 0 THEN "other" ELSE layers[i]

\* compute_breadth: by sites, and by the layers they and the definition are in.
Breadth(contract, sites) ==
    LET layers == {UsageLayer(contract.path)} \cup {UsageLayer(s.path) : s \in sites}
    IN  IF sites = {} THEN "orphan"
        ELSE IF Cardinality(layers) >= 3 THEN "well distributed"
        ELSE IF Cardinality(layers) = 2 \/ Cardinality(sites) >= 3 THEN "moderate"
        ELSE "limited"

-----------------------------------------------------------------------------
(* The map *)

\* identify_sensitive_areas: the contracts of each.
UsageAreas(entries) ==
    LET LayersOf(e) == {UsageLayer(s.path) : s \in {s \in e.sites : s.role # "validation"}}
        Roles(e)  == {s.role : s \in e.sites}
        Where(Is(_)) == {e.name : e \in {e \in entries : Is(e)}}
    IN  [unvalidated |-> Where(LAMBDA e : /\ "validation" \notin Roles(e)
                                          /\ "construction" \in Roles(e)
                                          /\ \/ Ends(e.name, {"Command", "Query"})
                                             \/ Contains(e.name, "Message")),
         orphans     |-> Where(LAMBDA e : e.breadth = "orphan"),
         correlation |-> Where(LAMBDA e : \/ Contains(e.name, "Correlation")
                                          \/ e.family \in {"Correlation ID", "Event Metadata"}
                                          \/ e.name = <<"Envelope">>),
         crossing    |-> Where(LAMBDA e : /\ "domain" \in LayersOf(e)
                                          /\ {"adapters", "actors"} \cap LayersOf(e) # {})]

\* build_family_summaries.
FamilySummaries(entries) ==
    LET Of(family) == {e \in entries : e.family = family} IN
    [family \in {e.family : e \in entries} |->
        [contracts |-> Cardinality(Of(family)),
         packages  |-> UNION {{e.package} \cup {s.package : s \in e.sites} : e \in Of(family)}]]

\* compute_statistics.
UsageStatistics(entries) ==
    [breadth \in {"well distributed", "moderate", "limited", "orphan"} |->
        Cardinality({e \in entries : e.breadth = breadth})]

\* analyze_with_index.
UsageMap(index) ==
    LET entries == {[name |-> c.name, family |-> c.family, path |-> c.path, package |-> c.package,
                     sites   |-> UsageSites(index, c),
                     breadth |-> Breadth(c, UsageSites(index, c))] : c \in Discovered(index)}
    IN  [contracts |-> entries, families |-> FamilySummaries(entries),
         areas |-> UsageAreas(entries), statistics |-> UsageStatistics(entries)]

\* analyze_with_lsp: what gopls reports of a contract is passed on, and changes
\* its breadth and the statistics, not the families and the areas.  A site
\* that only validates the contract is not known yet.
UsageMapWithLsp(index, lspReferences) ==
    LET map == UsageMap(index)
        More(e) == OnlyLsp(lspReferences[e.name], {s \in e.sites : s.role # "validation"})
        Enriched(e) == e.sites \cup {[role |-> "propagation", line |-> s.line, path |-> s.path,
                                      package |-> PackageOf(s.path)] : s \in More(e)}
        entries == {[e EXCEPT !.sites = Enriched(e), !.breadth = Breadth(e, Enriched(e))] :
                       e \in map.contracts}
    IN  [map EXCEPT !.contracts = entries, !.statistics = UsageStatistics(entries)]

=============================================================================
