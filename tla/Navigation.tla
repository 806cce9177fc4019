----------------------------- MODULE Navigation -----------------------------
(***************************************************************************)
(* Where a symbol is declared and used, and what renaming it would touch   *)
(* (analyzers/symbol_trace.rs and rename_safety.rs).  Both walk the index  *)
(* and see no function bodies; gopls adds references when it is asked to.  *)
(*                                                                         *)
(* A definition is [kind, line, exported, package, path], a reference      *)
(* [kind, nth, within, line, package, path], the nth parameter or result   *)
(* of a function.  A line is named by what it declares, <<owner, name>>,   *)
(* the owner the type of a member or a method or None; within is the name  *)
(* a reference is reported under, None for a field, which has a name of    *)
(* its own.  What gopls reports is a set of sites [path, line].            *)
(***************************************************************************)
EXTENDS Impact, SequencesExt

OwnerOf(g) == IF g.receiver = None THEN None ELSE g.receiver.type

-----------------------------------------------------------------------------
(* Definitions and references *)

\* What a file declares under a name.
DeclaredIn(f, name) ==
    {[kind |-> t.kind, line |-> <<None, name>>, exported |-> t.exported] :
        t \in {t \in f.types : t.name = name}}
    \cup {[kind |-> IF g.receiver = None THEN "func" ELSE "method",
           line |-> <<OwnerOf(g), name>>, exported |-> g.exported] :
        g \in {g \in f.functions : g.name = name}}
    \cup {[kind |-> "const", line |-> <<None, name>>, exported |-> c.exported] :
        c \in {c \in f.constants : c.name = name}}
    \cup {[kind |-> "var", line |-> <<None, name>>, exported |-> v.exported] :
        v \in {v \in f.variables : v.name = name}}

\* find_definitions.
Definitions(index, symbol) ==
    UNION {{[kind |-> d.kind, line |-> d.line, exported |-> d.exported,
             package |-> f.package, path |-> f.path] : d \in DeclaredIn(f, symbol)} :
           f \in ToSet(index)}

\* A reference of some kind on a line, reported under a name.
Ref(kind, within, line) == [kind |-> kind, nth |-> 0, within |-> within, line |-> line]

\* The fields, the embedded interfaces and the alias of a type that name a
\* symbol.  The methods of an interface are not looked at.
TypeReferences(t, symbol) ==
    CASE t.kind = "struct" ->
            {IF m.embedded /\ m.words = {symbol} THEN Ref("embedded", t.name, <<t.name, m.name>>)
             ELSE Ref("field", None, <<t.name, m.name>>) :
                m \in {m \in t.members : symbol \in m.words}}
      [] t.kind = "interface" ->
            {Ref("embed", t.name, <<t.name, m.name>>) :
                m \in {m \in t.members : m.embedded /\ m.name = symbol}}
      [] t.kind = "alias" ->
            IF symbol \in t.words THEN {Ref("alias", t.name, <<None, t.name>>)} ELSE {}

\* The receiver, the parameters and the results of a function, each by itself.
FunctionReferences(g, symbol) ==
    {[Ref(x[1], g.name, <<OwnerOf(g), g.name>>) EXCEPT !.nth = x[2]] : x \in
        ({"receiver"} \X {i \in {0} : OwnerOf(g) = symbol})
        \cup ({"param"} \X {i \in DOMAIN g.params : symbol \in g.params[i]})
        \cup ({"return"} \X {i \in DOMAIN g.returns : symbol \in g.returns[i]})}

\* A constant's type must be the symbol itself, a variable's may mention it.
ValueReferences(f, symbol) ==
    {Ref("const", c.name, <<None, c.name>>) : c \in {c \in f.constants : c.type = {symbol}}}
    \cup {Ref("var", v.name, <<None, v.name>>) : v \in {v \in f.variables : symbol \in v.type}}

\* find_references: what is reported under the symbol itself is dropped.
References(index, symbol) ==
    UNION {{[kind |-> r.kind, nth |-> r.nth, within |-> r.within, line |-> r.line,
             package |-> f.package, path |-> f.path] :
               r \in {r \in (UNION {TypeReferences(t, symbol) : t \in f.types})
                            \cup (UNION {FunctionReferences(g, symbol) : g \in f.functions})
                            \cup ValueReferences(f, symbol) : r.within # symbol}} :
           f \in ToSet(index)}

\* ResolutionStatus.
Resolution(definitions) ==
    CASE definitions = {} -> "not found"
      [] Cardinality(definitions) = 1 -> "resolved"
      [] OTHER -> "ambiguous"

-----------------------------------------------------------------------------
(* Contracts *)

\* The contracts among the definitions of the symbol.
DefinedContracts(definitions) ==
    {[kind |-> CASE d.kind = "interface" -> IF Contains(d.path, "ports") THEN "port" ELSE "interface"
                 [] d.kind = "struct" -> "message_type"
                 [] OTHER -> "contract_type",
      line |-> d.line, path |-> d.path] :
        d \in {d \in definitions :
                 \/ d.kind = "interface"
                 \/ d.kind = "struct" /\ IsMessage(d.line[2], d.path)
                 \/ d.kind \in {"alias", "const"}
                    /\ ToSet(d.path) \cap {"contracts", "events"} # {}}}

\* The methods of the exported interfaces of the ports and the contracts whose
\* signature names the symbol.
ContractMethods(index, symbol) ==
    UNION {UNION {{[kind |-> "interface_method", line |-> <<t.name, m.name>>, path |-> f.path] :
                     m \in {m \in t.members : ~m.embedded /\ symbol \in m.words}} :
              t \in {t \in f.types : t.exported /\ t.kind = "interface"}} :
           f \in {f \in ToSet(index) : ToSet(f.path) \cap {"ports", "contracts"} # {}}}

\* find_contract_surface; find_contracts of symbol-trace is the same.
ContractSurface(index, symbol) ==
    DefinedContracts(Definitions(index, symbol)) \cup ContractMethods(index, symbol)

\* file_to_package of what gopls reports: the directory of the file.
PackageOf(path) == IF Len(path) < 2 THEN None ELSE path[Len(path) - 1]

\* The sites gopls reports that the index did not.
OnlyLsp(sites, known) == {s \in sites : \A k \in known : k.path # s.path \/ k.line # s.line}

PackagesOf(sites) == {PackageOf(s.path) : s \in sites} \ {None}

-----------------------------------------------------------------------------
(* symbol-trace *)

\* build_recommendations.
TraceCommands(definitions, references) ==
    LET paths == {x.path : x \in definitions} \cup {x.path : x \in references}
        Some(inner) == \E p \in paths : Within(inner, DirOf(p))
        Named(names) == \E p \in paths : ToSet(p) \cap names # {}
        broker == Some(<<"adapters", "nats">>) \/ Some(<<"adapters", "kafka">>)
    IN  {c \in {"contract-audit", "runtime-bindings", "arch-guard", "topology-doctor",
                "drift-detect", "impact-map"} :
            CASE c = "contract-audit"   -> broker \/ Named({"contracts", "ports", "events"})
              [] c = "runtime-bindings" -> broker \/ Some(<<"actors">>)
              [] c = "arch-guard"       -> Some(<<"domain">>) \/ Some(<<"application">>)
                                           \/ Some(<<"interfaces", "http">>)
              [] c \in {"topology-doctor", "drift-detect"} -> Some(<<"deploy">>) \/ Some(<<"configs">>)
              [] c = "impact-map"       -> paths # {}}

\* trace_in_index.
Trace(index, symbol) ==
    LET definitions == Definitions(index, symbol)
        references  == References(index, symbol)
    IN  [status      |-> Resolution(definitions),
         definitions |-> definitions,
         references  |-> references,
         packages    |-> {x.package : x \in definitions} \cup {x.package : x \in references},
         contracts   |-> ContractSurface(index, symbol),
         commands    |-> TraceCommands(definitions, references)]

\* trace_with_lsp: nothing found in the index is taken back.
TraceWithLsp(index, symbol, lspDefinitions, lspReferences) ==
    LET trace == Trace(index, symbol)
        more  == OnlyLsp(lspDefinitions, trace.definitions)
                 \cup OnlyLsp(lspReferences, trace.references)
    IN  [trace EXCEPT !.packages = @ \cup PackagesOf(more)]

=============================================================================
