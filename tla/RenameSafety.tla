---------------------------- MODULE RenameSafety ----------------------------
(***************************************************************************)
(* rename-safety (analyzers/rename_safety.rs): how risky it is to rename a *)
(* symbol, which gate profile and scenarios to run, and whether the new    *)
(* name is taken.  It walks the index the way symbol-trace does.           *)
(***************************************************************************)
EXTENDS Navigation, SequencesExt

\* find_definitions and find_references of rename_safety.rs, which are those of
\* symbol_trace.rs.
RenameDefinitions(index, symbol) == Definitions(index, symbol)

RenameReferences(index, symbol) == References(index, symbol)

\* find_conflicts: any declaration of any package under the new name.
Conflicts(index, newName) == IF newName = None THEN {} ELSE Definitions(index, newName)

-----------------------------------------------------------------------------
(* Risk *)

\* detect_sensitive_areas, from the paths of definitions and references.
RenameAreas(paths) ==
    LET In(p, inner)    == Within(inner, DirOf(p))
        Named(p, names) == ToSet(p) \cap names # {}
        AreasAt(p) ==
            {a \in {"domain", "adapters", "actors"} : In(p, <<a>>)}
            \cup {a \in {"ports"} : Named(p, {"ports"})}
            \cup {a \in {"contracts/events"} : Named(p, {"contracts", "events"})}
            \cup {a \in {"http_interfaces"} : In(p, <<"interfaces", "http">>)}
            \cup {a \in {"application"} : In(p, <<"application">>)
                                          /\ ~Named(p, {"contracts", "ports"})}
    IN  UNION {AreasAt(p) : p \in paths}

\* RiskLevel, in its order.
RiskLevels == <<"low", "medium", "high", "critical">>

\* assess_risk: the level of each reason there is.
RiskReasons(definitions, count, areas, surface) ==
    LET kinds == {c.kind : c \in surface}
        Reason(found, level) == IF found THEN {level} ELSE {}
    IN  {1}
        \cup Reason(\E d \in definitions : d.exported, 2)
        \cup Reason(count > 20, 3)
        \cup Reason(count \in 6..20, 2)
        \cup Reason(Cardinality(definitions) > 1, 3)
        \cup Reason(kinds \cap {"port", "message_type"} # {}, 4)
        \cup Reason(kinds # {} /\ kinds \cap {"port", "message_type"} = {}, 3)
        \cup Reason({"domain", "adapters"} \subseteq areas, 3)
        \cup Reason("ports" \in areas, 3)
        \cup Reason(Cardinality({d.package : d \in definitions}) > 2, 2)

\* The highest level of the reasons.
AssessRisk(definitions, count, areas, surface) ==
    LET levels == RiskReasons(definitions, count, areas, surface)
    IN  RiskLevels[CHOOSE l \in levels : \A o \in levels : o <= l]

\* recommend_gate_profile.
RenameProfile(risk) ==
    CASE risk = "low" -> "fast" [] risk = "medium" -> "ci" [] OTHER -> "deep"

\* suggest_smoke_scenarios.
RenameScenarios(areas, surface) ==
    LET kinds == {c.kind : c \in surface} IN
    {s \in {"config-lifecycle", "happy-path", "readiness-probe", "invalid-payload"} :
        CASE s = "config-lifecycle" ->
               surface # {} \/ areas \cap {"contracts/events", "domain", "application"} # {}
          [] s = "happy-path"       -> areas \cap {"adapters", "actors"} # {} \/ "port" \in kinds
          [] s = "readiness-probe"  -> "http_interfaces" \in areas
          [] s = "invalid-payload"  -> "message_type" \in kinds}

\* build_recommended_checks.
RenameChecks(areas, surface) ==
    {c \in {"arch-guard", "contract-audit", "runtime-bindings", "drift-detect"} :
        CASE c = "arch-guard" -> areas \cap {"domain", "application", "http_interfaces"} # {}
          [] c = "contract-audit" -> surface # {} \/ areas \cap {"ports", "contracts/events"} # {}
          [] c = "runtime-bindings" -> areas \cap {"adapters", "actors"} # {}
          [] c = "drift-detect" -> TRUE}

-----------------------------------------------------------------------------
(* The report *)

\* check_in_index.
CheckRename(index, symbol, newName) ==
    LET definitions == RenameDefinitions(index, symbol)
        references  == RenameReferences(index, symbol)
        areas   == RenameAreas({x.path : x \in definitions} \cup {x.path : x \in references})
        surface == ContractSurface(index, symbol)
        risk    == AssessRisk(definitions, Cardinality(references), areas, surface)
    IN  [status      |-> Resolution(definitions),
         definitions |-> definitions,
         references  |-> references,
         packages    |-> {x.package : x \in definitions} \cup {x.package : x \in references},
         areas       |-> areas,
         surface     |-> surface,
         conflicts   |-> Conflicts(index, newName),
         risk        |-> risk,
         profile     |-> RenameProfile(risk),
         scenarios   |-> RenameScenarios(areas, surface),
         checks      |-> RenameChecks(areas, surface)]

\* check_with_lsp: what only gopls sees counts for the risk and the packages,
\* but not for the areas and the contracts.
CheckRenameWithLsp(index, symbol, newName, lspReferences) ==
    LET report == CheckRename(index, symbol, newName)
        more   == OnlyLsp(lspReferences, report.references)
        risk   == AssessRisk(report.definitions, Cardinality(report.references) + Cardinality(more),
                             report.areas, report.surface)
    IN  [report EXCEPT !.packages = @ \cup PackagesOf(more),
                       !.risk     = risk,
                       !.profile  = RenameProfile(risk)]

=============================================================================
