----------------------------- MODULE CodeIntel -----------------------------
(***************************************************************************)
(* The index of the Go source that the structural analyzers read           *)
(* (codeintel): a line parser without a grammar, and the packages, counts  *)
(* and queries made of its files.                                          *)
(*                                                                         *)
(* A Go file is [path, package, lines], the path a sequence of names.  A   *)
(* line is a record of what the parser looks at:                           *)
(*   at        how it starts: import, import(, type, type(, const, const(, *)
(*             var, var(, func, ), } or "" for any other                   *)
(*   name      what is declared, as the words of its camel case; None on   *)
(*             a blank line;  exported  if it starts with a capital        *)
(*   words     the names in its type expression or signature, each as the  *)
(*             words of its camel case                                     *)
(*   shape     struct{, struct{}, interface{, interface{}, (, or ""        *)
(*   path, alias   of an import;  value   what follows an = sign           *)
(*   braces    opening minus closing braces                                *)
(*   receiver, closed, params, returns   of a function, closed if its      *)
(*             parameters end on the line they start on; a parameter and a *)
(*             result are the names of their type expressions              *)
(***************************************************************************)
EXTENDS Naturals, Integers, Sequences, FiniteSets, Report, SequencesExt

\* The fields of a line that says nothing.
BlankLine == [at |-> "", name |-> None, exported |-> FALSE, words |-> {},
              shape |-> "", path |-> None,
              alias |-> None, value |-> None, braces |-> 0, receiver |-> None,
              closed |-> TRUE, params |-> << >>, returns |-> << >>]

\* The blocks import (, type (, const ( and var ( share their form: the lines
\* of a block that opens with one word and ends at the first lone parenthesis.
InBlock(lines, word) ==
    FoldLeft(LAMBDA st, i :
                CASE lines[i].at = word               -> [st EXCEPT !.open = TRUE]
                  [] st.open /\ lines[i].at = ")"     -> [st EXCEPT !.open = FALSE]
                  [] st.open /\ lines[i].at # ")"     -> [st EXCEPT !.within = @ \cup {i}]
                  [] OTHER                            -> st,
             [open |-> FALSE, within |-> {}], [i \in DOMAIN lines |-> i]).within

-----------------------------------------------------------------------------
(* Imports: an import path is a sequence of names, whose first is a module.  *)

\* classify_import.  A first name with a dot is a host, one of Hosts.
Hosts == {"github.com", "google.golang.org"}

ImportKind(path) ==
    CASE Contains(path, "internal") /\ path[1] # "internal" -> "internal"
      [] path[1] \in Hosts /\ ~Contains(path, "internal") -> "external"
      [] OTHER -> "stdlib"

\* extract_imports: an aliased import outside a block is not seen.
ImportsOf(lines) ==
    LET within == InBlock(lines, "import(")
    IN  {[path |-> lines[i].path, alias |-> lines[i].alias,
          kind |-> ImportKind(lines[i].path)] :
             i \in {i \in DOMAIN lines : /\ lines[i].path # None
                                         /\ \/ i \in within
                                            \/ lines[i].at = "import" /\ lines[i].alias = None}}

-----------------------------------------------------------------------------
(* Types *)

\* The words of the names in a type expression.
NameWords(expr) == UNION {ToSet(name) : name \in expr}

\* The member of a struct or an interface on a line, if it holds one.
\* A line of one word is embedded and its own type; a line with a parenthesis
\* is a method, whose signature is the whole line.
MemberOf(kind, l) ==
    IF l.name = None \/ l.at = "}" THEN {}
    ELSE IF kind = "interface"
    THEN {[name |-> l.name, words |-> l.words \cup {l.name}, embedded |-> l.shape # "("]}
    ELSE {[name |-> l.name, embedded |-> l.words = {},
           words |-> IF l.words = {} THEN {l.name} ELSE l.words]}

KindOfShape(shape) ==
    CASE shape \in {"struct{", "struct{}"}       -> "struct"
      [] shape \in {"interface{", "interface{}"} -> "interface"
      [] OTHER                                   -> "alias"

\* One line of extract_types: inside a body only lines at depth one are
\* members; the body ends where its braces balance.
TypeLine(st, l) ==
    CASE st.body ->
            LET depth == st.depth + l.braces
                top   == Len(st.types)
            IN  IF depth <= 0 THEN [st EXCEPT !.body = FALSE, !.depth = 0]
                ELSE IF depth = 1
                THEN [st EXCEPT !.depth = depth,
                                !.types[top].members = @ \cup MemberOf(st.types[top].kind, l)]
                ELSE [st EXCEPT !.depth = depth]
      [] ~st.body /\ l.at = "type(" -> [st EXCEPT !.block = TRUE]
      [] ~st.body /\ st.block /\ l.at = ")" -> [st EXCEPT !.block = FALSE]
      [] ~st.body /\ l.name # None /\ (l.at = "type" \/ (st.block /\ l.at = "")) ->
            [st EXCEPT !.types = Append(@, [name |-> l.name, exported |-> l.exported,
                                            kind |-> KindOfShape(l.shape),
                                            words |-> l.words, members |-> {}]),
                       !.body  = l.shape \in {"struct{", "interface{"} /\ l.braces > 0,
                       !.depth = l.braces]
      [] OTHER -> st

\* extract_types: where it is after so many lines, and the types of a file in
\* their order.
TypesParsed(lines) ==
    LET parsed[n \in 0 .. Len(lines)] ==
            IF n = 0 THEN [block |-> FALSE, body |-> FALSE, depth |-> 0, types |-> << >>]
            ELSE TypeLine(parsed[n - 1], lines[n])
    IN  parsed

TypesOf(lines) == TypesParsed(lines)[Len(lines)].types

-----------------------------------------------------------------------------
(* Functions, constants and variables *)

\* extract_functions: a signature that does not close on its line has neither
\* parameters nor results.
FunctionsOf(lines) ==
    {[name |-> lines[i].name, exported |-> lines[i].exported,
      receiver |-> lines[i].receiver,
      params  |-> IF lines[i].closed THEN lines[i].params ELSE << >>,
      returns |-> IF lines[i].closed THEN lines[i].returns ELSE << >>] :
         i \in {i \in DOMAIN lines : lines[i].at = "func" /\ lines[i].name # None}}

\* extract_constants: in a block a constant without a type has that of the
\* last one that had.
ConstantsOf(lines) ==
    LET within == InBlock(lines, "const(")
        Hint(i) ==
            LET typed == {j \in within : /\ j <= i /\ lines[j].words # {}
                                         /\ \A k \in j..i : k \in within}
            IN  IF typed = {} THEN lines[i].words
                ELSE lines[CHOOSE j \in typed : \A k \in typed : k <= j].words
    IN  {[name |-> lines[i].name, exported |-> lines[i].exported,
          type |-> Hint(i), value |-> lines[i].value] :
            i \in {i \in DOMAIN lines : /\ lines[i].name # None
                                        /\ i \in within \/ lines[i].at = "const"}}

\* extract_variables.
VariablesOf(lines) ==
    LET within == InBlock(lines, "var(")
    IN  {[name |-> lines[i].name, exported |-> lines[i].exported,
          type |-> lines[i].words, value |-> lines[i].value] :
            i \in {i \in DOMAIN lines : /\ lines[i].name # None
                                        /\ i \in within \/ lines[i].at = "var"}}

-----------------------------------------------------------------------------
(* The index *)

\* Directories the walk does not enter.
SkippedDirs == {"vendor", "testdata", "node_modules", ".git"}

\* The files the walk finds, in the order of their paths, in which the files of
\* a project are given (walk_go_files).
WalkEnters(f) == \A i \in 1..Len(f.path) - 1 : f.path[i] \notin SkippedDirs

Walked(files) ==
    LET found[n \in Nat] == IF n = 0 THEN << >>
                            ELSE IF WalkEnters(files[n]) THEN Append(found[n - 1], files[n])
                            ELSE found[n - 1]
    IN  found[Len(files)]

\* parse_file on every file the walk finds (build_index).
IndexFiles(files) ==
    LET walked == Walked(files)
    IN  [i \in DOMAIN walked |->
            LET f == walked[i] IN
            [path |-> f.path, test |-> f.test, package |-> f.package,
             imports   |-> ImportsOf(f.lines),   types     |-> ToSet(TypesOf(f.lines)),
             functions |-> FunctionsOf(f.lines), constants |-> ConstantsOf(f.lines),
             variables |-> VariablesOf(f.lines), lines     |-> Len(f.lines)]]

DirOf(path) == SubSeq(path, 1, Len(path) - 1)

\* aggregate_packages: the files of one directory and one package name.
Packages(index) ==
    LET Of(i) == {j \in DOMAIN index : /\ DirOf(index[j].path) = DirOf(index[i].path)
                                       /\ index[j].package = index[i].package}
    IN  {[dir   |-> DirOf(index[i].path), name |-> index[i].package,
          files |-> {index[j].path : j \in Of(i)}] : i \in DOMAIN index}

\* How many of something the files hold; compute_stats.
CountIn(index, InFile(_)) ==
    FoldLeft(LAMBDA n, f : n + Cardinality(InFile(f)), 0, index)

Stats(index) ==
    [packages |-> Cardinality(Packages(index)),
     types    |-> CountIn(index, LAMBDA f : f.types),
     lines    |-> FoldLeft(LAMBDA n, f : n + f.lines, 0, index)]

=============================================================================
