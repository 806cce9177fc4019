------------------------------ MODULE GoSource ------------------------------
(***************************************************************************)
(* What the structural checks of raccoon-cli see of the Go code under      *)
(* internal/ (analyzers/topology/source.rs, runtime_bindings/source.rs):   *)
(* no syntax tree, only lines, the quoted words on them and whether they   *)
(* mention a few keywords.                                                 *)
(*                                                                         *)
(* A file is a sequence of lines.  A line says whether it is a comment,    *)
(* which keywords it contains, and its quoted words; a word is a stream    *)
(* name (upper snake case), a subject (dotted) or a durable (dashed), the  *)
(* three kinds is_stream_name, is_nats_subject and the test of             *)
(* extract_durables tell apart.  A subject is the sequence of its tokens.  *)
(***************************************************************************)
EXTENDS Naturals, Sequences, FiniteSets, Report

\* Every Go file of a project p can be read.
SourceReadable(p) == p.unreadable \cap {"source", "contracts"} = {}

\* A subject that starts with the tokens of a prefix.
StartsWith(subject, prefix) ==
    Len(prefix) <= Len(subject) /\ SubSeq(subject, 1, Len(prefix)) = prefix

\* Extract radius of subjects and of the stream a durable belongs to.
SubjectRadius == 10
StreamRadius  == 15

\* extract_all_quoted filtered by what a word looks like.
Words(line, kind) ==
    {line.quoted[i].of : i \in {j \in DOMAIN line.quoted : line.quoted[j].kind = kind}}

FirstWord(line, kind) ==
    SelectSeq(line.quoted, LAMBDA w : w.kind = kind)[1].of

\* The lines a window reaches: radius before the centre and radius - 1 after.
Around(file, centre, radius) ==
    {i \in DOMAIN file : i + radius >= centre /\ i < centre + radius}

Least(indices) == CHOOSE i \in indices : \A j \in indices : i <= j

\* The subjects of a declaration that starts on line i: those of the line and
\* of the four lines after it up to the first that closes a bracket, comments
\* included.
SubjectsFrom(file, i) ==
    LET next   == {j \in DOMAIN file : i < j /\ j < i + 5}
        within == {j \in next : \A k \in next : k < j => "}" \notin file[k].keys}
    IN  UNION {Words(file[j], "subject") : j \in {i} \cup within}

\* find_subjects_near: the first declaration of the window that has any.
SubjectsNear(file, centre) ==
    LET starts == {i \in Around(file, centre, SubjectRadius) :
                      /\ "Subjects" \in file[i].keys
                      /\ ~file[i].comment
                      /\ SubjectsFrom(file, i) # {}}
    IN  IF starts = {} THEN {} ELSE SubjectsFrom(file, Least(starts))

\* find_stream_name_near: the first stream name of the lines, without context.
NamedIn(file, indices) ==
    LET named == {i \in indices : ~file[i].comment /\ Words(file[i], "stream") # {}}
    IN  IF named = {} THEN None ELSE FirstWord(file[Least(named)], "stream")

\* The stream of a durable: the nearest window first, then the whole file.
StreamNear(file, centre) ==
    LET near == NamedIn(file, Around(file, centre, StreamRadius))
    IN  IF near # None THEN near ELSE NamedIn(file, DOMAIN file)

-----------------------------------------------------------------------------
(* The maps a scan fills, over files in the order the directory lists them *)

\* The names a line in stream context declares: topology takes the first,
\* runtime-bindings all of them.
DeclaresStream(line, name, onlyFirst) ==
    /\ ~line.comment
    /\ line.keys \cap {"Name", "Stream"} # {}
    /\ name \in Words(line, "stream")
    /\ onlyFirst => name = FirstWord(line, "stream")

\* extract_streams: every declaration of a stream adds the subjects near it.
StreamsOf(files, onlyFirst) ==
    LET declared == {n \in UNION {UNION {Words(files[f][i], "stream") : i \in DOMAIN files[f]}
                                     : f \in DOMAIN files} :
                        \E f \in DOMAIN files : \E i \in DOMAIN files[f] :
                            DeclaresStream(files[f][i], n, onlyFirst)}
    IN  [n \in declared |->
            UNION {UNION {SubjectsNear(files[f], i) :
                             i \in {j \in DOMAIN files[f] :
                                       DeclaresStream(files[f][j], n, onlyFirst)}}
                      : f \in DOMAIN files}]

\* extract_durables: a durable no stream can be found for is not recorded, and
\* a later mention replaces an earlier one.
DurablesOf(files) ==
    LET mentions == UNION {UNION {
            {[file |-> f, line |-> i, durable |-> d, stream |-> StreamNear(files[f], i)] :
                d \in IF ~files[f][i].comment /\ "Durable" \in files[f][i].keys
                      THEN Words(files[f][i], "durable") ELSE {}}
              : i \in DOMAIN files[f]} : f \in DOMAIN files}
        found == {m \in mentions : m.stream # None}
        LastMention(d) == CHOOSE m \in found :
            /\ m.durable = d
            /\ \A o \in found : o.durable = d =>
                 o.file < m.file \/ (o.file = m.file /\ o.line <= m.line)
    IN  [d \in {m.durable : m \in found} |-> LastMention(d).stream]

\* extract_subjects: every subject quoted outside a comment.
SubjectsOf(files) ==
    UNION {UNION {Words(files[f][i], "subject") :
                     i \in {j \in DOMAIN files[f] : ~files[f][j].comment}}
              : f \in DOMAIN files}

\* scan_source.
ScanSource(files) ==
    [streams  |-> StreamsOf(files, TRUE),
     durables |-> DurablesOf(files),
     subjects |-> SubjectsOf(files)]

=============================================================================
