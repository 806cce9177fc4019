----------------------------- MODULE TracePack -----------------------------
(***************************************************************************)
(* trace-pack (src/tools/raccoon-cli/src/trace_pack): evidence is          *)
(* collected from docker compose, the HTTP endpoints, the deployed         *)
(* configurations and the logs, one source after the other and each        *)
(* independently, written to a new directory with a summary, and packed.   *)
(***************************************************************************)
EXTENDS Naturals, Sequences, FiniteSets

CONSTANT Sources        \* the evidence to collect, in order: file and kind

ASSUME SourcesAssumption ==
    Sources \in Seq([file : STRING, kind : STRING]) /\ Sources # << >>

VARIABLES pack,         \* the run of the command
          disk          \* what it leaves in the output directory

packVars == <<pack, disk>>

Summary == "SUMMARY.md"
\* What each collector can come back with: an endpoint that answers at all is
\* evidence, a missing file or silent log is unavailable, an unreadable file an
\* error (EvidenceStatus).
Evidence(kind) ==
    IF kind = "config" THEN {"ok", "unavailable", "error"} ELSE {"ok", "unavailable"}

IdlePack == [running |-> FALSE, compress |-> FALSE, at |-> "idle",
             evidence |-> << >>, written |-> 0, report |-> << >>]

\* dir: the files of the pack's directory; archive: those of the archive.
EmptyDisk == [dir |-> {}, archive |-> {}]

PackInit == pack = IdlePack /\ disk = EmptyDisk

-----------------------------------------------------------------------------
(* The command *)

Ended(at) == [pack EXCEPT !.at = at]
PackFails == pack' = Ended("failed")

\* run: the directory is made first.
StartPack(compress) ==
    /\ ~pack.running
    /\ \E at \in {"collect", "failed"} :
         pack' = [IdlePack EXCEPT !.running = TRUE, !.compress = compress, !.at = at]
    /\ UNCHANGED disk

\* collect_all: the next source, whatever became of the ones before it.
Collect ==
    /\ pack.at = "collect"
    /\ LET source == Sources[Len(pack.evidence) + 1] IN
       \E status \in Evidence(source.kind) :
         pack' = [pack EXCEPT
           !.evidence = Append(@, [file |-> source.file, status |-> status]),
           !.at = IF Len(pack.evidence) + 1 = Len(Sources) THEN "write" ELSE @]
    /\ UNCHANGED disk

\* write_evidence: only what was collected is written; a write that fails ends
\* the command there and then.
WriteEvidence ==
    /\ pack.at = "write" /\ pack.written < Len(Sources)
    /\ LET e == pack.evidence[pack.written + 1] IN
       \/ /\ pack' = [pack EXCEPT !.written = @ + 1]
          /\ disk' = IF e.status = "ok" THEN [disk EXCEPT !.dir = @ \cup {e.file}]
                                        ELSE disk
       \/ e.status = "ok" /\ PackFails /\ UNCHANGED disk

\* build_summary is written last.
WriteSummary ==
    /\ pack.at = "write" /\ pack.written = Len(Sources)
    /\ \/ /\ pack' = Ended(IF pack.compress THEN "compress" ELSE "report")
          /\ disk' = [disk EXCEPT !.dir = @ \cup {Summary}]
       \/ PackFails /\ UNCHANGED disk

\* Mutant: the exit status of tar is not looked at.
CompressUnchecked ==
    /\ pack.at = "compress"
    /\ pack' = Ended("remove")
    /\ \E files \in {disk.dir, {}} : disk' = [disk EXCEPT !.archive = files]

\* compress_pack: tar packs the directory, or fails.
Compress ==
    /\ pack.at = "compress"
    /\ \/ pack' = Ended("remove") /\ disk' = [disk EXCEPT !.archive = disk.dir]
       \/ PackFails /\ UNCHANGED disk

\* remove_dir_all, which may stop half way.
RemoveDirectory ==
    /\ pack.at = "remove"
    /\ \/ pack' = Ended("report") /\ disk' = [disk EXCEPT !.dir = {}]
       \/ /\ PackFails
          /\ \E left \in {disk.dir, disk.dir \ {Summary}} : disk' = [disk EXCEPT !.dir = left]

FilesOf(status) == {pack.evidence[i].file : i \in
                     {j \in DOMAIN pack.evidence : (pack.evidence[j].status = "ok") = status}}

\* The report names what was collected and what was not.
ReportPack ==
    /\ pack.at = "report"
    /\ pack' = [pack EXCEPT !.at = "done",
                            !.report = <<FilesOf(TRUE), FilesOf(FALSE)>>]
    /\ UNCHANGED disk

PackSteps == Collect \/ WriteEvidence \/ WriteSummary \/ Compress
             \/ RemoveDirectory \/ ReportPack

PackDone == pack.at = "done"
PackPlace == IF pack.compress THEN disk.archive ELSE disk.dir

-----------------------------------------------------------------------------
(* Properties *)

\* Evidence is never lost and never invented: however the command ends, what
\* it wrote with its summary is still on disk, in the directory or whole in the
\* archive, and a report it returns names exactly the files of the pack it
\* points at (trace_pack/mod.rs run).
EvidenceIsKept ==
    /\ pack.at \in {"compress", "remove", "report", "done"} =>
         \/ FilesOf(TRUE) \cup {Summary} = disk.dir
         \/ FilesOf(TRUE) \cup {Summary} = disk.archive
    /\ pack.at = "failed" =>
         LET done == {pack.evidence[i].file : i \in
                        {j \in 1..pack.written : pack.evidence[j].status = "ok"}}
         IN  done \subseteq disk.dir \/ done \subseteq disk.archive
    /\ PackDone => PackPlace = pack.report[1] \cup {Summary}

=============================================================================
