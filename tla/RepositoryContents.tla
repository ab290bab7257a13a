-------------------------- MODULE RepositoryContents --------------------------
(***************************************************************************)
(* From a checkout to what is stored of it: scan_repository and index_file *)
(* of ingestion/scanner.py, the loop over the files in                     *)
(* analysis/repository.py, and the stages of ingestion/indexer.py that     *)
(* index, parse and chunk.  A file may be read once in each stage, and     *)
(* every read may fail for itself.  A file is its position in the walk.    *)
(***************************************************************************)
EXTENDS Integers, Sequences, FiniteSets

CONSTANTS
  Trees,          \* sequences of the entries of a checkout, in walk order
  MaxFiles,       \* max_repository_files
  MaxIndexedSize, \* max_indexed_file_size_kb
  MaxParsedSize   \* max_parsed_file_size_kb

\* An entry: a regular file, a symbolic link, or gone when it is looked at.
Entry ==
  [ignored : BOOLEAN, type : {"file", "link", "gone"}, size : Nat, long : BOOLEAN,
   binary : BOOLEAN, parser : {"parsed", "failed", "none"}, text : BOOLEAN]

ASSUME ContentsAssumption ==
  /\ Trees \subseteq Seq(Entry)
  /\ MaxFiles \in Nat /\ MaxIndexedSize \in Nat /\ MaxParsedSize \in Nat

VARIABLES
  entries,   \* the entries
  task,      \* the stage
  at,        \* position of the loop
  scan,      \* ScanResult
  indexed,   \* files with a row of their own
  parsed,    \* files with a row of the analysis, and how parsing ended
  unparsed,  \* files that the analysis skipped
  chunkedBy, \* files and the way they were chunked
  misread    \* files that a read failed for

contentsVars == <<entries, task, at, scan, indexed, parsed, unparsed, chunkedBy, misread>>

Walked == DOMAIN entries
SkipReasons == {"unreadable", "not_regular_file", "too_large", "path_too_long"}
NoScan == [total |-> 0, paths |-> {}, indexable |-> {}, skipped |-> [r \in SkipReasons |-> 0]]

ContentsInit ==
  /\ entries \in Trees
  /\ task = "walk" /\ at = 1 /\ scan = NoScan
  /\ indexed = {} /\ parsed = << >> /\ unparsed = {} /\ chunkedBy = << >> /\ misread = {}

Skip(given, reason) == [given EXCEPT !.skipped[reason] = @ + 1]
IsPruned(f) == entries[f].ignored

\* What one entry adds; a regular file is counted before it is classified.
Scanned(f) ==
  LET counted == [scan EXCEPT !.total = @ + 1, !.paths = @ \cup {f}]
  IN IF IsPruned(f) THEN scan
     ELSE IF entries[f].type = "gone" THEN Skip(scan, "unreadable")
     ELSE IF entries[f].type = "link" THEN Skip(scan, "not_regular_file")
     ELSE IF entries[f].size > MaxIndexedSize THEN Skip(counted, "too_large")
     ELSE IF entries[f].long THEN Skip(counted, "path_too_long")
     ELSE [counted EXCEPT !.indexable = @ \cup {f}]

WalkEntry ==
  /\ task = "walk" /\ at \in Walked
  /\ IF Scanned(at).total > MaxFiles
     THEN task' = "limit" /\ UNCHANGED <<at, scan>>
     ELSE at' = at + 1 /\ scan' = Scanned(at) /\ UNCHANGED task
  /\ UNCHANGED <<entries, indexed, parsed, unparsed, chunkedBy, misread>>

-----------------------------------------------------------------------------
(* read_text_file, and the loops that use it.                              *)

\* The contents unless they are too large, binary or cannot be read.
Readable(f, max) == entries[f].size <= max /\ ~entries[f].binary
Read(f, max, succeeds) ==
  /\ succeeds => Readable(f, max)
  /\ misread' = IF Readable(f, max) /\ ~succeeds THEN misread \cup {f} ELSE misread

LoopOver(files, step) == task = step /\ at \in files /\ at' = at + 1 /\ UNCHANGED <<task, entries>>

\* The loop has nothing to do with this file.
NotInLoop(files, step) ==
  /\ task = step /\ at \in Walked \ files /\ at' = at + 1
  /\ UNCHANGED <<task, entries, scan, indexed, parsed, unparsed, chunkedBy, misread>>

\* Without a limit on the size.
IndexFile ==
  /\ LoopOver(scan.indexable, "index")
  /\ \E succeeds \in BOOLEAN :
       /\ Read(at, entries[at].size, succeeds)
       /\ indexed' = IF succeeds THEN indexed \cup {at} ELSE indexed
  /\ UNCHANGED <<scan, parsed, unparsed, chunkedBy>>

\* analyzer_for: by the extension, without generated code.
HasAnalyzer(f) == entries[f].parser # "none"
Parseable == {f \in indexed : HasAnalyzer(f)}

\* A parser that raises leaves a file without symbols.
AnalyzeFile ==
  /\ LoopOver(Parseable, "parse")
  /\ \E succeeds \in BOOLEAN :
       /\ Read(at, MaxParsedSize, succeeds)
       /\ parsed' = IF succeeds THEN [f \in DOMAIN parsed \cup {at} |-> entries[f].parser] ELSE parsed
       /\ unparsed' = IF succeeds THEN unparsed ELSE unparsed \cup {at}
  /\ UNCHANGED <<scan, indexed, chunkedBy>>

Chunk(f, way, succeeds) ==
  chunkedBy' = IF succeeds
               THEN [g \in DOMAIN chunkedBy \cup {f} |->
                       (IF g \in DOMAIN chunkedBy THEN chunkedBy[g] ELSE << >>)
                         \o (IF g = f THEN <<way>> ELSE << >>)]
               ELSE chunkedBy

\* _chunk_repository: the files with an analysis along their symbols.
ChunkSource ==
  /\ LoopOver(DOMAIN parsed, "chunk_source")
  /\ \E succeeds \in BOOLEAN :
       Read(at, MaxParsedSize, succeeds) /\ Chunk(at, "source", succeeds)
  /\ UNCHANGED <<scan, indexed, parsed, unparsed>>

\* Text is every indexed file but lock files, data and unknown formats.
ShouldChunk(f) == entries[f].text

\* Without a look at what was chunked before.
TextFilesAll == {f \in indexed : ShouldChunk(f)}

TextFiles == {f \in indexed \ DOMAIN chunkedBy : ShouldChunk(f)}

\* Then the others as text; the two loops read a file with limits of their
\* own.
ChunkText ==
  /\ LoopOver(TextFiles, "chunk_text")
  /\ \E succeeds \in BOOLEAN :
       Read(at, MaxIndexedSize, succeeds) /\ Chunk(at, "text", succeeds)
  /\ UNCHANGED <<scan, indexed, parsed, unparsed>>

SkipFile ==
  \/ NotInLoop(scan.indexable, "index") \/ NotInLoop(Parseable, "parse")
  \/ NotInLoop(DOMAIN parsed, "chunk_source") \/ NotInLoop(TextFiles, "chunk_text")

\* RepositoryIndexer.run: one stage after the other, without the search
\* index when it is switched off.
Following ==
  [walk |-> {"index"}, index |-> {"parse"}, parse |-> {"chunk_source", "stored"},
   chunk_source |-> {"chunk_text"}, chunk_text |-> {"searchable"}]
NextStage ==
  /\ task \in DOMAIN Following /\ at \notin Walked
  /\ task' \in Following[task] /\ at' = 1
  /\ UNCHANGED <<entries, scan, indexed, parsed, unparsed, chunkedBy, misread>>

\* The progress reports notice that the process stops.
Cancel ==
  /\ task \in {"index", "parse"}
  /\ task' = "cancelled"
  /\ UNCHANGED <<entries, at, scan, indexed, parsed, unparsed, chunkedBy, misread>>

ContentsNext ==
  WalkEntry \/ IndexFile \/ AnalyzeFile \/ ChunkSource \/ ChunkText \/ SkipFile \/ NextStage \/ Cancel

ContentsSpec == ContentsInit /\ [][ContentsNext]_contentsVars

-----------------------------------------------------------------------------
(* Properties.                                                             *)

Kept(f) == ~IsPruned(f) /\ entries[f].type = "file"

\* The stored contents add up although each stage reads the files anew: every
\* regular file outside the ignored directories is counted and has a row or
\* a reason, the limit stops only a repository above it, what has a row was
\* text when it was read, a file of the analysis is parsed or skipped, and no
\* file is chunked twice.  A file that no read failed for is searchable
\* unless it is data (scanner.py:91-138, repository.py:59-85,
\* indexer.py:251-303, 430-433).
ContentsAddUp ==
  /\ task = "limit" <=> task # "walk" /\ Cardinality({f \in Walked : Kept(f)}) > MaxFiles
  /\ task \notin {"walk", "limit"} =>
       /\ scan.paths = {f \in Walked : Kept(f)} /\ scan.total = Cardinality(scan.paths)
       /\ Cardinality(scan.paths) = Cardinality(scan.indexable)
                                      + scan.skipped["too_large"] + scan.skipped["path_too_long"]
       /\ scan.skipped["unreadable"] + scan.skipped["not_regular_file"] =
            Cardinality({f \in Walked : ~IsPruned(f) /\ entries[f].type # "file"})
  /\ \A f \in indexed : Kept(f) /\ ~entries[f].binary /\ ~entries[f].long
                          /\ entries[f].size <= MaxIndexedSize
  /\ \A f \in DOMAIN chunkedBy : f \in indexed /\ Len(chunkedBy[f]) = 1
  /\ task \in {"stored", "searchable"} =>
       /\ DOMAIN parsed \cap unparsed = {} /\ DOMAIN parsed \cup unparsed = Parseable
       /\ \A f \in scan.indexable \ misread :
            /\ f \in indexed \/ entries[f].binary
            /\ f \in unparsed => entries[f].size > MaxParsedSize
            /\ task = "searchable" /\ f \in indexed =>
                 (f \in DOMAIN chunkedBy <=> f \in DOMAIN parsed \/ ShouldChunk(f))

=============================================================================
