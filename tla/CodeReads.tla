------------------------------ MODULE CodeReads ------------------------------
(***************************************************************************)
(* CodeService of services/code_service.py reads one path of a repository  *)
(* while an indexing job or a deletion goes on.  Every statement of a read *)
(* has a snapshot of its own (READ COMMITTED), and the file is not in the  *)
(* database at all.  Rows and checkout carry the number of the indexing    *)
(* run that wrote them, 0 for none.                                        *)
(***************************************************************************)
EXTENDS Integers, Sequences

CONSTANT MaxRuns   \* bound: indexing runs

ASSUME ReadsAssumption == MaxRuns \in Nat \ {0}

VARIABLES
  tables,    \* the committed rows: whether the repository is registered, and the run
  indexedIn, \* the runs whose commit has the path
  parsedIn,  \* the runs that parsed it
  checkout,  \* run of the files on disk, and whether some are missing
  writer,    \* what the indexing job or the deletion is doing
  runs,      \* runs so far
  read       \* the request

diskVars == <<checkout, writer, runs>>
readsVars == <<tables, indexedIn, parsedIn, diskVars, read>>

Runs == 1..MaxRuns
Absent == [run |-> 0, whole |-> TRUE]

\* The statements of each operation, in order.
ListFiles == <<"repository", "count", "items">>
FileContent == <<"repository", "indexed_file", "file">>
FileDetail == <<"repository", "code_file", "edges", "paths", "symbols", "imports">>
FileSymbols == <<"repository", "code_file", "symbols">>
SearchSymbols == <<"repository", "count", "items">>

\* Relationships of the repository, or of one of its files or symbols.
ListRelationships == <<"repository", "count", "edges", "paths", "references">>
RelationshipsOf(filter) == <<"repository", filter, "count", "edges", "paths", "references">>

Statements ==
  [files |-> ListFiles, content |-> FileContent, detail |-> FileDetail,
   symbols |-> FileSymbols, search |-> SearchSymbols,
   relations |-> ListRelationships,
   relationsOf |-> RelationshipsOf("code_file"),
   relationsWith |-> RelationshipsOf("symbol")]
ReadOps == DOMAIN Statements

NoRead == [op |-> "none"]

\* A client may know the id of a symbol of any run.
NewRead(op, known) ==
  [op |-> op, next |-> 1, found |-> << >>, id |-> known, disturbed |-> FALSE,
   answer |-> "none"]

ReadsInit ==
  /\ tables = [registered |-> TRUE, run |-> 0]
  /\ indexedIn \in SUBSET Runs
  /\ parsedIn \in SUBSET indexedIn
  /\ checkout = Absent /\ writer = "idle" /\ runs = 0
  /\ read = NoRead

-----------------------------------------------------------------------------
(* The writer: RepositoryIndexer and delete_repository, of which reads see *)
(* only when rows and files change.                                        *)

\* New rows disturb a read that has begun.
Commit(new) ==
  /\ tables' = new
  /\ read' = IF read = NoRead THEN read ELSE [read EXCEPT !.disturbed = TRUE]

\* The rows are replaced before the checkout.
RunBeginsWithItsRows ==
  /\ writer = "idle" /\ tables.registered /\ runs < MaxRuns
  /\ runs' = runs + 1 /\ writer' = "install"
  /\ Commit([tables EXCEPT !.run = runs + 1])
  /\ UNCHANGED <<indexedIn, parsedIn, checkout>>

RunBegins ==
  /\ writer = "idle" /\ tables.registered /\ runs < MaxRuns
  /\ runs' = runs + 1 /\ writer' = "install"
  /\ UNCHANGED <<tables, indexedIn, parsedIn, checkout, read>>

\* storage.install removes the old checkout and moves the new one there.
RemoveCheckoutOfLastRun ==
  /\ writer = "install"
  /\ writer' = "move"
  /\ checkout' = Absent
  /\ UNCHANGED <<tables, indexedIn, parsedIn, runs, read>>

MoveCheckout ==
  /\ writer = "move"
  /\ writer' = "complete"
  /\ checkout' = [run |-> runs, whole |-> TRUE]
  /\ UNCHANGED <<tables, indexedIn, parsedIn, runs, read>>

\* _complete replaces the rows of files, symbols, imports and relationships
\* in one transaction; the new rows have new ids.
Complete ==
  /\ writer = "complete" /\ tables.registered
  /\ writer' = "idle"
  /\ Commit([tables EXCEPT !.run = runs])
  /\ UNCHANGED <<indexedIn, parsedIn, checkout, runs>>

\* The run fails or the process dies between any two of these steps.
RunFails ==
  /\ writer \in {"install", "move", "complete"}
  /\ writer' = "idle"
  /\ UNCHANGED <<tables, indexedIn, parsedIn, checkout, runs, read>>

\* The deletion commits first and removes files afterwards, some or all.
DeleteRows ==
  /\ writer = "idle" /\ tables.registered
  /\ writer' = "deleted"
  /\ Commit([registered |-> FALSE, run |-> 0])
  /\ UNCHANGED <<indexedIn, parsedIn, checkout, runs>>

RemoveFiles ==
  /\ writer = "deleted" /\ checkout # Absent
  /\ checkout' \in {Absent, [checkout EXCEPT !.whole = FALSE]}
  /\ UNCHANGED <<tables, indexedIn, parsedIn, writer, runs, read>>

-----------------------------------------------------------------------------
(* The reader.                                                             *)

StartRead(op, known) ==
  /\ read = NoRead
  /\ read' = NewRead(op, known)
  /\ UNCHANGED <<tables, indexedIn, parsedIn, diskVars>>

Statement == Statements[read.op][read.next]
LastStatement == Len(Statements[read.op])

Respond(code) ==
  /\ read' = [read EXCEPT !.answer = code]
  /\ UNCHANGED <<tables, indexedIn, parsedIn, diskVars>>

\* A statement found rows of a run (0: nothing); the answer is sent after
\* the last one.
Found(run, id) ==
  /\ read' = [read EXCEPT !.found = Append(@, run), !.id = id,
                          !.next = @ + 1,
                          !.answer = IF read.next = LastStatement THEN "ok" ELSE @]
  /\ UNCHANGED <<tables, indexedIn, parsedIn, diskVars>>

Executes(statements) == read # NoRead /\ read.answer = "none" /\ Statement \in statements

\* Ids that a later run uses again.
FoundBySurvivingId(id) == tables.run

\* Rows that are looked up by id: every run inserts new ones.
FoundById(id) == IF tables.run = id THEN id ELSE 0

\* _repository; a repository without a checkout has no contents to show.
ReadRepository ==
  /\ Executes({"repository"})
  /\ CASE ~tables.registered -> Respond("not_found")
       [] tables.registered /\ tables.run = 0 /\ read.op = "content" ->
            Respond("repository_not_indexed")
       [] OTHER -> Found(tables.run, read.id)

\* get_indexed_file.
ReadIndexedFile ==
  /\ Executes({"indexed_file"})
  /\ IF tables.run \in indexedIn THEN Found(tables.run, tables.run)
     ELSE Respond("file_not_found")

\* read_text_file opens the path in the checkout of the repository.
ReadFile ==
  /\ Executes({"file"})
  /\ \/ checkout.run \in indexedIn /\ Found(checkout.run, read.id)
     \/ (checkout.run \notin indexedIn \/ ~checkout.whole) /\ Respond("file_not_viewable")

\* _code_file: get_by_path, and when that finds nothing a second statement
\* tells why.
ReadCodeFile ==
  /\ Executes({"code_file"})
  /\ IF tables.run \in parsedIn THEN Found(tables.run, tables.run)
     ELSE /\ read' = [read EXCEPT !.answer = "unparsed"]
          /\ UNCHANGED <<tables, indexedIn, parsedIn, diskVars>>

\* The second statement looks for the file that was not found.
ReadWhyNoCodeFileAgain ==
  /\ read # NoRead /\ read.answer = "unparsed"
  /\ Respond(IF tables.run \in parsedIn THEN "file_not_analyzed" ELSE "file_not_found")

ReadWhyNoCodeFile ==
  /\ read # NoRead /\ read.answer = "unparsed"
  /\ Respond(IF tables.run \in indexedIn THEN "file_not_analyzed" ELSE "file_not_found")

\* The symbol that relationships are asked for.
ReadSymbol ==
  /\ Executes({"symbol"})
  /\ IF FoundById(read.id) # 0 THEN Found(read.id, read.id) ELSE Respond("symbol_not_found")

\* Counts and pages are selected by repository, or by the id of the file or
\* of the symbol.
ReadPage ==
  /\ Executes({"count", "items", "edges"})
  /\ IF read.op \in {"detail", "relationsOf", "relationsWith"}
     THEN Found(FoundById(read.id), read.id)
     ELSE Found(tables.run, tables.run)

\* Paths and symbols of the edges, and what belongs to the file, by their ids.
ReadDetails ==
  /\ Executes({"paths", "references", "symbols", "imports"})
  /\ Found(FoundById(read.id), read.id)

Answered == read # NoRead /\ read.answer \notin {"none", "unparsed"}

NextRead ==
  /\ Answered
  /\ read' = NoRead
  /\ UNCHANGED <<tables, indexedIn, parsedIn, diskVars>>

ReadsNext ==
  \/ RunBegins \/ RemoveCheckoutOfLastRun \/ MoveCheckout \/ Complete \/ RunFails
  \/ DeleteRows \/ RemoveFiles
  \/ \E op \in ReadOps, known \in Runs : StartRead(op, known)
  \/ ReadRepository \/ ReadIndexedFile \/ ReadFile \/ ReadCodeFile \/ ReadWhyNoCodeFile
  \/ ReadSymbol \/ ReadPage \/ ReadDetails \/ NextRead

ReadsSpec == ReadsInit /\ [][ReadsNext]_readsVars

-----------------------------------------------------------------------------
(* Properties.                                                             *)

ReadsTypeOK ==
  /\ tables \in [registered : BOOLEAN, run : 0..MaxRuns]
  /\ indexedIn \subseteq Runs /\ parsedIn \subseteq indexedIn
  /\ checkout \in [run : 0..MaxRuns, whole : BOOLEAN]
  /\ writer \in {"idle", "install", "move", "complete", "deleted"}
  /\ runs \in 0..MaxRuns
  /\ read = NoRead \/
       /\ read.op \in ReadOps /\ read.id \in 0..MaxRuns
       /\ read.next \in 1..(LastStatement + 1) /\ Len(read.found) = read.next - 1

\* What the statement found in the answer.
Piece(statement) ==
  LET i == CHOOSE i \in 1..LastStatement : Statements[read.op][i] = statement IN read.found[i]
Has(statement) == \E i \in 1..LastStatement : Statements[read.op][i] = statement
Pieces(statements) == {Piece(s) : s \in {t \in statements : Has(t)}}

\* An answer describes one run: although every statement has its own
\* snapshot, a file is never shown with the symbols, imports or paths of
\* another run; they are missing when that run was replaced meanwhile.  The
\* total of a page is the one exception (code_service.py:129-179, 247-282).
AnswerOfOneRun ==
  Answered /\ read.answer = "ok" /\ read.op # "content" =>
    \E run \in 0..MaxRuns :
      Pieces({"code_file", "symbol", "items", "edges", "paths", "references", "symbols", "imports"})
        \subseteq {0, run}

\* A read during which no rows were committed is complete and true: every
\* statement found the rows of the same run, and a refusal agrees with them
\* (code_service.py:284-301).
UndisturbedAnswerIsTrue ==
  Answered /\ ~read.disturbed =>
    /\ read.answer = "ok" =>
         \A i \in 1..LastStatement : Statements[read.op][i] # "file" => read.found[i] = tables.run
    /\ read.answer = "not_found" => ~tables.registered
    /\ read.answer = "file_not_found" => tables.run \notin indexedIn
    /\ read.answer = "file_not_analyzed" => tables.run \in indexedIn \ parsedIn
    /\ read.answer = "symbol_not_found" => read.id # tables.run

\* The contents that a reader gets are never older than the row they were
\* looked up by: the checkout is replaced before the rows, and removed after
\* them (code_service.py:113-126).
ContentIsNeverOlderThanItsRow ==
  Answered /\ read.answer = "ok" /\ read.op = "content" =>
    Piece("file") >= Piece("indexed_file")

=============================================================================
