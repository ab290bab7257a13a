------------------------------ MODULE MCAnswers ------------------------------
(***************************************************************************)
(* What becomes of a checkout, and how it is read again: the files that    *)
(* are stored, the symbols of one file, the imports, the graph, the        *)
(* chunks, a ranking, and a read of the code while it is indexed anew.     *)
(* Each takes only the finished result of another, so each behaviour       *)
(* exercises one of them, the focus, while the others rest.                *)
(***************************************************************************)
EXTENDS CodeReads, Extraction, Chunking, Ranking, ImportResolver, DependencyGraph,
        RepositoryContents

VARIABLE focus

answersVars == <<focus, readsVars, extractionVars, chunkingVars, rankingVars, resolverVars,
                 graphVars, contentsVars>>

-----------------------------------------------------------------------------
(* Contents: every kind of entry, in trees of up to three.                 *)

Plain == [ignored |-> FALSE, type |-> "file", size |-> 1, long |-> FALSE, binary |-> FALSE,
          parser |-> "parsed", text |-> TRUE]
MCEntries ==
  {Plain, [Plain EXCEPT !.ignored = TRUE], [Plain EXCEPT !.type = "link"],
   [Plain EXCEPT !.type = "gone"], [Plain EXCEPT !.size = 2], [Plain EXCEPT !.size = 3],
   [Plain EXCEPT !.long = TRUE], [Plain EXCEPT !.binary = TRUE],
   [Plain EXCEPT !.parser = "failed"], [Plain EXCEPT !.parser = "none"],
   [Plain EXCEPT !.parser = "none", !.text = FALSE]}
MCTrees == UNION {[1..n -> MCEntries] : n \in 0..3}

-----------------------------------------------------------------------------
(* Extraction: each kind of node, with names that coincide.                *)

PyForm(kind, name) == [kind |-> kind, name |-> name]
MCPyForms ==
  {PyForm(kind, "") : kind \in {"call", "import", "if", "if typing", "return"}}
    \cup {PyForm("call", "f"), PyForm("function", "run"), PyForm("class", "_Base"), PyForm("all", "run"),
          PyForm("all +=", "_Base")}
EsForm(kind, name, bind, export) ==
  [kind |-> kind, name |-> name, bind |-> bind, export |-> export]
Bound(kind, bind) == EsForm(kind, "", bind, "no")
Named(kind, name) == EsForm(kind, name, "", "no")
MCEsForms ==
  {EsForm("function", "f", "", export) : export \in {"no", "named", "default"}}
    \cup {EsForm("class", "C", "", export) : export \in {"no", "named"}}
    \cup {EsForm("const", "", "", export) : export \in {"no", "named"}}
    \cup {EsForm("class", "K", "x", "no"), EsForm("type", "T", "", "named"),
          Bound("class", "x"), Bound("class", ""), Bound("arrow", "x"), Bound("arrow", ""),
          EsForm("call", "f", "x", "no"), EsForm("call", "f", "y", "no"), Named("call", "f"),
          Named("call", ""), Bound("value", "x"), Bound("value", ""),
          EsForm("memo", "memo", "x", "no"), Named("memo", "memo"), Named("jsx", "C"),
          Named("jsx", "div"), Named("method", "m"), Named("field", "g"), Named("import", ""),
          Named("re-export", "r"), Named("clause", "f"), Named("clause", "x"),
          Named("default", ""), Named("ident", "x"), Named("ident", "C"),
          Named("assign", "q"), Named("assign", "module.exports"), Named("object", "f"),
          Named("require", "./x"), Named("require", ""), Named("import()", "./x")}

\* Bound: what only names something stands in trees of two nodes, and trees
\* of four are of what opens or ends a scope.
TreeIsSmall ==
  \A i \in DOMAIN tree :
    /\ Len(tree) > 2 =>
         tree[i].kind \notin {"import", "re-export", "type", "require", "import()", "field"}
    /\ Len(tree) > 3 =>
         tree[i].kind \in {"function", "class", "arrow", "method", "call", "return"}

-----------------------------------------------------------------------------
(* Chunking: files of no, one and six lines, nested and adjacent symbols.  *)

\* A blank line has one character less than another one.
FileOf(kinds) ==
  [n \in DOMAIN kinds |->
     [kind |-> kinds[n], stop |-> 2 * n - Cardinality({m \in 1..n : kinds[m] = "blank"})]]
MCFiles == {FileOf(kinds) : kinds \in UNION {[1..n -> {"code", "marked", "blank"}] : n \in {0, 1, 6}}}
SymbolAt(start, end, parent) == [start |-> start, end |-> end, parent |-> parent]
\* Bound: a symbol begins with code.
SymbolsAreCode == \A n \in DOMAIN symbols : lines[symbols[n].start].kind = "code"
MCOutlines ==
  {<< >>, <<SymbolAt(1, 6, 0)>>,
   <<SymbolAt(1, 6, 0), SymbolAt(2, 3, 1), SymbolAt(5, 6, 1)>>,
   <<SymbolAt(2, 6, 0), SymbolAt(2, 4, 1), SymbolAt(4, 5, 1)>>,
   <<SymbolAt(1, 3, 0), SymbolAt(3, 6, 0)>>,
   <<SymbolAt(1, 6, 0), SymbolAt(1, 5, 1), SymbolAt(4, 4, 2)>>}
ChunkingConfig(max_lines, max_chars, overlap) ==
  [max_lines |-> max_lines, max_chars |-> max_chars, overlap |-> overlap, min_lines |-> 2]
MCConfigs == {ChunkingConfig(5, 100, 1), ChunkingConfig(5, 7, 9), ChunkingConfig(2, 1, 2),
              ChunkingConfig(3, 9, 0)}

-----------------------------------------------------------------------------
(* Ranking: each strategy, both ways to fuse, with and without a reranker. *)

Search(strategy, reranker, method) ==
  [strategy |-> strategy, reranker |-> reranker, topK |-> 2, candidates |-> 3,
   rerankCandidates |-> 2, method |-> method, rrfK |-> 1, bm25Weight |-> 1, denseWeight |-> 1]
MCRequests ==
  {Search("bm25", "none", "rrf"), Search("dense", "none", "rrf"), Search("hybrid", "none", "rrf"),
   Search("hybrid", "none", "weighted"), Search("hybrid_rerank", "none", "rrf"),
   Search("bm25", "cross", "rrf"), Search("dense", "other", "rrf"),
   [Search("hybrid", "none", "rrf") EXCEPT !.denseWeight = 0], Search("hybrid_rerank", "", "rrf")}
With(dense, embeds, rerankers, loads) ==
  [dense |-> dense, embeds |-> embeds, rerankers |-> rerankers, loads |-> loads,
   default |-> IF rerankers = {} THEN "none" ELSE "cross"]
MCEnvironments ==
  {With(TRUE, TRUE, {"cross"}, {"cross"}), With(TRUE, TRUE, {"cross"}, {}), With(TRUE, TRUE, {}, {}),
   With(TRUE, FALSE, {"cross"}, {"cross"}), With(FALSE, TRUE, {"cross"}, {"cross"})}

\* Bound: only the retrievers of the strategy find anything, and every chunk
\* has the same scores where the search is refused or other scores follow.
ScoresMatter ==
  /\ Uses("bm25") \/ \A c \in ChunkIds : lexical[c] = 0
  /\ ~Uses("dense") \/ Reranks => \A c \in ChunkIds : similarity[c] = 0
  /\ (Uses("dense") /\ ~(available.dense /\ available.embeds)) \/ available.rerankers = {} =>
       \A c \in ChunkIds : lexical[c] = 0 /\ similarity[c] = 0
  /\ available.rerankers # {} /\ available.loads = {} => Reranks

-----------------------------------------------------------------------------
(* Imports: Python packages with and without __init__, stubs and a module  *)
(* beside a package of its name; three tsconfig files that extend each     *)
(* other in every way.                                                     *)

PyFile(path) == File(path, "py")
PyCheckouts ==
  LET always == {PyFile(<<"m">>), PyFile(<<"a", "m">>)}
      some == {PyFile(<<"a", "__init__">>), PyFile(<<"x">>), PyFile(<<"a", "x">>),
               PyFile(<<"a", "x", "__init__">>), PyFile(<<"b", "a", "x">>),
               PyFile(<<"b", "__init__">>), PyFile(<<"b", "a", "__init__">>),
               File(<<"a", "x">>, "pyi"), PyFile(<<"c-d", "x">>)}
  IN {[files |-> always \cup S, configs |-> << >>] : S \in SUBSET some}
PyImport(importer, level, dotted, names) ==
  [importer |-> PyFile(importer), level |-> level, dotted |-> dotted, names |-> names]
MCPythonImports ==
  {PyImport(<<"m">>, 0, <<"a", "x">>, {}), PyImport(<<"a", "m">>, 0, <<"x">>, {}),
   PyImport(<<"a", "m">>, 0, <<"a">>, {"x"}), PyImport(<<"a", "m">>, 1, << >>, {"x"}),
   PyImport(<<"a", "m">>, 2, <<"x">>, {}), PyImport(<<"a", "m">>, 3, <<"a">>, {"x"}),
   PyImport(<<"b", "a", "x">>, 2, <<"a">>, {"x"}), PyImport(<<"m">>, 0, <<"os">>, {}),
   PyImport(<<"a", "m">>, 1, <<"__init__">>, {}), PyImport(<<"c-d", "x">>, 1, << >>, {"x"})}

JsCheckouts ==
  LET places == <<[directory |-> << >>, name |-> "tsconfig"],
                  [directory |-> <<"p">>, name |-> "jsconfig"],
                  [directory |-> <<"p", "cfg">>, name |-> "base"]>>
      alias == [prefix |-> <<"@">>, wild |-> TRUE, to |-> <<"lib">>]
      exact == [prefix |-> <<"@", "x">>, wild |-> FALSE, to |-> <<"x">>]
      options == [base : {NotSet, <<"lib">>}, paths : {NotSet, <<exact, alias>>}]
      TsConfig(c, extends, own, valid) ==
        [directory |-> places[c].directory, name |-> places[c].name, extends |-> extends,
         base |-> own.base, paths |-> own.paths, valid |-> valid]
      OptionsOf(c, o) == IF c = 3 THEN [base |-> <<"lib">>, paths |-> <<exact, alias>>] ELSE o[c]
  IN {[files |-> {File(<<"m">>, "ts"), File(<<"p", "m">>, "ts"), File(<<"lib", "x">>, "ts"),
                  File(<<"x">>, "ts"), File(<<"p", "x", "index">>, "js")},
       configs |-> [c \in 1..3 |-> TsConfig(c, e[c], OptionsOf(c, o), c # 3 \/ valid)]] :
        e \in [1..3 -> 1..3 \cup {NotSet}], o \in [1..2 -> options], valid \in BOOLEAN}
MCCheckouts == PyCheckouts \cup JsCheckouts
JsImport(importer, kind, up, path, ext) ==
  [importer |-> File(importer, "ts"),
   specifier |-> [kind |-> kind, up |-> up, path |-> path, ext |-> ext]]
MCJsImports ==
  {JsImport(<<"m">>, "bare", 0, <<"@", "x">>, ""), JsImport(<<"p", "m">>, "bare", 0, <<"@", "x">>, ""),
   JsImport(<<"p", "m">>, "relative", 0, <<"x">>, ""), JsImport(<<"p", "m">>, "relative", 1, <<"x">>, "js"),
   JsImport(<<"p", "m">>, "relative", 2, <<"x">>, ""), JsImport(<<"m">>, "absolute", 0, <<"node">>, "")}

-----------------------------------------------------------------------------
(* Graphs: a component over two modules that re-export each other, three   *)
(* Python classes that inherit in every way, cycles included, and four of  *)
(* which two have a base in common.                                        *)

MCNames == {"x", "y", "default", "m", "run", "ns", "self"}
Sym(name, kind, parent, exported, default, bases) ==
  [name |-> name, kind |-> kind, parent |-> parent, exported |-> exported, default |-> default,
   bases |-> bases]
Top0(name, kind, exported, default) == Sym(name, kind, 0, exported, default, << >>)
Import(kind, target, confirmed, names) ==
  [kind |-> kind, target |-> target, confirmed |-> confirmed, names |-> names, submodules |-> << >>]
As(name, local) == [name |-> name, local |-> local]
CallOf(caller, callee, kind) == [caller |-> caller, callee |-> callee, kind |-> kind]
Analysed(lang, syms, imports, exports, calls) ==
  [language |-> lang, symbols |-> syms, imports |-> imports, exports |-> exports, calls |-> calls]

AppImports ==
  {<<Import("import", 2, TRUE, <<As("x", <<"x">>)>>), Import("import", 3, FALSE, <<As("default", <<"y">>)>>)>>,
   <<Import("import", 2, FALSE, <<As("*", <<"ns">>)>>), Import("import", 2, TRUE, << >>),
     Import("import", 2, FALSE, << >>)>>}
Apps == {Analysed("typescript", <<Top0("run", "component", FALSE, FALSE)>>, imports, << >>,
                  <<CallOf(1, <<"x">>, "calls"), CallOf(1, <<"y">>, "renders"),
                    CallOf(1, <<"ns", "x">>, "calls"), CallOf(0, <<"x">>, "calls"),
                    CallOf(1, <<"run">>, "calls")>>) : imports \in AppImports}
ReExports(to) ==
  {<< >>, <<Import("re_export", to, TRUE, <<As("*", <<"*">>)>>)>>,
   <<Import("re_export", to, TRUE, <<As("y", <<"x">>)>>)>>,
   <<Import("re_export", to, TRUE, <<As("default", <<"x">>), As("x", <<"default">>)>>)>>,
   <<Import("re_export", to, TRUE, <<As("*", <<"ns">>), As("x", <<"y">>)>>),
     Import("re_export", to, FALSE, <<As("*", <<"*">>)>>)>>}
Modules ==
  {[syms |-> << >>, exports |-> << >>],
   [syms |-> <<Top0("x", "function", TRUE, FALSE)>>, exports |-> <<As("x", "x")>>],
   [syms |-> <<Top0("x", "function", FALSE, FALSE)>>, exports |-> << >>],
   [syms |-> <<Top0("y", "component", TRUE, TRUE)>>, exports |-> <<As("default", "default")>>],
   [syms |-> <<Top0("y", "function", TRUE, FALSE), Top0("x", "function", TRUE, FALSE)>>,
    exports |-> <<As("x", "y"), As("y", "x")>>]}
Barrels(to) == {Analysed("typescript", own.syms, reExports, own.exports, << >>) :
                  own \in Modules, reExports \in UNION {ReExports(t) : t \in to}}
JsProjects == {<<a, b, c>> : a \in Apps, b \in Barrels({3}), c \in Barrels({2, 3})}

ClassWith(name, bases, has) ==
  <<Sym(name, "class", 0, TRUE, FALSE, bases),
    Sym(IF has THEN "m" ELSE "run", "method", 1, FALSE, FALSE, << >>)>>
BaseLists == {<< >>, <<<<"y">>>>, <<<<"x">>, <<"y">>>>, <<<<"x">>>>}
Submodule == [Import("from", 0, TRUE, <<As("m", <<"m">>)>>) EXCEPT !.submodules = <<[name |-> "m", target |-> 2, confirmed |-> TRUE]>>]
FromImport(target, name) == Import("from", target, TRUE, <<As(name, <<name>>)>>)
PyProjects ==
  {<<Analysed("python", ClassWith("x", b[1], has[1]), <<FromImport(2, "y")>>, << >>,
              <<CallOf(2, <<"self", "m">>, "calls"), CallOf(2, <<"y", "m">>, "calls")>>),
     Analysed("python", ClassWith("y", b[2], has[2]), <<FromImport(3, "x")>>, << >>,
              <<CallOf(2, <<"self", "m">>, "calls")>>),
     Analysed("python", ClassWith("x", b[3], has[3]) \o <<Top0("y", "function", TRUE, FALSE)>>,
              <<FromImport(target, "y"), Submodule>>, << >>, <<CallOf(3, <<"m", "y">>, "calls")>>)>> :
      b \in [1..3 -> BaseLists], has \in [1..3 -> BOOLEAN], target \in {0, 1}}
\* The class run of y and ns, which have the base x in common.
Diamond(has) ==
  LET Derived(n, name, bases) ==
        <<Sym(name, "class", 0, TRUE, FALSE, bases),
          Sym(IF has[n] THEN "m" ELSE "default", "method", 2 * n - 1, FALSE, FALSE, << >>)>>
  IN Analysed("python", Derived(1, "x", << >>) \o Derived(2, "y", <<<<"x">>>>) \o Derived(3, "ns", <<<<"x">>>>)
                          \o Derived(4, "run", <<<<"y">>, <<"ns">>>>),
              << >>, << >>, <<CallOf(8, <<"self", "m">>, "calls")>>)
MCProjects ==
  {<< >>} \cup JsProjects \cup PyProjects \cup {<<Diamond(has)>> : has \in [1..4 -> BOOLEAN]}

-----------------------------------------------------------------------------

Foci == {"contents", "extraction", "imports", "graph", "chunking", "ranking", "reads"}

\* A component at rest has nothing to work on.
AnswersInit ==
  /\ focus \in Foci
  /\ IF focus = "reads" THEN ReadsInit ELSE ReadsInit /\ indexedIn = {}
  /\ IF focus = "extraction" THEN ExtractionInit ELSE AnalysisInit /\ language = "python"
  /\ IF focus = "chunking" THEN ChunkingInit /\ SymbolsAreCode
     ELSE /\ lines = << >> /\ symbols = << >> /\ config = ChunkingConfig(5, 100, 1)
          /\ symbolsLeft = {} /\ todo = {} /\ chunks = {} /\ phase = "structure"
  /\ IF focus = "ranking" THEN RankingInit /\ ScoresMatter
     ELSE /\ request = Search("bm25", "none", "rrf") /\ available = With(TRUE, TRUE, {}, {})
          /\ lexical = [c \in ChunkIds |-> 0] /\ similarity = lexical
          /\ bm25List = << >> /\ denseList = << >> /\ ranking = << >> /\ hits = << >>
          /\ searchStep = "check"
  /\ IF focus = "imports" THEN ResolverInit
     ELSE /\ source = [files |-> {}, configs |-> << >>] /\ loaded = << >> /\ frames = << >>
          /\ asked = Nothing /\ answer = Nothing
  /\ IF focus = "graph" THEN GraphInit ELSE project = << >> /\ pending = << >> /\ edges = << >>
  /\ IF focus = "contents" THEN ContentsInit
     ELSE /\ entries = << >> /\ task = "walk" /\ at = 1 /\ scan = NoScan /\ indexed = {}
          /\ parsed = << >> /\ unparsed = {} /\ chunkedBy = << >> /\ misread = {}

Only(component, others) == focus = component /\ UNCHANGED <<focus, others>>

AnswersNext ==
  \/ /\ ReadsNext
     /\ Only("reads", <<extractionVars, chunkingVars, rankingVars, resolverVars, graphVars, contentsVars>>)
  \/ /\ ExtractionNext /\ TreeIsSmall'
     /\ Only("extraction", <<readsVars, chunkingVars, rankingVars, resolverVars, graphVars, contentsVars>>)
  \/ /\ ChunkingNext
     /\ Only("chunking", <<readsVars, extractionVars, rankingVars, resolverVars, graphVars, contentsVars>>)
  \/ /\ RankingNext
     /\ Only("ranking", <<readsVars, extractionVars, chunkingVars, resolverVars, graphVars, contentsVars>>)
  \/ /\ ResolverNext
     /\ Only("imports", <<readsVars, extractionVars, chunkingVars, rankingVars, graphVars, contentsVars>>)
  \/ /\ GraphNext
     /\ Only("graph", <<readsVars, extractionVars, chunkingVars, rankingVars, resolverVars, contentsVars>>)
  \/ /\ ContentsNext
     /\ Only("contents", <<readsVars, extractionVars, chunkingVars, rankingVars, resolverVars, graphVars>>)

AnswersSpec == AnswersInit /\ [][AnswersNext]_answersVars

=============================================================================
