------------------------------ MODULE Extraction ------------------------------
(***************************************************************************)
(* The analysis of one Python or ECMAScript file, and what both analyzers  *)
(* promise of it.                                                          *)
(***************************************************************************)
EXTENDS PythonExtractor, EcmaScriptExtractor, FiniteSets

VARIABLE language

extractionVars == <<analysisVars, language>>

ExtractionInit == AnalysisInit /\ language \in {"python", "ecmascript"}

ExtractionNext ==
  /\ \/ language = "python" /\ PyNext
     \/ language = "ecmascript" /\ EsNext
  /\ UNCHANGED language

ExtractionSpec == ExtractionInit /\ [][ExtractionNext]_extractionVars

IsSymbolOf(i) ==
  IF language = "python" THEN PySymbolic(i) ELSE IsSymbol(i, EsScope[i])
Scope(i) == IF language = "python" THEN PyScope[i] ELSE EsScope[i]
CallScope(i) == IF language = "python" THEN PyScope[i] ELSE EsCallScope(i)

Recorded == {s.node : s \in ToSet(result.symbols)}
KeyOf(i) ==
  IF i \in Recorded THEN CHOOSE k \in DOMAIN result.symbols : result.symbols[k].node = i ELSE 0
\* What is recorded as a call: not what has no name, no element of HTML, no
\* wrapper of a component and nothing in a header.
CallNodes ==
  {i \in Nodes :
     /\ ~InHeader(i)
     /\ \/ Kind(i) = "call" /\ tree[i].name # ""
        \/ Kind(i) = "memo" /\ ~IsWrapper(i)
        \/ Kind(i) = "jsx" /\ tree[i].name \in Capitalised}

\* Every symbol has the parent and every call the caller that the scopes of
\* the language give it, although decorators, default values and bases are
\* visited after or before the body they stand at and declarators are taken
\* backwards; parents come first (results.py:60).  Exactly the definitions
\* and the CallNodes are taken, each once, unless the file is marked as
\* truncated, which it is only at the limit (python.py:73-163,
\* ecmascript.py:132-350).  So a call is lost only when its callee is no name
\* or path of names (python.py:345-351, ecmascript.py:682-687), or where the
\* walk does not go: into an annotation of a result, type parameters, or the
\* heritage and the decorators of a class (python.py:94-99,
\* ecmascript.py:288-304).  Nor does it go, and the trees have no nodes there,
\* into what a field that holds a function has besides the function, the
\* later arguments of a component wrapper, the pattern a declarator binds and
\* the members of an enum (ecmascript.py:260-281, 321-367).
ScopesAreRight ==
  stage = "done" =>
    /\ \A k \in DOMAIN result.symbols :
         LET s == result.symbols[k] IN
           /\ IsSymbolOf(s.node) /\ KeyOf(s.node) = k
           /\ s.parent = KeyOf(Scope(s.node)) /\ s.parent < k
    /\ \A c \in ToSet(result.calls) :
         c.node \in CallNodes /\ c.caller = KeyOf(CallScope(c.node))
    /\ IF result.truncated THEN SymbolsFull
       ELSE /\ \A i \in Nodes : IsSymbolOf(i) => i \in Recorded
            /\ \A i \in CallNodes :
                 Cardinality({n \in DOMAIN result.calls : result.calls[n].node = i}) = 1

ModuleSymbols == {t \in ToSet(result.symbols) : t.parent = 0}
HasTwoNames(t) ==
  language = "ecmascript" /\ Kind(t.node) = "class" /\ PlaceName(t.node) \notin {"", t.name}

\* A symbol of the module is marked as exported if and only if the list of
\* exports has an entry for its name, except a class expression that has a
\* name of its own besides the one it is exported by (python.py:368-391,
\* ecmascript.py:473-643, 858-875).
ExportsAgree ==
  stage = "done" =>
    \A s \in ModuleSymbols :
      \/ \E t \in ModuleSymbols : t.name = s.name /\ HasTwoNames(t)
      \/ (\E e \in ToSet(result.exports) : e.local = s.name)
           <=> \E t \in ModuleSymbols : t.name = s.name /\ t.exported

=============================================================================
