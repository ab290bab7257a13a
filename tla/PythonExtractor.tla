--------------------------- MODULE PythonExtractor ---------------------------
(***************************************************************************)
(* _PythonExtractor of analysis/python.py.  A definition is one node whose *)
(* fields are its decorators, its arguments (parameters, or the bases of a *)
(* class), its body, and as "header" what is around them: the type         *)
(* parameters and the annotation of the result.  The name of a call is its *)
(* callee, "" when that is no name or attribute or contains a call or an   *)
(* index, as in f()(), a().b() and d[k]().                                 *)
(***************************************************************************)
EXTENDS SourceAnalysis

CONSTANT PyForms   \* nodes of a Python file: kind and name

PyDefinitions == {"function", "class"}
PyStatements == PyDefinitions \cup {"call", "import", "if", "if typing", "return", "all", "all +="}
IsDefinition(i) == Kind(i) \in PyDefinitions

ASSUME PyFormsAssumption ==
  \A form \in PyForms :
    form.kind \in PyStatements /\ (form.kind \in PyDefinitions => form.name # "")

\* Which trees the grammar allows.
PyPlaces(form, up) ==
  \/ Kind(up) = "root" /\ form.kind # "return"
  \/ IsDefinition(up) \/ Kind(up) \in {"if", "if typing"}
  \/ Kind(up) \in {"call", "return"} /\ form.kind = "call"
PyFields(form, up) ==
  IF ~IsDefinition(up) THEN {"body"}
  ELSE LET placed == {tree[j].field : j \in {k \in Nodes : Up(k) = up}}
           fields == (IF "body" \in placed THEN {} ELSE {"args", "header"})
                       \cup (IF placed \subseteq {"decorator"} THEN {"decorator"} ELSE {})
       IN {"body"} \cup IF form.kind = "call" THEN fields ELSE {}

PyGrows ==
  \E form \in PyForms, up \in OpenNodes :
    /\ PyPlaces(form, up)
    /\ \E field \in PyFields(form, up) :
         Grows([kind |-> form.kind, name |-> form.name, up |-> up, field |-> field])

-----------------------------------------------------------------------------
(* The walk.                                                               *)

\* A decorated definition is visited twice: first its wrapper.
Wrapper(i) == ChildrenIn(i, {"decorator"}) # << >>
PyEntries(nodes, owner) ==
  Reverse([n \in DOMAIN nodes |->
             [node |-> nodes[n], owner |-> owner, context |-> Wrapper(nodes[n])]])

PyParsed ==
  /\ stage = "parse"
  /\ stage' = "walk"
  /\ stack' = PyEntries(Children(0), 0)
  /\ UNCHANGED <<tree, result>>

PyKind(i, owner) ==
  IF Kind(i) = "class" THEN "class"
  ELSE IF owner # 0 /\ result.symbols[owner].kind = "class" THEN "method" ELSE "function"

AddSymbol(i, owner) ==
  [result EXCEPT !.symbols = Append(@,
     [node |-> i, name |-> tree[i].name, kind |-> PyKind(i, owner), parent |-> owner,
      exported |-> FALSE, returns |-> FALSE])]

\* Decorators are visited before the definition, in the enclosing scope.
VisitDecorated ==
  /\ Top.context
  /\ stack' = Popped \o <<[Top EXCEPT !.context = FALSE]>>
                     \o Reverse(PyEntries(ChildrenIn(Top.node, {"decorator"}), Top.owner))
  /\ UNCHANGED result

\* The arguments are taken for a part of the definition.
VisitDefinitionWhole ==
  /\ IsDefinition(Top.node) /\ ~Top.context
  /\ IF SymbolsFull THEN result' = Truncated /\ stack' = Popped
     ELSE /\ result' = AddSymbol(Top.node, Top.owner)
          /\ stack' = Popped \o PyEntries(ChildrenIn(Top.node, {"args", "body"}), NextKey)

\* Default values and base classes belong to the enclosing scope, and
\* nothing else around the body is visited; a definition past the limit is
\* dropped with everything in it.
VisitDefinition ==
  /\ IsDefinition(Top.node) /\ ~Top.context
  /\ IF SymbolsFull THEN result' = Truncated /\ stack' = Popped
     ELSE /\ result' = AddSymbol(Top.node, Top.owner)
          /\ stack' = Popped \o PyEntries(ChildrenIn(Top.node, {"body"}), NextKey)
                             \o PyEntries(ChildrenIn(Top.node, {"args"}), Top.owner)

\* The statements around a node, up to the next definition.
Around(i) ==
  LET above[j \in Nodes \cup {0}] ==
        IF Kind(j) \in PyDefinitions \cup {"root"} THEN {} ELSE {Kind(j)} \cup above[Up(j)]
  IN above[Up(i)]

VisitImport ==
  /\ Kind(Top.node) = "import"
  /\ result' = [result EXCEPT !.imports = Append(@,
       [node |-> Top.node,
        scope |-> IF Top.owner = 0 THEN "module" ELSE result.symbols[Top.owner].kind,
        conditional |-> Around(Top.node) \cap {"if", "if typing"} # {},
        typeOnly |-> "if typing" \in Around(Top.node)])]
  /\ stack' = Popped

\* _add_call; what a call contains is visited in any case.
VisitCall ==
  /\ Kind(Top.node) = "call"
  /\ result' = IF tree[Top.node].name = "" THEN result
               ELSE [result EXCEPT !.calls = Append(@, [node |-> Top.node, caller |-> Top.owner])]
  /\ stack' = Popped \o PyEntries(Children(Top.node), Top.owner)

VisitOther ==
  /\ Kind(Top.node) \in {"if", "if typing", "return", "all", "all +="}
  /\ result' = IF Kind(Top.node) = "return" /\ Top.owner # 0
                    /\ result.symbols[Top.owner].kind \in {"function", "method"}
               THEN [result EXCEPT !.symbols[Top.owner].returns = TRUE] ELSE result
  /\ stack' = Popped \o PyEntries(Children(Top.node), Top.owner)

PyVisit ==
  /\ stage = "walk" /\ stack # << >>
  /\ VisitDecorated \/ VisitDefinition \/ VisitImport \/ VisitCall \/ VisitOther
  /\ UNCHANGED <<tree, stage>>

-----------------------------------------------------------------------------
(* Exports.                                                                *)

\* The names of __all__ in the statements of the module: "=" begins anew,
\* "+=" adds.  << >> when there is none; an empty list is not in the trees.
DunderAll ==
  FoldLeft(LAMBDA names, i :
             CASE Kind(i) = "all" -> <<tree[i].name>>
               [] Kind(i) = "all +=" -> Append(names, tree[i].name)
               [] OTHER -> names,
           << >>, Children(0))

CONSTANT Private   \* names that begin with an underscore

AtTopLevel(symbol) == symbol.parent = 0

\* With __all__ its names are exported, without it every public symbol of
\* the module.
ApplyExports ==
  /\ stage = "walk" /\ stack = << >>
  /\ stage' = "done"
  /\ LET IsExported(symbol) ==
           /\ AtTopLevel(symbol)
           /\ IF DunderAll # << >> THEN symbol.name \in ToSet(DunderAll)
              ELSE symbol.name \notin Private
         local == {s.name : s \in {t \in ToSet(result.symbols) : AtTopLevel(t)}}
         public == Sorted({k \in DOMAIN result.symbols : IsExported(result.symbols[k])})
     IN result' = [result EXCEPT
          !.symbols = [k \in DOMAIN @ |->
                         [result.symbols[k] EXCEPT !.exported = IsExported(result.symbols[k])]],
          !.exports =
            IF DunderAll # << >>
            THEN [k \in DOMAIN DunderAll |->
                    [name |-> DunderAll[k],
                     local |-> IF DunderAll[k] \in local THEN DunderAll[k] ELSE ""]]
            ELSE [n \in DOMAIN public |-> LET name == result.symbols[public[n]].name IN
                    [name |-> name, local |-> name]]]
  /\ UNCHANGED <<tree, stack>>

PyNext == PyGrows \/ PyParsed \/ PyVisit \/ ApplyExports

-----------------------------------------------------------------------------
(* The scopes of Python, from the tree alone.                              *)

PySymbolic(i) == IsDefinition(i)

\* The definition in whose body a node is; decorators and arguments are not.
PyScope[i \in Nodes \cup {0}] ==
  IF i = 0 \/ Up(i) = 0 THEN 0
  ELSE IF IsDefinition(Up(i)) /\ tree[i].field = "body" THEN Up(i)
       ELSE PyScope[Up(i)]

=============================================================================
