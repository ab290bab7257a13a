------------------------- MODULE EcmaScriptExtractor -------------------------
(***************************************************************************)
(* _EcmaScriptExtractor of analysis/ecmascript.py.  A declaration and the  *)
(* export statement around it are one node, as are a declarator and its    *)
(* value: "bind" is the name that a value is bound to, "export" how its    *)
(* declaration is exported.  What a class has around its body (heritage,   *)
(* decorators, type parameters) is its header.  The name of a call is its  *)
(* callee, "" when that is no name or member of one or contains a call or  *)
(* an index, as in super(), f()() and a[0](); that of require and import() *)
(* is the module, "" when it is no literal; that of JSX its element.       *)
(***************************************************************************)
EXTENDS SourceAnalysis

CONSTANTS
  EsForms,      \* nodes of a file: kind, name, bind and export
  Capitalised   \* names that begin with a capital

FunctionValues == {"arrow"}
ClassNodes == {"class"}
Values == {"arrow", "class", "ident", "value", "call", "memo", "object"}
Leaves == {"import", "re-export", "clause", "type", "ident", "value", "require", "object", "import()"}
Declarations == {"function", "class", "const", "type"}
EsKinds == Values \cup Leaves \cup Declarations \cup {"method", "field", "default", "assign", "jsx"}

ASSUME EsFormsAssumption ==
  \A form \in EsForms :
    /\ form.kind \in EsKinds /\ form.export \in {"no", "named", "default"}
    /\ form.kind \in {"type", "assign", "memo"} => form.name # ""
    /\ form.kind \in {"method", "field"} => form.bind = ""
    /\ form.export # "no" => form.kind \in Declarations

\* Which trees the grammar allows.
EsPlaces(form, up) ==
  LET first == Children(up) = << >>
      statement ==
        /\ form.bind = "" /\ form.kind \notin {"arrow", "value", "ident", "object", "method", "field"}
        /\ form.kind = "class" => form.name # ""
  IN \/ Kind(up) = "root" /\ statement
     \/ /\ Kind(up) = "const" /\ form.kind \in {"arrow", "class", "value", "call", "memo"}
        /\ form.export = "no"
        /\ \A j \in Nodes : Up(j) = up => tree[j].bind # form.bind
     \/ /\ Kind(up) \in {"default", "assign"} /\ first
        /\ form.kind \in Values \ {"memo"} /\ form.bind = "" /\ form.export = "no"
     \/ Kind(up) = "memo" /\ first /\ form.kind = "arrow" /\ form.bind = ""
     \/ Kind(up) = "field" /\ first /\ form.kind \in {"arrow", "call"} /\ form.bind = ""
     \/ Kind(up) = "class" /\ form.kind \in {"method", "field", "call"} /\ form.bind = ""
     \/ Kind(up) \in {"call", "jsx"} /\ form.kind \in {"arrow", "call", "jsx"} /\ form.bind = ""
     \/ /\ Kind(up) \in {"function", "arrow", "method"}
        /\ statement /\ form.export = "no"
        /\ form.kind \notin {"import", "re-export", "clause", "default"}

\* A call in the body of a class is the decorator of a member.
EsFields(form, up) ==
  {"body"} \cup IF /\ Kind(up) = "class" /\ form.kind = "call"
                   /\ \A j \in Nodes : Up(j) = up => InHeader(j)
                THEN {"header"} ELSE {}

EsGrows ==
  \E form \in EsForms, up \in OpenNodes :
    /\ EsPlaces(form, up)
    /\ \E field \in EsFields(form, up) :
         Grows([kind |-> form.kind, name |-> form.name, bind |-> form.bind,
                export |-> form.export, up |-> up, field |-> field])

\* These have a value.
TreeIsComplete ==
  \A i \in Nodes : Kind(i) \in {"const", "default", "assign"} => Children(i) # << >>

-----------------------------------------------------------------------------
(* _Context and the walk.                                                  *)

NoContext == [exported |-> FALSE, default |-> FALSE, name |-> "", wrapped |-> FALSE]

EsParsed ==
  /\ stage = "parse" /\ TreeIsComplete
  /\ stage' = "walk"
  /\ stack' = Entries(Children(0), 0, NoContext)
  /\ UNCHANGED <<tree, result>>

Goes(res, st) == result' = res /\ stack' = st
PushChildren(i, owner) == Popped \o Entries(Children(i), owner, NoContext)
PushValue(i, owner, context) == Popped \o <<[node |-> i, owner |-> owner, context |-> context]>>

NewSymbol(res, name, kind, i, owner, context) ==
  [res EXCEPT !.symbols = Append(@,
     [node |-> i, name |-> name, kind |-> kind, parent |-> owner,
      exported |-> context.exported /\ owner = 0, default |-> context.default,
      jsx |-> FALSE, wrapped |-> context.wrapped])]

Exports(res, name, local, kind) ==
  [res EXCEPT !.exports = Append(@, [name |-> name, local |-> local, kind |-> kind])]

\* Overloads declare the same export several times.
ExportsOnce(res, name, local, kind) ==
  IF \E e \in ToSet(res.exports) : e = [name |-> name, local |-> local, kind |-> kind]
  THEN res ELSE Exports(res, name, local, kind)

OwnName(i, otherwise) ==
  IF tree[i].name # "" THEN tree[i].name ELSE IF otherwise # "" THEN otherwise ELSE "default"

\* _record_declaration_exports.
DeclaredNames(i) ==
  IF Kind(i) = "const"
  THEN LET bound == Sorted({j \in Nodes : Up(j) = i /\ tree[j].bind # ""})
       IN [n \in DOMAIN bound |-> tree[bound[n]].bind]
  ELSE <<OwnName(i, "")>>

RecordDeclarationExports(i) ==
  LET kind == IF tree[i].export = "default" THEN "default" ELSE "named"
      names == DeclaredNames(i)
      recorded[n \in 0..Len(names)] ==
        IF n = 0 THEN result
        ELSE ExportsOnce(recorded[n - 1], IF kind = "default" THEN "default" ELSE names[n],
                         names[n], kind)
  IN recorded[Len(names)]

\* export <declaration>.
ExportDeclaration(i, owner, context) ==
  /\ tree[i].export # "no" /\ ~context.exported
  /\ Goes(RecordDeclarationExports(i),
          PushValue(i, owner, [NoContext EXCEPT !.exported = TRUE,
                                                !.default = tree[i].export = "default"]))

\* A symbol past the limit is dropped with everything in it.
Function(i, owner, context, name) ==
  IF SymbolsFull THEN Goes(Truncated, Popped)
  ELSE Goes(NewSymbol(result, name, "function", i, owner, context), PushChildren(i, NextKey))

FunctionDeclaration(i, owner, context) ==
  Kind(i) = "function" /\ Function(i, owner, context, OwnName(i, context.name))

\* A function value without a name is part of its owner.
FunctionValue(i, owner, context) ==
  /\ Kind(i) \in FunctionValues
  /\ IF context.name # "" THEN Function(i, owner, context, context.name)
     ELSE Goes(result, PushChildren(i, owner))

\* Of a class only the body is visited.
Class(i, owner, context) ==
  /\ Kind(i) = "class"
  /\ IF SymbolsFull THEN Goes(Truncated, Popped)
     ELSE Goes(NewSymbol(result, OwnName(i, context.name), "class", i, owner, context),
               Popped \o Entries(ChildrenIn(i, {"body"}), NextKey, NoContext))

Method(i, owner) ==
  /\ Kind(i) = "method"
  /\ IF SymbolsFull THEN Goes(Truncated, Popped)
     ELSE Goes(NewSymbol(result, tree[i].name, "method", i, owner, NoContext),
               PushChildren(i, NextKey))

HoldsFunction(i) == \E j \in Nodes : Up(j) = i /\ Kind(j) \in FunctionValues

\* A field that holds a function is a method, and the function no symbol.
Field(i, owner) ==
  /\ Kind(i) = "field"
  /\ IF ~HoldsFunction(i) THEN Goes(result, PushChildren(i, owner))
     ELSE IF SymbolsFull THEN Goes(Truncated, Popped)
     ELSE Goes(NewSymbol(result, tree[i].name, "method", i, owner, NoContext),
               PushChildren(Head(Children(i)), NextKey))

\* One declarator: what it adds to the result, and what it pushes.
Declarator(st, i, owner, context) ==
  LET wrapped == Kind(i) = "memo" /\ HoldsFunction(i)
      target == IF wrapped THEN Head(Children(i)) ELSE i
      named == tree[i].bind # ""
      valued == Kind(target) \in FunctionValues \cup ClassNodes
      variable == named /\ ~valued /\ context.exported /\ owner = 0
      full == Len(st.res.symbols) >= MaxSymbols
      Push(res, node, o, c) ==
        [res |-> res, pushed |-> Append(st.pushed, [node |-> node, owner |-> o, context |-> c])]
  IN IF named /\ valued
     THEN Push(st.res, target, owner, [context EXCEPT !.name = tree[i].bind, !.wrapped = wrapped])
     ELSE IF variable /\ ~full
     THEN Push(NewSymbol(st.res, tree[i].bind, "variable", i, owner, context), i,
               Len(st.res.symbols) + 1, NoContext)
     ELSE Push(IF variable THEN [st.res EXCEPT !.truncated = TRUE] ELSE st.res, i, owner, NoContext)

\* The declarators are taken from the last to the first.
VariableDeclaration(i, owner, context) ==
  /\ Kind(i) = "const"
  /\ LET nodes == Reverse(Children(i))
         taken[n \in 0..Len(nodes)] ==
           IF n = 0 THEN [res |-> result, pushed |-> << >>]
           ELSE Declarator(taken[n - 1], nodes[n], owner, context)
         end == taken[Len(nodes)]
     IN Goes(end.res, Popped \o end.pushed)

TypeDeclaration(i, owner, context) ==
  /\ Kind(i) = "type"
  /\ IF SymbolsFull THEN Goes(Truncated, Popped)
     ELSE Goes(NewSymbol(result, tree[i].name, "type", i, owner, context), Popped)

ImportStatement(i) ==
  /\ Kind(i) = "import"
  /\ Goes([result EXCEPT !.imports = Append(@, [node |-> i])], Popped)

\* export ... from "module", export {local as name}, and export default.
ReExport(i) ==
  /\ Kind(i) = "re-export"
  /\ Goes(Exports([result EXCEPT !.imports = Append(@, [node |-> i])],
                  tree[i].name, "", "re_export"), Popped)

ExportClause(i) ==
  /\ Kind(i) = "clause"
  /\ Goes(Exports(result, "alias", tree[i].name, "named"), Popped)

ExportDefault(i, owner) ==
  /\ Kind(i) = "default"
  /\ LET value == Head(Children(i))
         local == OwnName(value, "")
     IN \/ /\ Kind(value) = "ident"
           /\ Goes(Exports(result, "default", tree[value].name, "default"), Popped)
        \/ /\ Kind(value) \in FunctionValues \cup ClassNodes
           /\ Goes(Exports(result, "default", local, "default"),
                   PushValue(value, owner, [NoContext EXCEPT !.exported = TRUE,
                                                             !.default = TRUE, !.name = local]))
        \/ /\ Kind(value) \notin {"ident"} \cup FunctionValues \cup ClassNodes
           /\ Goes(Exports(result, "default", "", "default"), PushValue(value, owner, NoContext))

\* exports.name = value and module.exports = value, in the module's scope.
CommonjsExport(i, owner) ==
  /\ Kind(i) = "assign"
  /\ LET value == Head(Children(i))
         name == tree[i].name
         Record(export, local, context) ==
           Goes(Exports(result, export, local, "commonjs"), PushValue(value, owner, context))
     IN \/ owner # 0 /\ Goes(result, PushChildren(i, owner))
        \/ /\ owner = 0 /\ name = "module.exports"
           /\ \/ Kind(value) = "ident" /\ Record("default", tree[value].name, NoContext)
              \/ Kind(value) = "object" /\ Record(tree[value].name, tree[value].name, NoContext)
              \/ /\ Kind(value) \notin {"ident", "object"}
                 /\ Goes(result, PushValue(value, owner, NoContext))
        \/ /\ owner = 0 /\ name # "module.exports"
           /\ \/ /\ Kind(value) \in FunctionValues \cup ClassNodes
                 /\ Record(name, name, [NoContext EXCEPT !.exported = TRUE, !.name = name])
              \/ /\ Kind(value) \notin FunctionValues \cup ClassNodes
                 /\ Record(name, IF Kind(value) = "ident" THEN tree[value].name ELSE "", NoContext)

RecordCall(i, owner, kind) ==
  [result EXCEPT !.calls = Append(@, [node |-> i, caller |-> owner, kind |-> kind])]

\* require() and import() of a literal are imports, and a call is recorded
\* when it has a name; what it contains belongs to the same owner in any case.
Call(i, owner) ==
  /\ Kind(i) \in {"call", "memo", "require", "import()"}
  /\ Goes(IF tree[i].name = "" THEN result
          ELSE IF Kind(i) \in {"call", "memo"} THEN RecordCall(i, owner, "call")
          ELSE [result EXCEPT !.imports = Append(@, [node |-> i])],
          PushChildren(i, owner))

\* Fragments and elements of HTML are no calls.
Jsx(i, owner) ==
  /\ Kind(i) = "jsx"
  /\ LET called == IF tree[i].name \in Capitalised THEN RecordCall(i, owner, "render") ELSE result
     IN Goes(IF owner = 0 THEN called ELSE [called EXCEPT !.symbols[owner].jsx = TRUE],
             PushChildren(i, owner))

OtherNode(i, owner) ==
  Kind(i) \in {"ident", "value", "object"} /\ Goes(result, PushChildren(i, owner))

EsVisit ==
  /\ stage = "walk" /\ stack # << >>
  /\ LET i == Top.node
         owner == Top.owner
         context == Top.context
     IN \/ ExportDeclaration(i, owner, context)
        \/ /\ tree[i].export = "no" \/ context.exported
           /\ \/ FunctionDeclaration(i, owner, context) \/ FunctionValue(i, owner, context)
              \/ Class(i, owner, context) \/ Method(i, owner) \/ Field(i, owner)
              \/ VariableDeclaration(i, owner, context) \/ TypeDeclaration(i, owner, context)
              \/ ImportStatement(i) \/ ReExport(i) \/ ExportClause(i)
              \/ ExportDefault(i, owner) \/ CommonjsExport(i, owner)
              \/ Call(i, owner) \/ Jsx(i, owner) \/ OtherNode(i, owner)
  /\ UNCHANGED <<tree, stage>>

-----------------------------------------------------------------------------
(* _finalize.                                                              *)

\* The symbol that bears the name of the export, not its local name.
ExportedAnywhere ==
  [e \in DOMAIN result.exports |->
     {k \in DOMAIN result.symbols : result.symbols[k].name = result.exports[e].name
                                      /\ result.symbols[k].parent = 0}]

\* The symbol of the module that an export names: of several, the last.
ExportedSymbols ==
  LET Named(local) == {k \in DOMAIN result.symbols :
                         result.symbols[k].parent = 0 /\ result.symbols[k].name = local}
  IN [e \in DOMAIN result.exports |->
        {k \in Named(result.exports[e].local) :
           \A l \in Named(result.exports[e].local) : l <= k}]

\* Exports mark symbols, and functions that render become components.
Finalize ==
  /\ stage = "walk" /\ stack = << >>
  /\ stage' = "done"
  /\ LET Marks(k) == {e \in DOMAIN result.exports : k \in ExportedSymbols[e]}
         Default(e) == result.exports[e].kind = "default" \/ result.exports[e].name = "default"
         Component(s) == /\ s.kind = "function" /\ s.name \in Capitalised \cup {"default"}
                         /\ s.jsx \/ s.wrapped
     IN result' = [result EXCEPT !.symbols =
          [k \in DOMAIN @ |->
             [result.symbols[k] EXCEPT
                !.exported = @ \/ Marks(k) # {},
                !.default = @ \/ \E e \in Marks(k) : Default(e),
                !.kind = IF Component(result.symbols[k]) THEN "component" ELSE @]]]
  /\ UNCHANGED <<tree, stack>>

EsNext == EsGrows \/ EsParsed \/ EsVisit \/ Finalize

-----------------------------------------------------------------------------
(* The scopes of ECMAScript, from the tree alone.                          *)

\* The name that its place gives a function or a class.
PlaceName(i) ==
  LET up == Up(i)
  IN IF Kind(up) = "const" THEN tree[i].bind
     ELSE IF Kind(up) = "memo" THEN tree[up].bind
     ELSE IF Kind(up) = "default" THEN OwnName(i, "")
     ELSE IF Kind(up) = "assign" /\ tree[up].name # "module.exports" THEN tree[up].name
     ELSE ""

\* A component wrapper, which is no call.
IsWrapper(i) == Kind(i) = "memo" /\ Kind(Up(i)) = "const" /\ tree[i].bind # "" /\ HoldsFunction(i)

\* An exported value that is neither a function nor a class.
IsVariable(i, scope) ==
  /\ Kind(Up(i)) = "const" /\ tree[i].bind # "" /\ tree[Up(i)].export # "no" /\ scope = 0
  /\ ~(Kind(i) \in {"arrow", "class"} \/ (Kind(i) = "memo" /\ HoldsFunction(i)))

IsSymbol(i, scope) ==
  \/ Kind(i) \in {"function", "class", "method", "type"}
  \/ Kind(i) = "arrow" /\ PlaceName(i) # "" /\ (Kind(Up(i)) = "assign" => scope = 0)
  \/ Kind(i) = "field" /\ HoldsFunction(i)
  \/ IsVariable(i, scope)

\* The nearest node around that is a symbol.
EsScope[i \in Nodes \cup {0}] ==
  IF i = 0 \/ Up(i) = 0 THEN 0
  ELSE IF IsSymbol(Up(i), EsScope[Up(i)]) THEN Up(i) ELSE EsScope[Up(i)]

\* A call that is itself the value of an exported variable belongs to it.
EsCallScope(i) == IF IsVariable(i, EsScope[i]) THEN i ELSE EsScope[i]

=============================================================================
