---------------------------- MODULE DependencyGraph ----------------------------
(***************************************************************************)
(* DependencyGraphBuilder of analysis/graph.py: from the symbols, imports, *)
(* exports and calls of the analysed files to the edges between files and  *)
(* between symbols.  A file is its position in the list, a symbol its key  *)
(* in the file, 0 none; an expression is a sequence of names.              *)
(***************************************************************************)
EXTENDS Integers, SequencesExt

CONSTANTS
  Projects,         \* sequences of analysed files
  Names,
  MaxReexportDepth  \* _MAX_REEXPORT_DEPTH

\* SymbolKind; a component that is a class is told from one that is not.
SymbolKinds ==
  {"function", "method", "class", "component", "class component", "interface", "type_alias",
   "enum", "variable"}
Expressions == Seq(Names) \ {<< >>}
ExtractedSymbol ==
  [name : Names, kind : SymbolKinds, parent : Nat, exported : BOOLEAN, default : BOOLEAN,
   bases : Seq(Expressions)]

\* An import with its resolution: the module, and the submodules among its
\* names; 0 is a file that is not analysed, or none.
ImportedName == [name : Names \cup {"*"}, local : Seq(Names \cup {"*"})]
ExtractedImport ==
  [kind : {"import", "from", "require", "dynamic", "side_effect", "re_export"},
   names : Seq(ImportedName), target : Nat, confirmed : BOOLEAN,
   submodules : Seq([name : Names, target : Nat, confirmed : BOOLEAN])]

AnalyzedFile ==
  [language : {"python", "javascript", "typescript", "tsx"}, symbols : Seq(ExtractedSymbol),
   imports : Seq(ExtractedImport), exports : Seq([name : Names, local : Names]),
   calls : Seq([caller : Nat, callee : Expressions, kind : {"calls", "renders"}])]

\* The symbols of a file by their name; only the last one counts.
TopLevelOf(symbols, name) == {k \in DOMAIN symbols : symbols[k].parent = 0 /\ symbols[k].name = name}

\* What the analyzers and the resolver deliver for a program whose exports
\* stand at the top level of their module, as the language requires: an
\* owner comes before what it owns, and what a module exports is marked.
IsAnalysed(p) ==
  /\ p \in Seq(AnalyzedFile)
  /\ \A f \in DOMAIN p :
       /\ \A k \in DOMAIN p[f].symbols :
            /\ p[f].symbols[k].parent < k
            /\ p[f].symbols[k].default => p[f].symbols[k].exported /\ p[f].symbols[k].parent = 0
       /\ p[f].language # "python" =>
            \A e \in ToSet(p[f].exports) : LET named == TopLevelOf(p[f].symbols, e.local) IN
              named # {} => p[f].symbols[Max(named)].exported
       /\ \A i \in ToSet(p[f].imports) :
            i.target <= Len(p) /\ \A t \in ToSet(i.submodules) : t.target <= Len(p)
       /\ \A call \in ToSet(p[f].calls) : call.caller <= Len(p[f].symbols)

ASSUME GraphAssumption ==
  /\ MaxReexportDepth \in Nat /\ "*" \notin Names
  /\ \A p \in Projects : IsAnalysed(p)

VARIABLES
  project,  \* the files and what was extracted from each
  pending,  \* the references that have no edge yet
  edges     \* weight and confidence of the edges so far

graphVars == <<project, pending, edges>>

FileIds == DOMAIN project
Symbols(f) == project[f].symbols
Imports(f) == project[f].imports
IsPythonFile(f) == project[f].language = "python"

None == [file |-> 0, key |-> 0]
Symbol(f, key) == IF key = 0 THEN None ELSE [file |-> f, key |-> key]
FirstFound(found) ==
  LET some == {n \in DOMAIN found : found[n] # None}
  IN IF some = {} THEN None ELSE found[Min(some)]

\* A search that both lookups are: what a place has itself, or else the
\* first thing that is found from one of the places next to it; no further
\* away than the limit.
DepthFirst(own, next) ==
  LET found[depth \in 0..MaxReexportDepth] ==
        [x \in DOMAIN own |->
           IF own[x] # None \/ depth = 0 THEN own[x]
           ELSE FirstFound([n \in DOMAIN next[x] |-> found[depth - 1][next[x][n]]])]
  IN found[MaxReexportDepth]

-----------------------------------------------------------------------------
(* The indexes of a file.                                                  *)

Greatest0(keys) == IF keys = {} THEN 0 ELSE Max(keys)
TopLevel(f, name) == Greatest0(TopLevelOf(Symbols(f), name))
Member(f, class, name) ==
  IF class = 0 THEN 0
  ELSE Greatest0({k \in DOMAIN Symbols(f) : Symbols(f)[k].parent = class /\ Symbols(f)[k].name = name})

\* The local name of an export; a later entry wins.
LocalName(f, name) ==
  LET named == {n \in DOMAIN project[f].exports : project[f].exports[n].name = name}
  IN IF named = {} THEN name ELSE project[f].exports[Max(named)].local
IsExportedName(f, name) == \E e \in ToSet(project[f].exports) : e.name = name

\* What a local name of a file means: a symbol of another file, or with the
\* name "*" the file itself.
BindingOf(f, imported, name) ==
  LET submodules == {t \in ToSet(imported.submodules) : t.name = name.name}
      To(module, bound) == IF module = 0 THEN << >> ELSE <<[file |-> module, name |-> bound]>>
  IN CASE ~IsPythonFile(f) ->
            IF imported.kind \in {"import", "require"} THEN To(imported.target, name.name) ELSE << >>
       [] IsPythonFile(f) /\ imported.kind = "import" -> To(imported.target, "*")
       [] IsPythonFile(f) /\ imported.kind # "import" /\ submodules # {} ->
            To((CHOOSE t \in submodules : TRUE).target, "*")
       [] OTHER -> IF name.name = "*" THEN << >> ELSE To(imported.target, name.name)

\* A later import wins.
Bindings(f, local) ==
  LET OfImport(imported) ==
        FlattenSeq([n \in DOMAIN imported.names |->
          IF imported.names[n].local = local
          THEN BindingOf(f, imported, imported.names[n]) ELSE << >>])
  IN FlattenSeq([i \in DOMAIN Imports(f) |-> OfImport(Imports(f)[i])])

-----------------------------------------------------------------------------
(* _lookup_export: the symbol that a module makes available under a name.  *)

\* What a module keeps to itself as well.
OwnHiddenToo(f, name) ==
  CASE IsPythonFile(f) \/ name # "default" -> Symbol(f, TopLevel(f, LocalName(f, name)))
    [] OTHER -> LET marked == {k \in DOMAIN Symbols(f) : Symbols(f)[k].default}
                IN IF marked # {} THEN Symbol(f, Min(marked)) ELSE None

Own(f, name) ==
  LET local == TopLevel(f, LocalName(f, name))
      marked == {k \in DOMAIN Symbols(f) : Symbols(f)[k].default}
  IN CASE IsPythonFile(f) -> Symbol(f, TopLevel(f, name))
       [] ~IsPythonFile(f) /\ name = "default" ->
            IF IsExportedName(f, name) /\ local # 0 THEN Symbol(f, local)
            ELSE IF marked # {} THEN Symbol(f, Min(marked)) ELSE None
       [] OTHER -> IF local # 0 /\ Symbols(f)[local].exported THEN Symbol(f, local) ELSE None

\* Where a module forwards a name to, in source order; `export *` forwards
\* every name but the default.
Forwards(f, name) ==
  LET Forwarded(imported, re_exported) ==
        CASE imported.kind # "re_export" \/ imported.target = 0 -> << >>
          [] imported.kind = "re_export" /\ imported.target # 0 /\ re_exported.name = "*" ->
               IF re_exported.local = <<"*">> /\ name # "default"
               THEN <<[file |-> imported.target, name |-> name]>> ELSE << >>
          [] OTHER -> IF re_exported.local = <<name>>
                      THEN <<[file |-> imported.target, name |-> re_exported.name]>> ELSE << >>
      OfImport(imported) ==
        FlattenSeq([n \in DOMAIN imported.names |-> Forwarded(imported, imported.names[n])])
  IN IF IsPythonFile(f) THEN << >>
     ELSE FlattenSeq([i \in DOMAIN Imports(f) |-> OfImport(Imports(f)[i])])

\* A name of a module, what it is there, and where it is forwarded to.
Asked == [file : FileIds, name : Names]
OwnExports == [m \in Asked |-> Own(m.file, m.name)]
ForwardedTo == [m \in Asked |-> Forwards(m.file, m.name)]

LookupExport == DepthFirst(OwnExports, ForwardedTo)
Provided(f, name) == LookupExport[[file |-> f, name |-> name]]

-----------------------------------------------------------------------------
(* _resolve_reference.                                                     *)

MemberOf(found, members) ==
  IF members = << >> THEN found
  ELSE IF found = None \/ Len(members) > 1 THEN None
  ELSE Symbol(found.file, Member(found.file, found.key, Head(members)))

\* The prefixes of a dotted name that an import binds.
BoundPrefixes(f, expression) ==
  {n \in DOMAIN expression :
     Bindings(f, SubSeq(expression, 1, n)) # << >> /\ (n = Len(expression) => n = 1)}

ResolveBound(f, expression, n) ==
  LET binding == Last(Bindings(f, SubSeq(expression, 1, n)))
      rest == SubSeq(expression, n + 1, Len(expression))
  IN CASE binding.name # "*" -> MemberOf(Provided(binding.file, binding.name), rest)
       [] binding.name = "*" /\ rest # << >> ->
            MemberOf(Provided(binding.file, Head(rest)), Tail(rest))
       [] OTHER -> None

\* The longest prefix that an import binds, and else a symbol of the file.
ResolveName(f, expression) ==
  LET bound == BoundPrefixes(f, expression)
  IN IF bound # {} THEN ResolveBound(f, expression, Max(bound))
     ELSE MemberOf(Symbol(f, TopLevel(f, Head(expression))), Tail(expression))

\* _class_member: a method of a class or of its bases, the first one first.
AllSymbols == UNION {{[file |-> f, key |-> k] : k \in DOMAIN Symbols(f)} : f \in FileIds}
SymbolsOrNone == {None} \cup AllSymbols
Bases(s) ==
  IF s = None THEN << >>
  ELSE LET bases == Symbols(s.file)[s.key].bases
       IN [n \in DOMAIN bases |-> ResolveName(s.file, bases[n])]
OwnMembers(name) == [s \in SymbolsOrNone |-> Symbol(s.file, Member(s.file, s.key, name))]
AllBases == [s \in SymbolsOrNone |-> Bases(s)]
ClassMember(f, class, name) == DepthFirst(OwnMembers(name), AllBases)[Symbol(f, class)]

Classes == {"class", "class component"}
EnclosingClass(f, key) ==
  LET enclosing[k \in 0..Len(Symbols(f))] ==
        IF k = 0 THEN 0
        ELSE IF Symbols(f)[k].kind \in Classes THEN k ELSE enclosing[Symbols(f)[k].parent]
  IN enclosing[key]

IsOwnMember(expression) == Len(expression) = 2 /\ Head(expression) = "self"
Resolve(f, caller, expression) ==
  IF IsOwnMember(expression)
  THEN LET class == EnclosingClass(f, caller)
       IN IF class = 0 THEN None ELSE ClassMember(f, class, expression[2])
  ELSE ResolveName(f, expression)

-----------------------------------------------------------------------------
(* build: one reference after the other.                                   *)

Reference(kind, f, key, expression, to, confirmed) ==
  [kind |-> kind, file |-> f, key |-> key, expression |-> expression, to |-> to,
   confirmed |-> confirmed]

\* all_targets, as far as they are analysed: the module and each submodule.
ImportReferences(f) ==
  LET To(target, confirmed) ==
        IF target = 0 THEN << >>
        ELSE <<Reference("imports", f, 0, <<"*">>, target, confirmed)>>
      OfImport(imported) ==
        To(imported.target, imported.confirmed)
          \o FlattenSeq([n \in DOMAIN imported.submodules |->
               To(imported.submodules[n].target, imported.submodules[n].confirmed)])
  IN FlattenSeq([i \in DOMAIN Imports(f) |-> OfImport(Imports(f)[i])])

\* Calls of the module itself have no caller and no edge.
CallReferences(f) ==
  LET calls == project[f].calls
  IN FlattenSeq([n \in DOMAIN calls |->
       IF calls[n].caller = 0 THEN << >>
       ELSE <<Reference(calls[n].kind, f, calls[n].caller, calls[n].callee, 0, FALSE)>>])

BaseReferences(f) ==
  FlattenSeq([k \in DOMAIN Symbols(f) |->
    [n \in DOMAIN Symbols(f)[k].bases |->
       Reference("inherits", f, k, Symbols(f)[k].bases[n], 0, FALSE)]])

References ==
  FlattenSeq([f \in FileIds |-> ImportReferences(f)])
    \o FlattenSeq([f \in FileIds |-> CallReferences(f) \o BaseReferences(f)])

GraphInit ==
  /\ project \in Projects
  /\ pending = References
  /\ edges = << >>

Before(edge) ==
  IF edge \in DOMAIN edges THEN edges[edge] ELSE [weight |-> 0, confirmed |-> FALSE]
Put(edge, use) ==
  edges' = [other \in DOMAIN edges \cup {edge} |-> IF other = edge THEN use ELSE edges[other]]

\* The last reference decides whether an edge is confirmed.
ConnectAsTheLast(kind, from, to, confirmed) ==
  LET edge == [kind |-> kind, from |-> from, to |-> to]
  IN IF from = to THEN edges' = edges
     ELSE Put(edge, [weight |-> Before(edge).weight + 1, confirmed |-> confirmed])

\* A reference of something to itself adds nothing.
Connect(kind, from, to, confirmed) ==
  LET edge == [kind |-> kind, from |-> from, to |-> to]
  IN IF from = to THEN edges' = edges
     ELSE Put(edge, [weight |-> Before(edge).weight + 1,
                     confirmed |-> Before(edge).confirmed \/ confirmed])

Takes(kinds) == pending # << >> /\ Head(pending).kind \in kinds /\ pending' = Tail(pending)

AddImport ==
  /\ Takes({"imports"})
  /\ LET r == Head(pending)
     IN Connect("imports", [file |-> r.file, key |-> 0], [file |-> r.to, key |-> 0], r.confirmed)
  /\ UNCHANGED project

\* Nothing is added for what cannot be resolved.
AddCall ==
  /\ Takes({"calls", "renders"})
  /\ LET r == Head(pending)
         target == Resolve(r.file, r.key, r.expression)
     IN IF target = None THEN UNCHANGED edges
        ELSE Connect(r.kind, Symbol(r.file, r.key), target, FALSE)
  /\ UNCHANGED project

IsClassLike(s) == Symbols(s.file)[s.key].kind \in Classes \cup {"component"}

AddBase ==
  /\ Takes({"inherits"})
  /\ LET r == Head(pending)
         target == ResolveName(r.file, r.expression)
     IN IF target = None THEN UNCHANGED edges
        ELSE IF ~IsClassLike(target) THEN UNCHANGED edges
        ELSE Connect("inherits", Symbol(r.file, r.key), target, FALSE)
  /\ UNCHANGED project

GraphNext == AddImport \/ AddCall \/ AddBase
GraphSpec == GraphInit /\ [][GraphNext]_graphVars

-----------------------------------------------------------------------------
(* Properties.                                                             *)

Built == pending = << >>

\* What can be reached from x in at most so many steps.
Reached(next, x) ==
  LET reached[steps \in 0..MaxReexportDepth] ==
        IF steps = 0 THEN {x}
        ELSE reached[steps - 1] \cup UNION {ToSet(next[y]) : y \in reached[steps - 1]}
  IN reached
Within(next, x) == Reached(next, x)[MaxReexportDepth]

\* The n places of a way have nothing themselves, but perhaps for the last
\* one, and each is followed by one of those next to it, of which the ones
\* before it lead to nothing in the steps that the limit leaves them.
IsFirstWay(own, next, way, n) ==
  \A k \in 1..(n - 1) :
    /\ own[way[k]] = None
    /\ \E p \in DOMAIN next[way[k]] :
         /\ way[k + 1] = next[way[k]][p]
         /\ \A q \in 1..(p - 1) :
              \A y \in Reached(next, next[way[k]][q])[MaxReexportDepth - k] : own[y] = None

\* A symbol that the module makes available under the name.
IsPublic(s, name) ==
  /\ Symbols(s.file)[s.key].parent = 0
  /\ IF IsPythonFile(s.file) THEN Symbols(s.file)[s.key].name = name
     ELSE Symbols(s.file)[s.key].exported

\* A module provides a name if and only if a chain of re-exports within the
\* limit leads to a module that exports it itself, and then one such symbol,
\* its own before any other; in spite of cycles, of names that change on the
\* way and of names that a module keeps to itself (graph.py:129-169).
ProvidedByExport ==
  Built => \A f \in FileIds, name \in Names :
    LET modules == Within(ForwardedTo, [file |-> f, name |-> name])
        found == Provided(f, name)
    IN /\ found = None <=> \A x \in modules : Own(x.file, x.name) = None
       /\ found # None => \E x \in modules :
            Own(x.file, x.name) = found /\ found.file = x.file /\ IsPublic(found, x.name)
       /\ Own(f, name) # None => found = Own(f, name)

\* What a reference is from, and what it resolves to.
From(r) == [file |-> r.file, key |-> r.key]
Target(r) ==
  CASE r.kind = "imports" -> [file |-> r.to, key |-> 0]
    [] r.kind = "inherits" -> ResolveName(r.file, r.expression)
    [] OTHER -> Resolve(r.file, r.key, r.expression)
EdgeOf(r) == [kind |-> r.kind, from |-> From(r), to |-> Target(r)]
IsReal(edge) ==
  /\ edge.to # None /\ edge.from # edge.to
  /\ edge.kind = "inherits" => IsClassLike(edge.to)

\* A call of self.name ends at the member of that name of the class around
\* the caller or else of an ancestor within the limit, if any has it: the one
\* to which the first base leads that leads to any, and so at each base.
IsInherited(r) ==
  LET class == Symbol(r.file, EnclosingClass(r.file, r.key))
      own == OwnMembers(r.expression[2])
  IN IF \A s \in Within(AllBases, class) : own[s] = None THEN Target(r) = None
     ELSE \E n \in 1..(MaxReexportDepth + 1) : \E way \in [1..n -> SymbolsOrNone] :
            /\ way[1] = class /\ IsFirstWay(own, AllBases, way, n)
            /\ Target(r) = own[way[n]] /\ Target(r) # None

\* There is an edge for a reference exactly when it is resolved, to something
\* else than itself and, for a base, to a class; it is counted once for each
\* reference that it stands for, and is confirmed as soon as one of them is,
\* in whatever order they come; and self.name is searched depth first, from
\* the left, in spite of cycles (graph.py:173-265, 309-346).  Where bases have
\* a base in common that is not what Python does: of D(B, C), B(A) and C(A),
\* it takes the member of A although C has one.
EdgesAreReal ==
  Built =>
    LET all == References
    IN /\ DOMAIN edges = {edge \in {EdgeOf(r) : r \in ToSet(all)} : IsReal(edge)}
       /\ \A edge \in DOMAIN edges :
            LET uses == {n \in DOMAIN all : EdgeOf(all[n]) = edge}
            IN /\ edges[edge].weight = Cardinality(uses)
               /\ edges[edge].confirmed <=> \E n \in uses : all[n].confirmed
       /\ \A r \in ToSet(all) :
            r.kind \in {"calls", "renders"} /\ IsOwnMember(r.expression) => IsInherited(r)

=============================================================================
