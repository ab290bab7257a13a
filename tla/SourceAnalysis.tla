---------------------------- MODULE SourceAnalysis ----------------------------
(***************************************************************************)
(* What the analyzers of analysis/ share: a syntax tree that tree-sitter   *)
(* delivered, the stack of a walk without recursion, and the symbols,      *)
(* calls, imports and exports that a walk extracts (FileAnalysis).         *)
(***************************************************************************)
EXTENDS Integers, SequencesExt

CONSTANTS
  MaxSymbols,  \* MAX_SYMBOLS_PER_FILE
  MaxNodes     \* bound: nodes of a tree

ASSUME AnalysisAssumption == MaxSymbols \in Nat \ {0} /\ MaxNodes \in Nat

VARIABLES
  tree,    \* nodes in source order: kind, name, parent node (0: the root), field
  stack,   \* the nodes to visit, the next one last: node, owner, context
  result,  \* symbols, calls, imports, exports, truncated
  stage    \* of the analysis of a file

analysisVars == <<tree, stack, result, stage>>

Nodes == DOMAIN tree
Up(i) == tree[i].up
Kind(i) == IF i = 0 THEN "root" ELSE tree[i].kind

\* Nodes, or keys, in their order.
Sorted(S) == CHOOSE list \in SetToSeqs(S) : \A m, n \in DOMAIN list : m < n => list[m] < list[n]

Children(i) == Sorted({j \in Nodes : Up(j) = i})
ChildrenIn(i, fields) == Sorted({j \in Nodes : Up(j) = i /\ tree[j].field \in fields})

\* Nodes pushed in reverse, so that the first one is visited first.
Entries(nodes, owner, context) ==
  Reverse([n \in DOMAIN nodes |-> [node |-> nodes[n], owner |-> owner, context |-> context]])

NoResult == [symbols |-> << >>, calls |-> << >>, imports |-> << >>, exports |-> << >>,
             truncated |-> FALSE]

AnalysisInit ==
  /\ tree = << >> /\ stack = << >> /\ result = NoResult
  /\ stage = "parse"

\* The header of a definition is what the walk does not enter; one call
\* stands for all that there is in it.
InHeader(i) == tree[i].field = "header"

\* tree-sitter adds a node under the last one or under one of its ancestors:
\* under a node that has all later ones below it.
OpenNodes ==
  {i \in 0..Len(tree) : (i = 0 \/ ~InHeader(i)) /\ \A j \in (i + 1)..Len(tree) : Up(j) >= i}

Grows(node) ==
  /\ stage = "parse" /\ Len(tree) < MaxNodes
  /\ tree' = Append(tree, node)
  /\ UNCHANGED <<stack, result, stage>>

\* Keys are positions in the list of symbols; 0 stands for no owner.
SymbolsFull == Len(result.symbols) >= MaxSymbols
NextKey == Len(result.symbols) + 1
Truncated == [result EXCEPT !.truncated = TRUE]

Popped == Front(stack)
Top == Last(stack)

=============================================================================
