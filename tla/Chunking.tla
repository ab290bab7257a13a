------------------------------- MODULE Chunking -------------------------------
(***************************************************************************)
(* CodeChunker of retrieval/chunking.py: a file is cut along its symbols,  *)
(* or along the headings of a Markdown file, and what is too long or       *)
(* belongs to no symbol is cut into windows that overlap.                  *)
(***************************************************************************)
EXTENDS Integers, SequencesExt

\* What a line looks like, and how many characters the file has up to its
\* end, newlines included.  "marked" lines begin with #, //, /*, *, <!-- or
\* --: comments and headings, but code too, such as *args or --i.
Line == [kind : {"code", "marked", "blank"}, stop : Nat \ {0}]

CONSTANTS
  Files,    \* sequences of lines
  Outlines, \* sequences of symbols: first and last line, parent (0: none)
  Configs   \* ChunkingConfig; nothing reads its min_lines

ASSUME ChunkingAssumption ==
  /\ \A file \in Files :
       /\ file \in Seq(Line)
       /\ \A m, n \in DOMAIN file : m < n => file[m].stop < file[n].stop
  /\ \A outline \in Outlines :
       /\ outline \in Seq([start : Nat \ {0}, end : Nat, parent : Nat])
       /\ \A n \in DOMAIN outline : outline[n].start <= outline[n].end /\ outline[n].parent < n
  /\ Configs \subseteq [max_lines : Nat \ {0}, max_chars : Nat \ {0}, overlap : Nat, min_lines : Nat]

VARIABLES
  lines,       \* the file
  symbols,     \* its symbols
  config,
  symbolsLeft, \* symbols that are still to be chunked
  todo,        \* pieces that are still to be cut into windows
  chunks,      \* ranges of the chunks
  phase

chunkingVars == <<lines, symbols, config, symbolsLeft, todo, chunks, phase>>

CharCount(start, end) == lines[end].stop - (IF start = 1 THEN 0 ELSE lines[start - 1].stop)
HasContent(start, end) == \E n \in start..end : lines[n].kind # "blank"

\* Up to three lines that look like comments, which are not worth indexing.
IsSeparator(start, end) ==
  LET content == {n \in start..end : lines[n].kind # "blank"}
  IN Cardinality(content) <= 3 /\ \A n \in content : lines[n].kind = "marked"

Span(start, end, kind) == [start |-> start, end |-> end, kind |-> kind]
Covers(range, n) == range.start <= n /\ n <= range.end

-----------------------------------------------------------------------------
(* The structure of a file: ranges that are chunks as they stand, and      *)
(* pieces that _windows cuts ("symbol_part", "module", "section",          *)
(* "window").                                                              *)

\* Without the lines after the last range.
GapsBetween(from, end, ranges) ==
  LET After(S) == Max({from} \cup {r.end + 1 : r \in S})
      Before(r) == {p \in ranges : p.start < r.start}
  IN {Span(After(Before(r)), r.start - 1, "module") :
        r \in {r \in ranges : After(Before(r)) < r.start}}

\* The lines that none of the ranges covers, in a walk along the ranges in
\* the order of their starts, and those after the last range.
Gaps(from, end, ranges) ==
  LET After(S) == Max({from} \cup {r.end + 1 : r \in S})
      Before(r) == {p \in ranges : p.start < r.start}
  IN {Span(After(Before(r)), r.start - 1, "module") :
        r \in {r \in ranges : After(Before(r)) < r.start}}
     \cup (IF After(ranges) <= end THEN {Span(After(ranges), end, "module")} ELSE {})

RangesOf(S) == {[start |-> symbols[s].start, end |-> symbols[s].end] : s \in S}

TopSymbols == {s \in DOMAIN symbols : symbols[s].parent = 0}
ChildrenOf(s) == {c \in DOMAIN symbols : symbols[c].parent = s}

\* One line more.
FitsAlmost(s) ==
  /\ symbols[s].end - symbols[s].start <= config.max_lines
  /\ CharCount(symbols[s].start, symbols[s].end) <= config.max_chars

Fits(s) ==
  /\ symbols[s].end - symbols[s].start + 1 <= config.max_lines
  /\ CharCount(symbols[s].start, symbols[s].end) <= config.max_chars

Min2(a, b) == IF a < b THEN a ELSE b
Max2(a, b) == IF a > b THEN a ELSE b

\* The last of the lines before the members of a large symbol.
HeaderEnd(s) == Min2(Min({symbols[c].start : c \in ChildrenOf(s)}) - 1, symbols[s].end)

\* The order of the symbols makes no difference to the chunks.
PresentSymbol == CHOOSE s \in symbolsLeft : TRUE

KeepSymbol(s) ==
  /\ Fits(s)
  /\ chunks' = chunks \cup {Span(symbols[s].start, symbols[s].end, "symbol")}
  /\ symbolsLeft' = symbolsLeft \ {s}
  /\ UNCHANGED todo

SplitSymbol(s) ==
  /\ ~Fits(s) /\ ChildrenOf(s) = {}
  /\ todo' = todo \cup {Span(symbols[s].start, symbols[s].end, "symbol_part")}
  /\ symbolsLeft' = symbolsLeft \ {s}
  /\ UNCHANGED chunks

\* A header, the members, and the code between them.
SplitContainer(s) ==
  /\ ~Fits(s) /\ ChildrenOf(s) # {}
  /\ chunks' = chunks \cup (IF HeaderEnd(s) >= symbols[s].start
                            THEN {Span(symbols[s].start, HeaderEnd(s), "symbol_header")} ELSE {})
  /\ todo' = todo \cup Gaps(HeaderEnd(s) + 1, symbols[s].end, RangesOf(ChildrenOf(s)))
  /\ symbolsLeft' = (symbolsLeft \ {s}) \cup ChildrenOf(s)

\* _chunk_symbol.
ChunkSymbol ==
  /\ symbolsLeft # {}
  /\ \/ KeepSymbol(PresentSymbol)
     \/ SplitSymbol(PresentSymbol)
     \/ SplitContainer(PresentSymbol)
  /\ UNCHANGED <<lines, symbols, config, phase>>

\* A section begins at a heading; the first one may have none.
MarkdownPieces(headings) ==
  LET SectionEnd(a) == Min({b \in a..Len(lines) : b = Len(lines) \/ b + 1 \in headings})
  IN {Span(a, SectionEnd(a), "section") : a \in {a \in DOMAIN lines : a = 1 \/ a \in headings}}

TextPieces == IF lines = << >> THEN {} ELSE {Span(1, Len(lines), "window")}

-----------------------------------------------------------------------------
(* _windows.                                                               *)

\* The last line of the window at a line: as many lines as may be, as many
\* characters as may be but one line at least.
Limit(from, end) ==
  LET last == Min2(from + config.max_lines - 1, end)
  IN Max({n \in from..last : n = from \/ CharCount(from, n) <= config.max_chars})

\* Rather the line before a blank one, when the window keeps three lines.
Boundary(from, limit) ==
  LET blank == {n \in (from + 3)..limit : lines[n].kind = "blank"}
  IN IF blank = {} THEN limit ELSE Max(blank) - 1

WindowEnd(from, end) ==
  IF Limit(from, end) < end THEN Boundary(from, Limit(from, end)) ELSE Limit(from, end)

\* Only the overlap counts.
NextCursorBack(from, last, end) == IF last >= end THEN last + 1 ELSE last + 1 - config.overlap

\* The next window overlaps this one and begins after it.
NextCursor(from, last, end) ==
  IF last >= end THEN last + 1 ELSE Max2(last + 1 - config.overlap, from + 1)

\* _keep.
Keep(window) ==
  HasContent(window.start, window.end) /\ ~IsSeparator(window.start, window.end)

PresentPiece == CHOOSE piece \in todo : TRUE

\* One turn of the loop: the piece begins at the cursor of the loop, and is
\* gone when the cursor has passed its end.
CutWindow ==
  /\ symbolsLeft = {} /\ todo # {}
  /\ LET piece == PresentPiece
         last == WindowEnd(piece.start, piece.end)
         rest == Span(NextCursor(piece.start, last, piece.end), piece.end, piece.kind)
     IN /\ chunks' = chunks \cup {w \in {Span(piece.start, last, piece.kind)} : Keep(w)}
        /\ todo' = (todo \ {piece}) \cup {r \in {rest} : r.start <= r.end}
  /\ UNCHANGED <<lines, symbols, config, symbolsLeft, phase>>

-----------------------------------------------------------------------------

ChunkingInit ==
  /\ lines \in Files /\ symbols \in Outlines /\ config \in Configs
  /\ \A s \in DOMAIN symbols : symbols[s].end <= Len(lines)
  /\ symbolsLeft = {} /\ todo = {} /\ chunks = {}
  /\ phase = "structure"

Begin(tops, pieces) ==
  /\ phase = "structure"
  /\ symbolsLeft' = tops
  /\ todo' = pieces
  /\ phase' = "windows"
  /\ UNCHANGED <<lines, symbols, config, chunks>>

ChunkSourceFile == Begin(TopSymbols, Gaps(1, Len(lines), RangesOf(TopSymbols)))

ChunkTextFile ==
  /\ symbols = << >>
  /\ \/ \E headings \in SUBSET {n \in DOMAIN lines : lines[n].kind = "marked"} :
            Begin({}, MarkdownPieces(headings))
     \/ Begin({}, TextPieces)

ChunkingNext == ChunkSourceFile \/ ChunkTextFile \/ ChunkSymbol \/ CutWindow

ChunkingSpec == ChunkingInit /\ [][ChunkingNext]_chunkingVars

Chunked == phase = "windows" /\ symbolsLeft = {} /\ todo = {}

-----------------------------------------------------------------------------
(* Properties.                                                             *)

\* Every line that is neither blank nor looks like a comment is in a chunk:
\* the pieces of symbols and members leave no gap, and windows none between
\* them (chunking.py:157-207, 257-280, 311-332).  That holds whatever
\* min_lines is: docs/retrieval.md:285 says that fragments of fewer lines are
\* not chunked, but nothing reads the setting (chunking.py:106).  Lines of
\* code that look like comments may be lost (chunking.py:338-345).
EveryCodeLineIsChunked ==
  Chunked => \A n \in DOMAIN lines :
    lines[n].kind = "code" => \E c \in chunks : Covers(c, n)

\* Every chunk is part of the file and none is longer than the configuration
\* says, except for a single line that is too wide and for the header of a
\* large symbol, which is never cut (chunking.py:173-188, 316-322).
ChunksFit ==
  \A c \in chunks :
    /\ 1 <= c.start /\ c.start <= c.end /\ c.end <= Len(lines)
    /\ c.kind # "symbol_header" =>
         /\ c.end - c.start + 1 <= config.max_lines
         /\ c.start = c.end \/ CharCount(c.start, c.end) <= config.max_chars

\* The loop of _windows ends: every turn moves the cursor of its piece
\* forward, past no line of code that is not in a chunk, however long the
\* overlap is and however short the window had to be (chunking.py:325-331).
WindowsAdvance ==
  [][symbolsLeft = {} /\ todo # {} =>
       LET piece == PresentPiece
       IN /\ piece \notin todo'
          /\ \A n \in piece.start..piece.end : lines[n].kind = "code" =>
               \/ \E c \in chunks' : Covers(c, n)
               \/ \E rest \in todo' : piece.start < rest.start /\ Covers(rest, n)
    ]_chunkingVars

=============================================================================
