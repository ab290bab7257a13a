---------------------------- MODULE RetrievalProofs ----------------------------
(***************************************************************************)
(* What retrieval rests on: the chunks of a file (Chunking) and the        *)
(* ranking of a search (Ranking).                                          *)
(***************************************************************************)
EXTENDS Chunking, Ranking, DataLemmas

-----------------------------------------------------------------------------
(* Chunks: what the constants give.                                        *)

\* A file, its symbols and a configuration, as ChunkingInit takes them.
FileOK ==
  /\ lines \in Files /\ symbols \in Outlines /\ config \in Configs
  /\ \A s \in DOMAIN symbols : symbols[s].end <= Len(lines)

(* The lines of a file and its symbols, spelt out.                         *)
LEMMA FileFacts ==
  ASSUME FileOK
  PROVE  /\ lines \in Seq(Line)
         /\ \A m, n \in DOMAIN lines : m < n => lines[m].stop < lines[n].stop
         /\ \A n \in DOMAIN lines : lines[n].stop \in Nat
         /\ \A s \in DOMAIN symbols :
              /\ symbols[s].start \in Nat \ {0} /\ symbols[s].end \in Nat
              /\ symbols[s].start <= symbols[s].end /\ symbols[s].end <= Len(lines)
         /\ config.max_lines \in Nat \ {0} /\ config.max_chars \in Nat \ {0}
         /\ config.overlap \in Nat
<1>1. lines \in Seq(Line) /\ \A m, n \in DOMAIN lines : m < n => lines[m].stop < lines[n].stop
  BY ChunkingAssumption DEF FileOK
<1>2. \A n \in DOMAIN lines : lines[n] \in Line
  BY <1>1
<1>3. \A n \in DOMAIN lines : lines[n].stop \in Nat
  BY <1>2 DEF Line
<1>4. symbols \in Seq([start : Nat \ {0}, end : Nat, parent : Nat])
  BY ChunkingAssumption DEF FileOK
<1>5. \A s \in DOMAIN symbols : symbols[s] \in [start : Nat \ {0}, end : Nat, parent : Nat]
  <2> DEFINE Symbol == [start : Nat \ {0}, end : Nat, parent : Nat]
  <2>1. symbols \in Seq(Symbol)
    BY <1>4
  <2> HIDE DEF Symbol
  <2>2. \A s \in DOMAIN symbols : symbols[s] \in Symbol
    BY <2>1
  <2> QED
    BY <2>2 DEF Symbol
<1>6. \A s \in DOMAIN symbols : symbols[s].start <= symbols[s].end
  BY ChunkingAssumption DEF FileOK
<1>7. config \in [max_lines : Nat \ {0}, max_chars : Nat \ {0}, overlap : Nat, min_lines : Nat]
  BY ChunkingAssumption DEF FileOK
<1> QED
  BY <1>1, <1>3, <1>5, <1>6, <1>7 DEF FileOK

(* More lines, more characters.                                            *)
LEMMA CharCountGrows ==
  ASSUME FileOK, NEW from \in Nat \ {0}, NEW a \in Nat, NEW b \in Nat,
         from <= a, a <= b, b <= Len(lines)
  PROVE  /\ CharCount(from, a) \in Int /\ CharCount(from, b) \in Int
         /\ CharCount(from, a) <= CharCount(from, b)
<1>1. DOMAIN lines = 1..Len(lines) /\ Len(lines) \in Nat
  BY FileFacts
<1>2. a \in DOMAIN lines /\ b \in DOMAIN lines /\ (from # 1 => from - 1 \in DOMAIN lines)
  BY <1>1
<1>3. lines[a].stop \in Nat /\ lines[b].stop \in Nat
  BY <1>2, FileFacts
<1>4. lines[a].stop <= lines[b].stop
  <2>1. CASE a = b
    BY <2>1, <1>3
  <2>2. CASE a < b
    BY <2>2, <1>2, <1>3, FileFacts
  <2> QED
    BY <2>1, <2>2
<1>5. from # 1 => lines[from - 1].stop \in Nat
  BY <1>2, FileFacts
<1> QED
  BY <1>3, <1>4, <1>5 DEF CharCount

-----------------------------------------------------------------------------
(* Chunks: gaps and windows.                                               *)

(* Every line is in a range or in a gap, and the gaps are parts of the     *)
(* file.                                                                   *)
LEMMA GapsFill ==
  ASSUME NEW top \in Nat, NEW from \in Nat \ {0}, NEW end \in Nat, end <= top,
         from <= top + 1,
         NEW ranges \in SUBSET [start : Nat \ {0}, end : Nat],
         \A r \in ranges : r.start <= r.end /\ r.end <= top
  PROVE  /\ \A g \in Gaps(from, end, ranges) :
              \E x, y \in 1..top : x <= y /\ g = Span(x, y, "module")
         /\ \A n \in from..end :
              \/ \E r \in ranges : Covers(r, n)
              \/ \E g \in Gaps(from, end, ranges) : Covers(g, n)
<1> DEFINE After(S) == Max({from} \cup {r.end + 1 : r \in S})
           Before(r) == {p \in ranges : p.start < r.start}
<1>1. \A r \in ranges : r.start \in Nat \ {0} /\ r.end \in Nat
  OBVIOUS
<1>2. ASSUME NEW S \in SUBSET ranges
      PROVE  /\ After(S) \in Nat /\ from <= After(S)
             /\ \A r \in S : r.end < After(S)
             /\ After(S) = from \/ \E r \in S : After(S) = r.end + 1
  <2> DEFINE T == {from} \cup {r.end + 1 : r \in S}
  <2>1. T \in SUBSET Nat /\ T # {}
    BY <1>1
  <2>2. \A x \in T : x <= top + 1
    BY <1>1
  <2>3. \A r \in S : r.end + 1 \in T
    OBVIOUS
  <2>4. After(S) = Max(T)
    OBVIOUS
  <2>5. Max(T) \in T /\ \A y \in T : Max(T) >= y
    <3> HIDE DEF T
    <3>1. top + 1 \in Nat
      OBVIOUS
    <3> QED
      BY <2>1, <2>2, <3>1, MaxIsGreatest
  <2>6. After(S) \in T /\ \A y \in T : After(S) >= y
    BY <2>4, <2>5
  <2> HIDE DEF After
  <2>7. After(S) \in Nat /\ from <= After(S)
    BY <2>1, <2>6
  <2>8. \A r \in S : r.end < After(S)
    BY <1>1, <2>3, <2>6, <2>7
  <2> QED
    BY <2>6, <2>7, <2>8
<1>3. Gaps(from, end, ranges) =
        {Span(After(Before(r)), r.start - 1, "module") :
           r \in {r \in ranges : After(Before(r)) < r.start}}
        \cup (IF After(ranges) <= end THEN {Span(After(ranges), end, "module")} ELSE {})
  BY DEF Gaps
<1> HIDE DEF After
<1>4. ASSUME NEW g \in Gaps(from, end, ranges)
      PROVE  \E x, y \in 1..top : x <= y /\ g = Span(x, y, "module")
  <2>1. CASE \E r \in ranges : /\ After(Before(r)) < r.start
                               /\ g = Span(After(Before(r)), r.start - 1, "module")
    <3>1. PICK r \in ranges : /\ After(Before(r)) < r.start
                              /\ g = Span(After(Before(r)), r.start - 1, "module")
      BY <2>1
    <3>2. After(Before(r)) \in Nat /\ from <= After(Before(r))
      BY <1>2
    <3>3. After(Before(r)) \in 1..top /\ r.start - 1 \in 1..top /\ After(Before(r)) <= r.start - 1
      BY <1>1, <3>1, <3>2
    <3> QED
      BY <3>1, <3>3
  <2>2. CASE After(ranges) <= end /\ g = Span(After(ranges), end, "module")
    <3>1. After(ranges) \in Nat /\ from <= After(ranges)
      BY <1>2
    <3>2. After(ranges) \in 1..top /\ end \in 1..top
      BY <2>2, <3>1
    <3> QED
      BY <2>2, <3>2
  <2> QED
    BY <1>3, <2>1, <2>2
<1>5. ASSUME NEW n \in from..end, ~\E r \in ranges : Covers(r, n)
      PROVE  \E g \in Gaps(from, end, ranges) : Covers(g, n)
  <2> DEFINE B == {r \in ranges : r.start <= n}
  <2>1. After(B) \in Nat /\ After(B) <= n
    <3>1. /\ After(B) \in Nat
          /\ After(B) = from \/ \E r \in B : After(B) = r.end + 1
      BY <1>2
    <3>2. \A r \in B : r.end + 1 <= n
      BY <1>1, <1>5 DEF Covers
    <3> QED
      BY <3>1, <3>2
  <2>2. CASE \E q \in ranges : q.start > n
    <3> DEFINE T == {q.start : q \in {q \in ranges : q.start > n}}
    <3>1. T \in SUBSET Nat /\ T # {}
      BY <1>1, <2>2
    <3>2. PICK m \in T : \A y \in T : m <= y
      BY <3>1, LeastExists
    <3>3. PICK q \in ranges : q.start > n /\ m = q.start
      BY <3>2
    <3>4. \A p \in ranges : p.start > n => q.start <= p.start
      BY <3>2, <3>3
    <3>5. Before(q) = B
      BY <1>1, <3>3, <3>4
    <3>6. After(Before(q)) < q.start
      BY <1>1, <2>1, <3>3, <3>5
    <3>7. Span(After(Before(q)), q.start - 1, "module") \in Gaps(from, end, ranges)
      BY <1>3, <3>6
    <3>8. Covers(Span(After(Before(q)), q.start - 1, "module"), n)
      <4>1. After(Before(q)) <= n
        BY <2>1, <3>5
      <4>2. n <= q.start - 1
        BY <1>1, <3>3
      <4> QED
        BY <4>1, <4>2 DEF Covers, Span
    <3> QED
      BY <3>7, <3>8
  <2>3. CASE ~\E q \in ranges : q.start > n
    <3>1. B = ranges
      BY <1>1, <2>3
    <3>2. After(ranges) <= end
      BY <2>1, <3>1
    <3>3. Span(After(ranges), end, "module") \in Gaps(from, end, ranges)
      BY <1>3, <3>2
    <3>4. Covers(Span(After(ranges), end, "module"), n)
      BY <2>1, <3>1 DEF Covers, Span
    <3> QED
      BY <3>3, <3>4
  <2> QED
    BY <2>2, <2>3
<1> QED
  BY <1>4, <1>5

(* A window is part of its piece and fits.                                 *)
LEMMA WindowFits ==
  ASSUME FileOK, NEW from \in Nat \ {0}, NEW end \in Nat, from <= end, end <= Len(lines)
  PROVE  LET last == WindowEnd(from, end)
         IN /\ last \in Nat /\ from <= last /\ last <= end
            /\ last - from + 1 <= config.max_lines
            /\ from = last \/ CharCount(from, last) <= config.max_chars
<1> DEFINE stop == Min2(from + config.max_lines - 1, end)
           fitting == {n \in from..stop : n = from \/ CharCount(from, n) <= config.max_chars}
           limit == Limit(from, end)
<1>1. config.max_lines \in Nat \ {0} /\ config.max_chars \in Nat \ {0} /\ Len(lines) \in Nat
  BY FileFacts
<1>2. stop \in Nat /\ from <= stop /\ stop <= end /\ stop <= from + config.max_lines - 1
  BY <1>1 DEF Min2
<1>3. limit \in fitting
  <2>1. fitting \in SUBSET Nat /\ from \in fitting
    BY <1>2
  <2>2. \A n \in fitting : n <= stop
    BY <1>2
  <2>3. Max(fitting) \in fitting
    BY <1>2, <2>1, <2>2, MaxIsGreatest
  <2> QED
    BY <2>3 DEF Limit
<1>4. /\ limit \in Nat /\ from <= limit /\ limit <= end
      /\ limit - from + 1 <= config.max_lines
      /\ limit = from \/ CharCount(from, limit) <= config.max_chars
  BY <1>1, <1>2, <1>3
<1> HIDE DEF limit, fitting, stop
<1>5. CASE WindowEnd(from, end) = limit
  BY <1>4, <1>5
<1>6. CASE WindowEnd(from, end) # limit
  <2> DEFINE blank == {n \in (from + 3)..limit : lines[n].kind = "blank"}
  <2>1. blank # {} /\ WindowEnd(from, end) = Max(blank) - 1
    BY <1>6 DEF WindowEnd, Boundary, limit
  <2>2. blank \in SUBSET Nat /\ \A n \in blank : n <= limit
    BY <1>4
  <2>3. Max(blank) \in blank
    BY <1>4, <2>1, <2>2, MaxIsGreatest
  <2>4. Max(blank) \in Nat /\ from + 3 <= Max(blank) /\ Max(blank) <= limit
    BY <1>4, <2>3
  <2> HIDE DEF blank
  <2>5. /\ WindowEnd(from, end) \in Nat /\ from <= WindowEnd(from, end)
        /\ WindowEnd(from, end) <= limit /\ limit # from
    BY <1>4, <2>1, <2>4
  <2>6. /\ CharCount(from, WindowEnd(from, end)) \in Int /\ CharCount(from, limit) \in Int
        /\ CharCount(from, WindowEnd(from, end)) <= CharCount(from, limit)
    <3>1. limit <= Len(lines)
      BY <1>1, <1>4
    <3> QED
      BY <1>4, <2>5, <3>1, CharCountGrows
  <2> QED
    BY <1>1, <1>4, <2>5, <2>6
<1> QED
  BY <1>5, <1>6

-----------------------------------------------------------------------------
(* Chunks: the inductive invariant.                                        *)

InFile(range) ==
  /\ range.start \in Nat /\ range.end \in Nat
  /\ 1 <= range.start /\ range.start <= range.end /\ range.end <= Len(lines)

\* What is still to be cut is part of the file, and no header.
WorkOK ==
  /\ symbolsLeft \in SUBSET DOMAIN symbols
  /\ \A p \in todo : p = Span(p.start, p.end, p.kind) /\ InFile(p) /\ p.kind # "symbol_header"
  /\ phase = "structure" => symbolsLeft = {} /\ todo = {}

\* A chunk as ChunksFit wants it.
Fitting(c) ==
  /\ InFile(c)
  /\ c.kind # "symbol_header" =>
       /\ c.end - c.start + 1 <= config.max_lines
       /\ c.start = c.end \/ CharCount(c.start, c.end) <= config.max_chars

\* A line is in a chunk, or in what is still to be cut.
Kept(n) ==
  \/ \E c \in chunks : Covers(c, n)
  \/ \E s \in symbolsLeft : Covers(symbols[s], n)
  \/ \E p \in todo : Covers(p, n)

CoverageInv ==
  phase # "structure" => \A n \in DOMAIN lines : lines[n].kind = "code" => Kept(n)

ChunkingInv == FileOK /\ WorkOK /\ (\A c \in chunks : Fitting(c)) /\ CoverageInv

(* The gaps between some symbols of the file, in terms of the invariant.   *)
LEMMA SymbolGaps ==
  ASSUME FileOK, NEW S \in SUBSET DOMAIN symbols, NEW from \in Nat \ {0}, NEW end \in Nat,
         end <= Len(lines), from <= Len(lines) + 1
  PROVE  /\ \A g \in Gaps(from, end, RangesOf(S)) :
              g = Span(g.start, g.end, g.kind) /\ InFile(g) /\ g.kind = "module"
         /\ \A n \in from..end : \/ \E s \in S : Covers(symbols[s], n)
                                 \/ \E g \in Gaps(from, end, RangesOf(S)) : Covers(g, n)
<1> DEFINE ranges == RangesOf(S)
<1>1. Len(lines) \in Nat
  BY FileFacts
<1>2. \A r \in ranges : \E s \in S : r.start = symbols[s].start /\ r.end = symbols[s].end
  BY DEF RangesOf
<1>3. ranges \in SUBSET [start : Nat \ {0}, end : Nat]
  BY FileFacts DEF RangesOf
<1>4. \A r \in ranges : r.start <= r.end /\ r.end <= Len(lines)
  BY <1>2, FileFacts
<1> HIDE DEF ranges
<1>5. /\ \A g \in Gaps(from, end, ranges) :
           \E x, y \in 1..Len(lines) : x <= y /\ g = Span(x, y, "module")
      /\ \A n \in from..end :
           \/ \E r \in ranges : Covers(r, n)
           \/ \E g \in Gaps(from, end, ranges) : Covers(g, n)
  BY <1>1, <1>3, <1>4, GapsFill
<1>6. \A g \in Gaps(from, end, ranges) :
        g = Span(g.start, g.end, g.kind) /\ InFile(g) /\ g.kind = "module"
  BY <1>1, <1>5 DEF Span, InFile
<1>7. \A n \in from..end : \/ \E s \in S : Covers(symbols[s], n)
                           \/ \E g \in Gaps(from, end, ranges) : Covers(g, n)
  BY <1>2, <1>5 DEF Covers
<1> QED
  BY <1>6, <1>7 DEF ranges

(* The sections of a Markdown file, or the one piece of another file.      *)
LEMMA TextPiecesFill ==
  ASSUME FileOK, NEW headings \in SUBSET DOMAIN lines, NEW pieces,
         pieces = MarkdownPieces(headings) \/ pieces = TextPieces
  PROVE  /\ \A g \in pieces :
              g = Span(g.start, g.end, g.kind) /\ InFile(g) /\ g.kind # "symbol_header"
         /\ \A n \in DOMAIN lines : \E g \in pieces : Covers(g, n)
<1>1. Len(lines) \in Nat /\ DOMAIN lines = 1..Len(lines)
  BY FileFacts
<1>2. CASE pieces = TextPieces
  <2>1. CASE lines = << >>
    <3>1. DOMAIN lines = {} /\ pieces = {}
      BY <1>1, <1>2, <2>1 DEF TextPieces
    <3> QED
      BY <3>1
  <2>2. CASE lines # << >>
    <3>1. Len(lines) >= 1
      BY <1>1, <2>2, FileFacts
    <3>2. pieces = {Span(1, Len(lines), "window")}
      BY <1>2, <2>2 DEF TextPieces
    <3> QED
      BY <1>1, <3>1, <3>2 DEF Span, InFile, Covers
  <2> QED
    BY <2>1, <2>2
<1>3. CASE pieces = MarkdownPieces(headings)
  <2> DEFINE starts == {a \in DOMAIN lines : a = 1 \/ a \in headings}
             ends(a) == {b \in a..Len(lines) : b = Len(lines) \/ b + 1 \in headings}
  <2>1. pieces = {Span(a, Min(ends(a)), "section") : a \in starts}
    BY <1>3 DEF MarkdownPieces
  <2>2. ASSUME NEW a \in starts
        PROVE  /\ Min(ends(a)) \in a..Len(lines)
               /\ Min(ends(a)) = Len(lines) \/ Min(ends(a)) + 1 \in headings
    <3>1. a \in 1..Len(lines)
      BY <1>1
    <3>2. Len(lines) \in ends(a)
      BY <1>1, <3>1
    <3>3. ends(a) \in SUBSET Nat /\ ends(a) # {}
      BY <1>1, <3>1, <3>2
    <3>4. Min(ends(a)) \in ends(a)
      <4> HIDE DEF ends
      <4> QED
        BY <3>3, MinIsLeast
    <3>5. PICK b \in ends(a) : b = Min(ends(a))
      BY <3>4
    <3>6. b \in a..Len(lines) /\ (b = Len(lines) \/ b + 1 \in headings)
      OBVIOUS
    <3> HIDE DEF ends
    <3> QED
      BY <3>5, <3>6
  <2>3. \A a \in starts : Span(a, Min(ends(a)), "section") \in pieces
    BY <2>1
  <2>4. \A a \in starts : /\ a \in Nat /\ Min(ends(a)) \in Nat
                          /\ 1 <= a /\ a <= Min(ends(a)) /\ Min(ends(a)) <= Len(lines)
    <3>1. \A a \in starts : a \in 1..Len(lines)
      BY <1>1
    <3> HIDE DEF starts, ends
    <3> QED
      BY <1>1, <2>2, <3>1
  <2>5. \A g \in pieces : g = Span(g.start, g.end, g.kind) /\ InFile(g) /\ g.kind # "symbol_header"
    <3> SUFFICES ASSUME NEW a \in starts, NEW g, g = Span(a, Min(ends(a)), "section")
                 PROVE  g = Span(g.start, g.end, g.kind) /\ InFile(g) /\ g.kind # "symbol_header"
      BY <2>1
    <3> HIDE DEF starts, ends
    <3> QED
      BY <2>4 DEF Span, InFile
  <2>6. ASSUME NEW n \in DOMAIN lines PROVE \E g \in pieces : Covers(g, n)
    <3> DEFINE upTo == {a \in starts : a <= n}
    <3>1. n \in 1..Len(lines)
      BY <1>1
    <3>2. 1 \in upTo
      BY <1>1, <3>1
    <3>3. upTo \in SUBSET Nat /\ \A x \in upTo : x <= n
      BY <1>1
    <3>4. Max(upTo) \in upTo /\ \A y \in upTo : Max(upTo) >= y
      <4>1. n \in Nat /\ upTo # {}
        BY <3>1, <3>2
      <4> HIDE DEF upTo
      <4> QED
        BY <3>3, <4>1, MaxIsGreatest
    <3>5. PICK a \in upTo : \A y \in upTo : a >= y
      BY <3>4
    <3>6. a \in starts /\ a <= n
      OBVIOUS
    <3>7. n <= Min(ends(a))
      <4>1. PICK b \in Nat : b = Min(ends(a)) /\ a <= b /\ (b = Len(lines) \/ b + 1 \in headings)
        <5> HIDE DEF ends, starts
        <5> QED
          BY <2>2, <2>4, <3>6
      <4>2. CASE b = Len(lines)
        <5>1. n <= b
          BY <1>1, <3>1, <4>2
        <5> QED
          BY <4>1, <5>1
      <4>3. CASE b + 1 \in headings
        <5>1. b + 1 \in starts
          BY <4>3
        <5>2. b + 1 <= n => b + 1 \in upTo
          BY <5>1
        <5>3. ~(b + 1 <= n)
          BY <2>4, <3>5, <3>6, <4>1, <5>2
        <5> QED
          BY <3>1, <4>1, <5>3
      <4> QED
        BY <4>1, <4>2, <4>3
    <3>8. Covers(Span(a, Min(ends(a)), "section"), n)
      BY <3>6, <3>7 DEF Covers, Span
    <3> QED
      BY <2>3, <3>6, <3>8
  <2> QED
    BY <2>5, <2>6
<1> QED
  BY <1>2, <1>3

(* The cursor goes forward and leaves out no line.                         *)
LEMMA CursorMoves ==
  ASSUME config.overlap \in Nat, NEW from \in Nat, NEW last \in Nat, NEW end \in Nat,
         from <= last
  PROVE  /\ NextCursor(from, last, end) \in Nat
         /\ from < NextCursor(from, last, end) /\ NextCursor(from, last, end) <= last + 1
<1>1. CASE last >= end
  BY <1>1 DEF NextCursor
<1>2. CASE ~(last >= end)
  <2> DEFINE back == last + 1 - config.overlap
  <2>1. back \in Int /\ back <= last + 1
    OBVIOUS
  <2>2. NextCursor(from, last, end) = IF back > from + 1 THEN back ELSE from + 1
    BY <1>2 DEF NextCursor, Max2
  <2> HIDE DEF back
  <2> QED
    BY <2>1, <2>2
<1> QED
  BY <1>1, <1>2

(* A turn of the loop of _windows.                                         *)
LEMMA WindowStep ==
  ASSUME ChunkingInv, CutWindow
  PROVE  LET piece == PresentPiece
             last == WindowEnd(piece.start, piece.end)
             rest == Span(NextCursor(piece.start, last, piece.end), piece.end, piece.kind)
         IN /\ piece \in todo /\ InFile(piece) /\ piece.kind # "symbol_header"
            /\ Fitting(Span(piece.start, last, piece.kind))
            /\ rest.start \in Nat /\ piece.start < rest.start /\ rest.start <= last + 1
            /\ last = piece.end \/ rest \in todo'
            /\ last \in Nat /\ piece.start <= last /\ last <= piece.end
            /\ \A n \in piece.start..last :
                 lines[n].kind = "code" => \E c \in chunks' : Covers(c, n)
<1> DEFINE piece == PresentPiece
           last == WindowEnd(piece.start, piece.end)
           window == Span(piece.start, last, piece.kind)
           rest == Span(NextCursor(piece.start, last, piece.end), piece.end, piece.kind)
<1>1. piece \in todo
  BY DEF CutWindow, PresentPiece
<1>2. InFile(piece) /\ piece.kind # "symbol_header" /\ FileOK
  BY <1>1 DEF ChunkingInv, WorkOK
<1> HIDE DEF piece
<1>3. /\ piece.start \in Nat \ {0} /\ piece.end \in Nat
      /\ piece.start <= piece.end /\ piece.end <= Len(lines)
  BY <1>2 DEF InFile
<1>4. /\ last \in Nat /\ piece.start <= last /\ last <= piece.end
      /\ last - piece.start + 1 <= config.max_lines
      /\ piece.start = last \/ CharCount(piece.start, last) <= config.max_chars
  BY <1>2, <1>3, WindowFits
<1> HIDE DEF last
<1>5. Len(lines) \in Nat /\ config.overlap \in Nat
  BY <1>2, FileFacts
<1>6. Fitting(window)
  BY <1>3, <1>4, <1>5 DEF Fitting, InFile, Span
<1>7. rest.start \in Nat /\ piece.start < rest.start /\ rest.start <= last + 1
  <2>1. rest.start = NextCursor(piece.start, last, piece.end)
    BY DEF Span
  <2>2. /\ NextCursor(piece.start, last, piece.end) \in Nat
        /\ piece.start < NextCursor(piece.start, last, piece.end)
        /\ NextCursor(piece.start, last, piece.end) <= last + 1
    BY <1>3, <1>4, <1>5, CursorMoves
  <2> HIDE DEF rest
  <2> QED
    BY <2>1, <2>2
<1>8. /\ chunks' = chunks \cup {w \in {window} : Keep(w)}
      /\ todo' = (todo \ {piece}) \cup {r \in {rest} : r.start <= r.end}
  BY DEF CutWindow, piece, last
<1>9. last = piece.end \/ rest \in todo'
  <2>1. rest.end = piece.end
    BY DEF Span
  <2>2. last # piece.end => rest.start <= rest.end
    BY <1>3, <1>4, <1>7, <2>1
  <2> QED
    BY <1>8, <2>2
<1>10. ASSUME NEW n \in piece.start..last, lines[n].kind = "code"
       PROVE  \E c \in chunks' : Covers(c, n)
  <2>1. Keep(window)
    BY <1>10 DEF Keep, HasContent, IsSeparator, Span
  <2>2. window \in chunks'
    BY <1>8, <2>1
  <2>3. Covers(window, n)
    BY <1>3, <1>4 DEF Covers, Span
  <2> QED
    BY <2>2, <2>3
<1> QED
  BY <1>1, <1>2, <1>4, <1>6, <1>7, <1>9, <1>10 DEF piece, last

(* Every step keeps the invariant.                                         *)
LEMMA ChunkingStep ==
  ASSUME ChunkingInv, [ChunkingNext]_chunkingVars
  PROVE  ChunkingInv'
<1> USE DEF ChunkingInv
<1>1. UNCHANGED <<lines, symbols, config>>
  BY DEF ChunkingNext, ChunkSourceFile, ChunkTextFile, Begin, ChunkSymbol, CutWindow, chunkingVars
<1>2. FileOK'
  BY <1>1 DEF FileOK
<1>3. /\ \A range : InFile(range)' <=> InFile(range)
      /\ \A c : Fitting(c)' <=> Fitting(c)
  BY <1>1 DEF InFile, Fitting, CharCount
<1>4. Len(lines) \in Nat /\ DOMAIN lines = 1..Len(lines)
  BY FileFacts
<1>5. ASSUME ChunkSourceFile
      PROVE  WorkOK' /\ (\A c \in chunks : Fitting(c))' /\ CoverageInv'
  <2>1. /\ phase' = "windows" /\ UNCHANGED chunks
        /\ symbolsLeft' = TopSymbols /\ todo' = Gaps(1, Len(lines), RangesOf(TopSymbols))
    BY <1>5 DEF ChunkSourceFile, Begin
  <2>2. TopSymbols \in SUBSET DOMAIN symbols
    BY DEF TopSymbols
  <2>3. /\ \A g \in todo' : g = Span(g.start, g.end, g.kind) /\ InFile(g) /\ g.kind = "module"
        /\ \A n \in 1..Len(lines) :
             \/ \E s \in TopSymbols : Covers(symbols[s], n)
             \/ \E g \in todo' : Covers(g, n)
    <3> DEFINE gaps == Gaps(1, Len(lines), RangesOf(TopSymbols))
    <3>1. 1 \in Nat \ {0} /\ 1 <= Len(lines) + 1 /\ Len(lines) <= Len(lines)
      BY <1>4
    <3>2. /\ \A g \in gaps : g = Span(g.start, g.end, g.kind) /\ InFile(g) /\ g.kind = "module"
          /\ \A n \in 1..Len(lines) :
               \/ \E s \in TopSymbols : Covers(symbols[s], n)
               \/ \E g \in gaps : Covers(g, n)
      BY <1>4, <2>2, <3>1, SymbolGaps
    <3> HIDE DEF gaps
    <3>3. todo' = gaps
      BY <2>1 DEF gaps
    <3> QED
      BY <3>2, <3>3
  <2>4. WorkOK'
    BY <1>1, <1>3, <2>1, <2>2, <2>3 DEF WorkOK
  <2>5. CoverageInv'
    BY <1>1, <1>4, <2>1, <2>3 DEF CoverageInv, Kept
  <2> QED
    BY <1>3, <2>1, <2>4, <2>5
<1>6. ASSUME ChunkTextFile
      PROVE  WorkOK' /\ (\A c \in chunks : Fitting(c))' /\ CoverageInv'
  <2>1. /\ phase' = "windows" /\ UNCHANGED chunks
        /\ symbolsLeft' = {}
        /\ \E headings \in SUBSET DOMAIN lines :
             todo' = MarkdownPieces(headings) \/ todo' = TextPieces
    BY <1>6 DEF ChunkTextFile, Begin
  <2>2. /\ \A g \in todo' : g = Span(g.start, g.end, g.kind) /\ InFile(g) /\ g.kind # "symbol_header"
        /\ \A n \in DOMAIN lines : \E g \in todo' : Covers(g, n)
    BY <2>1, TextPiecesFill
  <2>3. WorkOK'
    BY <1>1, <1>3, <2>1, <2>2 DEF WorkOK
  <2>4. CoverageInv'
    BY <1>1, <2>2 DEF CoverageInv, Kept
  <2> QED
    BY <1>3, <2>1, <2>3, <2>4
<1>7. ASSUME ChunkSymbol
      PROVE  WorkOK' /\ (\A c \in chunks : Fitting(c))' /\ CoverageInv'
  <2> DEFINE s == PresentSymbol
  <2>1. s \in symbolsLeft
    BY <1>7 DEF ChunkSymbol, PresentSymbol
  <2>2. /\ KeepSymbol(s) \/ SplitSymbol(s) \/ SplitContainer(s)
        /\ UNCHANGED phase /\ symbolsLeft # {}
    BY <1>7 DEF ChunkSymbol
  <2> HIDE DEF s
  <2>3. /\ s \in DOMAIN symbols
        /\ symbols[s].start \in Nat \ {0} /\ symbols[s].end \in Nat
        /\ symbols[s].start <= symbols[s].end /\ symbols[s].end <= Len(lines)
    BY <2>1, FileFacts DEF WorkOK
  <2>4. phase # "structure" /\ phase' # "structure"
    BY <2>2 DEF WorkOK
  <2>5. \A n \in DOMAIN lines : lines[n].kind = "code" => Kept(n)
    BY <2>4 DEF CoverageInv
  <2>6. CASE KeepSymbol(s)
    <3> DEFINE chunk == Span(symbols[s].start, symbols[s].end, "symbol")
    <3>1. /\ chunks' = chunks \cup {chunk} /\ symbolsLeft' = symbolsLeft \ {s} /\ UNCHANGED todo
      BY <2>6 DEF KeepSymbol
    <3>2. Fitting(chunk)
      BY <1>4, <2>3, <2>6 DEF KeepSymbol, Fits, Fitting, InFile, Span
    <3>3. \A n : Covers(symbols[s], n) => Covers(chunk, n)
      BY DEF Covers, Span
    <3> HIDE DEF chunk
    <3>4. \A n : Kept(n) => Kept(n)'
      BY <1>1, <3>1, <3>3 DEF Kept
    <3>5. WorkOK'
      BY <1>1, <1>3, <2>4, <3>1 DEF WorkOK
    <3>6. CoverageInv'
      BY <1>1, <2>5, <3>4 DEF CoverageInv
    <3> QED
      BY <1>3, <3>1, <3>2, <3>5, <3>6
  <2>7. CASE SplitSymbol(s)
    <3> DEFINE piece == Span(symbols[s].start, symbols[s].end, "symbol_part")
    <3>1. /\ todo' = todo \cup {piece} /\ symbolsLeft' = symbolsLeft \ {s} /\ UNCHANGED chunks
      BY <2>7 DEF SplitSymbol
    <3>2. piece = Span(piece.start, piece.end, piece.kind) /\ InFile(piece)
          /\ piece.kind # "symbol_header"
      BY <1>4, <2>3 DEF InFile, Span
    <3>3. \A n : Covers(symbols[s], n) => Covers(piece, n)
      BY DEF Covers, Span
    <3> HIDE DEF piece
    <3>4. \A n : Kept(n) => Kept(n)'
      BY <1>1, <3>1, <3>3 DEF Kept
    <3>5. WorkOK'
      BY <1>1, <1>3, <2>4, <3>1, <3>2 DEF WorkOK
    <3>6. CoverageInv'
      BY <1>1, <2>5, <3>4 DEF CoverageInv
    <3> QED
      BY <1>3, <3>1, <3>5, <3>6
  <2>8. CASE SplitContainer(s)
    <3> DEFINE stop == HeaderEnd(s)
               header == Span(symbols[s].start, stop, "symbol_header")
               gaps == Gaps(stop + 1, symbols[s].end, RangesOf(ChildrenOf(s)))
    <3>1. /\ ChildrenOf(s) # {} /\ ChildrenOf(s) \in SUBSET DOMAIN symbols
          /\ chunks' = chunks \cup (IF stop >= symbols[s].start THEN {header} ELSE {})
          /\ todo' = todo \cup gaps
          /\ symbolsLeft' = (symbolsLeft \ {s}) \cup ChildrenOf(s)
      BY <2>8 DEF SplitContainer, ChildrenOf
    <3>2. stop \in Nat /\ stop <= symbols[s].end
      <4> DEFINE S == {symbols[c].start : c \in ChildrenOf(s)}
      <4>1. S \in SUBSET (Nat \ {0}) /\ S # {}
        BY <3>1, FileFacts
      <4>2. Min(S) \in Nat \ {0}
        BY <4>1, MinIsLeast
      <4>3. stop = Min2(Min(S) - 1, symbols[s].end)
        BY DEF HeaderEnd
      <4> HIDE DEF S, stop
      <4> QED
        BY <2>3, <4>2, <4>3 DEF Min2
    <3> HIDE DEF stop
    <3>3. /\ \A g \in gaps : g = Span(g.start, g.end, g.kind) /\ InFile(g) /\ g.kind = "module"
          /\ \A n \in (stop + 1)..symbols[s].end :
               \/ \E c \in ChildrenOf(s) : Covers(symbols[c], n)
               \/ \E g \in gaps : Covers(g, n)
      <4>1. stop + 1 \in Nat \ {0} /\ stop + 1 <= Len(lines) + 1
        BY <1>4, <2>3, <3>2
      <4> QED
        BY <2>3, <3>1, <4>1, SymbolGaps
    <3> HIDE DEF gaps
    <3>4. stop >= symbols[s].start => Fitting(header)
      BY <1>4, <2>3, <3>2 DEF Fitting, InFile, Span
    <3>5. ASSUME NEW n \in Nat, Covers(symbols[s], n)
          PROVE  Kept(n)'
      <4>1. CASE n <= stop
        <5>1. stop >= symbols[s].start /\ Covers(header, n)
          BY <2>3, <3>2, <3>5, <4>1 DEF Covers, Span
        <5> QED
          BY <3>1, <5>1 DEF Kept
      <4>2. CASE n > stop
        <5>1. n \in (stop + 1)..symbols[s].end
          BY <2>3, <3>2, <3>5, <4>2 DEF Covers
        <5> QED
          BY <1>1, <3>1, <3>3, <5>1 DEF Kept
      <4> QED
        BY <3>2, <4>1, <4>2
    <3> HIDE DEF header
    <3>6. \A n \in Nat : Kept(n) => Kept(n)'
      <4>1. chunks \subseteq chunks' /\ todo \subseteq todo' /\ symbolsLeft \ {s} \subseteq symbolsLeft'
        BY <3>1
      <4> QED
        BY <1>1, <3>5, <4>1 DEF Kept
    <3>7. WorkOK'
      BY <1>1, <1>3, <2>4, <3>1, <3>3 DEF WorkOK
    <3>8. CoverageInv'
      BY <1>1, <1>4, <2>5, <3>6 DEF CoverageInv
    <3>9. \A c \in chunks' : Fitting(c)'
      BY <1>3, <3>1, <3>4
    <3> QED
      BY <3>7, <3>8, <3>9
  <2> QED
    BY <2>2, <2>6, <2>7, <2>8
<1>8. ASSUME CutWindow
      PROVE  WorkOK' /\ (\A c \in chunks : Fitting(c))' /\ CoverageInv'
  <2> DEFINE piece == PresentPiece
             last == WindowEnd(piece.start, piece.end)
             window == Span(piece.start, last, piece.kind)
             rest == Span(NextCursor(piece.start, last, piece.end), piece.end, piece.kind)
  <2>1. /\ piece \in todo /\ InFile(piece) /\ piece.kind # "symbol_header"
        /\ Fitting(window)
        /\ rest.start \in Nat /\ piece.start < rest.start /\ rest.start <= last + 1
        /\ last = piece.end \/ rest \in todo'
        /\ last \in Nat /\ piece.start <= last /\ last <= piece.end
        /\ \A n \in piece.start..last :
             lines[n].kind = "code" => \E c \in chunks' : Covers(c, n)
    BY <1>8, WindowStep
  <2>2. /\ symbolsLeft = {} /\ UNCHANGED <<symbolsLeft, phase>>
        /\ chunks' = chunks \cup {w \in {window} : Keep(w)}
        /\ todo' = (todo \ {piece}) \cup {r \in {rest} : r.start <= r.end}
    BY <1>8 DEF CutWindow
  <2>3. rest.end = piece.end /\ rest.kind = piece.kind /\ rest = Span(rest.start, rest.end, rest.kind)
    BY DEF Span
  <2> HIDE DEF piece, last, window, rest
  <2>4. /\ piece.start \in Nat /\ piece.end \in Nat /\ 1 <= piece.start
        /\ piece.start <= piece.end /\ piece.end <= Len(lines)
    BY <2>1 DEF InFile
  <2>5. rest.start <= rest.end => InFile(rest) /\ rest.kind # "symbol_header"
    BY <2>1, <2>3, <2>4 DEF InFile
  <2>6. phase # "structure"
    BY <2>1 DEF WorkOK
  <2>7. WorkOK'
    BY <1>1, <1>3, <2>2, <2>3, <2>5, <2>6 DEF WorkOK
  <2>8. \A c \in chunks' : Fitting(c)'
    BY <1>3, <2>1, <2>2
  <2>9. ASSUME NEW n \in DOMAIN lines, lines[n].kind = "code"
        PROVE  Kept(n)'
    <3>1. n \in Nat /\ Kept(n)
      BY <1>4, <2>6, <2>9 DEF CoverageInv
    <3>2. CASE Covers(piece, n)
      <4>1. CASE n <= last
        <5>1. n \in piece.start..last
          BY <2>1, <2>4, <3>1, <3>2, <4>1 DEF Covers
        <5> QED
          BY <2>1, <2>9, <5>1 DEF Kept
      <4>2. CASE n > last
        <5>1. rest \in todo'
          BY <2>1, <2>4, <3>1, <3>2, <4>2 DEF Covers
        <5>2. Covers(rest, n)
          BY <2>1, <2>3, <2>4, <3>1, <3>2, <4>2 DEF Covers
        <5> QED
          BY <5>1, <5>2 DEF Kept
      <4> QED
        BY <2>1, <3>1, <4>1, <4>2
    <3>3. CASE ~Covers(piece, n)
      BY <2>2, <3>1, <3>3 DEF Kept
    <3> QED
      BY <3>2, <3>3
  <2>10. CoverageInv'
    BY <1>1, <2>9 DEF CoverageInv
  <2> QED
    BY <2>7, <2>8, <2>10
<1>9. CASE UNCHANGED chunkingVars
  BY <1>1, <1>2, <1>3, <1>9 DEF chunkingVars, WorkOK, CoverageInv, Kept
<1> QED
  BY <1>2, <1>5, <1>6, <1>7, <1>8, <1>9 DEF ChunkingNext

\* What every state of the chunker satisfies.
LEMMA ChunkingInvariance == ChunkingSpec => []ChunkingInv
<1>1. ChunkingInit => ChunkingInv
  BY DEF ChunkingInit, ChunkingInv, FileOK, WorkOK, CoverageInv
<1>2. ChunkingInv /\ [ChunkingNext]_chunkingVars => ChunkingInv'
  BY ChunkingStep
<1> QED
  BY <1>1, <1>2, PTL DEF ChunkingSpec

\* However a file is cut, none of its code is left out of the index: not
\* between symbols, members or headings, and not between windows.
THEOREM NoCodeIsLost == ChunkingSpec => []EveryCodeLineIsChunked
<1>1. ChunkingInv => EveryCodeLineIsChunked
  BY DEF ChunkingInv, CoverageInv, Kept, EveryCodeLineIsChunked, Chunked
<1> QED
  BY <1>1, ChunkingInvariance, PTL

\* Chunks are parts of the file within the limits of the configuration, for
\* every file, every outline and every configuration.
THEOREM ChunksAreWithinLimits == ChunkingSpec => []ChunksFit
<1>1. ChunkingInv => ChunksFit
  BY DEF ChunkingInv, Fitting, InFile, ChunksFit
<1> QED
  BY <1>1, ChunkingInvariance, PTL

\* The loop of _windows advances at every turn and skips no line of code.
THEOREM WindowsAlwaysAdvance == ChunkingSpec => WindowsAdvance
<1> DEFINE Advance ==
      symbolsLeft = {} /\ todo # {} =>
        LET piece == PresentPiece
        IN /\ piece \notin todo'
           /\ \A n \in piece.start..piece.end : lines[n].kind = "code" =>
                \/ \E c \in chunks' : Covers(c, n)
                \/ \E rest \in todo' : piece.start < rest.start /\ Covers(rest, n)
<1>1. ASSUME ChunkingInv, [ChunkingNext]_chunkingVars
      PROVE  [Advance]_chunkingVars
  <2>1. SUFFICES ASSUME symbolsLeft = {}, todo # {}, CutWindow
                 PROVE  Advance
    <3>1. symbolsLeft = {} /\ todo # {} /\ ChunkingNext => CutWindow
      BY <1>1 DEF ChunkingNext, ChunkSourceFile, ChunkTextFile, Begin, ChunkSymbol, ChunkingInv, WorkOK
    <3> QED
      BY <1>1, <3>1
  <2> DEFINE piece == PresentPiece
             last == WindowEnd(piece.start, piece.end)
             window == Span(piece.start, last, piece.kind)
             rest == Span(NextCursor(piece.start, last, piece.end), piece.end, piece.kind)
  <2>2. /\ piece \in todo /\ InFile(piece)
        /\ rest.start \in Nat /\ piece.start < rest.start /\ rest.start <= last + 1
        /\ last = piece.end \/ rest \in todo'
        /\ last \in Nat /\ piece.start <= last /\ last <= piece.end
        /\ \A n \in piece.start..last :
             lines[n].kind = "code" => \E c \in chunks' : Covers(c, n)
    BY <1>1, <2>1, WindowStep
  <2>3. todo' = (todo \ {piece}) \cup {r \in {rest} : r.start <= r.end}
    BY <2>1 DEF CutWindow
  <2>4. rest.end = piece.end
    BY DEF Span
  <2> HIDE DEF piece, last, window, rest
  <2>5. piece.start \in Nat /\ piece.end \in Nat
    BY <2>2 DEF InFile
  <2>6. piece \notin todo'
    BY <2>2, <2>3, <2>5
  <2>7. ASSUME NEW n \in piece.start..piece.end, lines[n].kind = "code",
               ~\E c \in chunks' : Covers(c, n)
        PROVE  \E r \in todo' : piece.start < r.start /\ Covers(r, n)
    <3>1. n > last
      BY <2>2, <2>5, <2>7
    <3>2. rest \in todo'
      BY <2>2, <2>5, <3>1
    <3>3. Covers(rest, n)
      BY <2>2, <2>4, <2>5, <3>1 DEF Covers
    <3> QED
      BY <2>2, <3>2, <3>3
  <2> QED
    BY <2>6, <2>7 DEF piece
<1>2. ChunkingInv /\ [ChunkingNext]_chunkingVars => [Advance]_chunkingVars
  BY <1>1
<1> QED
  BY <1>2, ChunkingInvariance, PTL DEF ChunkingSpec, WindowsAdvance

-----------------------------------------------------------------------------
(* Rankings: lists of chunks.                                              *)

(* The chunks of a list, counted.                                          *)
LEMMA ListLength ==
  ASSUME NEW S, IsFiniteSet(S), NEW list \in Seq(S),
         \A m, n \in DOMAIN list : m < n => list[m] # list[n]
  PROVE  IsFiniteSet(ToSet(list)) /\ Cardinality(ToSet(list)) = Len(list)
<1> DEFINE D == 1..Len(list)
<1>1. Len(list) \in Nat /\ DOMAIN list = D /\ list \in [D -> S]
  BY LenProperties
<1>2. ToSet(list) \in SUBSET S
  BY <1>1 DEF ToSet
<1>3. IsFiniteSet(ToSet(list))
  BY <1>2, FS_Subset
<1>4. list \in Injection(D, ToSet(list)) /\ list \in Surjection(D, ToSet(list))
  <2>1. \A m, n \in D : list[m] = list[n] => m = n
    BY <1>1
  <2> QED
    BY <1>1, <2>1 DEF Injection, IsInjective, Surjection, ToSet
<1>5. Cardinality(D) = Len(list)
  BY <1>1, FS_Interval
<1> QED
  BY <1>3, <1>4, <1>5, FS_Injection

(* What a retriever returns.                                               *)
LEMMA BestFirstFacts ==
  ASSUME NEW candidates \in SUBSET ChunkIds, NEW score, NEW count \in Nat,
         NEW list \in BestFirst(candidates, score, count)
  PROVE  /\ list \in Seq(candidates) /\ Len(list) <= count
         /\ \A m, n \in DOMAIN list : m < n => list[m] # list[n] /\ score[list[m]] >= score[list[n]]
<1>1. IsFiniteSet(candidates)
  BY RankingAssumption, FS_Subset
<1>2. PICK S \in SUBSET candidates :
        Cardinality(S) = Smaller(count, Cardinality(candidates)) /\ list \in SetToSeqs(S)
  BY DEF BestFirst, kSubset
<1>3. IsFiniteSet(S) /\ Cardinality(candidates) \in Nat
  BY <1>1, <1>2, FS_Subset, FS_CardinalityType
<1>4. /\ list \in Seq(S) /\ Len(list) = Cardinality(S)
      /\ \A m, n \in DOMAIN list : m # n => list[m] # list[n]
  BY <1>2, <1>3, SeqOfSet
<1>5. list \in Seq(candidates)
  BY <1>2, <1>4, SeqMonotonic
<1>6. Len(list) <= count
  BY <1>2, <1>3, <1>4 DEF Smaller
<1>7. \A m, n \in DOMAIN list : m < n => score[list[m]] >= score[list[n]]
  BY DEF BestFirst
<1>8. \A m, n \in DOMAIN list : m < n => m # n
  BY <1>4, LenProperties
<1> QED
  BY <1>4, <1>5, <1>6, <1>7, <1>8

(* A list, cut, is its beginning.                                          *)
LEMMA CutFacts ==
  ASSUME NEW S, NEW list \in Seq(S), NEW count \in Nat
  PROVE  /\ Cut(list, count) \in Seq(S) /\ Len(Cut(list, count)) = Smaller(count, Len(list))
         /\ DOMAIN Cut(list, count) = 1..Smaller(count, Len(list))
         /\ \A n \in DOMAIN Cut(list, count) : n \in DOMAIN list /\ Cut(list, count)[n] = list[n]
<1> DEFINE last == Smaller(count, Len(list))
<1>1. Len(list) \in Nat /\ DOMAIN list = 1..Len(list) /\ \A n \in 1..Len(list) : list[n] \in S
  BY LenProperties, ElementOfSeq
<1>2. last \in Nat /\ last <= Len(list)
  BY <1>1 DEF Smaller
<1>3. Cut(list, count) = SubSeq(list, 1, last)
  BY DEF Cut
<1> HIDE DEF last
<1>4. /\ SubSeq(list, 1, last) \in Seq(S)
      /\ Len(SubSeq(list, 1, last)) = IF 1 <= last THEN last - 1 + 1 ELSE 0
      /\ \A n \in 1..(last - 1 + 1) : SubSeq(list, 1, last)[n] = list[1 + n - 1]
  <2>1. 1 \in Int /\ last \in Int /\ \A n \in 1..last : list[n] \in S
    BY <1>1, <1>2
  <2> QED
    BY <2>1, SubSeqProperties
<1>5. Len(SubSeq(list, 1, last)) = last
  BY <1>2, <1>4
<1>6. DOMAIN SubSeq(list, 1, last) = 1..last
  BY <1>4, <1>5, LenProperties
<1>7. \A n \in 1..last : SubSeq(list, 1, last)[n] = list[n] /\ n \in DOMAIN list
  BY <1>1, <1>2, <1>4
<1> QED
  BY <1>3, <1>4, <1>5, <1>6, <1>7 DEF last

\* A ranking that gives the chunks of a list in its order, with their scores.
Ranks(items, list, score, S) ==
  /\ items \in Seq([chunk : S, score : Nat])
  /\ Len(items) = Len(list) /\ DOMAIN items = DOMAIN list /\ DOMAIN list = 1..Len(list)
  /\ \A n \in DOMAIN list :
       items[n].chunk = list[n] /\ items[n].score = score[list[n]] /\ list[n] \in S

(* A list with its scores.                                                 *)
LEMMA ScoredFacts ==
  ASSUME NEW S, NEW list \in Seq(S), NEW score, \A c \in S : score[c] \in Nat
  PROVE  Ranks(Scored(list, score), list, score, S)
<1> DEFINE scored == Scored(list, score)
           Item == [chunk : S, score : Nat]
<1>1. Len(list) \in Nat /\ DOMAIN list = 1..Len(list) /\ \A n \in 1..Len(list) : list[n] \in S
  BY LenProperties, ElementOfSeq
<1>2. scored = [n \in 1..Len(list) |-> [chunk |-> list[n], score |-> score[list[n]]]]
  BY <1>1 DEF Scored
<1>3. \A n \in 1..Len(list) : [chunk |-> list[n], score |-> score[list[n]]] \in Item
  BY <1>1
<1>4. scored \in [1..Len(list) -> Item]
  <2> HIDE DEF Item
  <2> QED
    BY <1>2, <1>3
<1>5. scored \in Seq(Item) /\ Len(scored) = Len(list) /\ DOMAIN scored = 1..Len(list)
  <2> HIDE DEF Item, scored
  <2> QED
    BY <1>1, <1>4
<1>6. \A n \in DOMAIN list :
        scored[n].chunk = list[n] /\ scored[n].score = score[list[n]] /\ list[n] \in S
  BY <1>1, <1>2
<1> QED
  BY <1>1, <1>5, <1>6 DEF Ranks

\* The best chunks of a set: full or complete, the best first, equal scores
\* by id, and what is missing is no better than the last.
Best(items, S, score, count) ==
  /\ items \in Seq([chunk : S, score : Nat]) /\ Len(items) <= count
  /\ Len(items) = Smaller(count, Cardinality(S))
  /\ \A n \in DOMAIN items : items[n].score = score[items[n].chunk]
  /\ \A i, j \in DOMAIN items : i < j =>
       /\ items[i].chunk # items[j].chunk /\ items[i].score >= items[j].score
       /\ items[i].score = items[j].score => items[i].chunk < items[j].chunk
  /\ \A c \in S : (\A n \in DOMAIN items : items[n].chunk # c) =>
       Len(items) = count /\ \A n \in DOMAIN items : items[n].score >= score[c]
  /\ \A c \in S : \A n \in DOMAIN items : score[c] > items[n].score =>
       \E m \in 1..(n - 1) : items[m].chunk = c

(* Fusion and the reranker both sort all they have and cut.                *)
LEMMA BestOf ==
  ASSUME NEW S \in SUBSET ChunkIds, NEW score, \A c \in S : score[c] \in Nat, NEW count \in Nat,
         NEW list \in Ordered(S, score)
  PROVE  Best(Scored(Cut(list, count), score), S, score, count)
<1> DEFINE top == Cut(list, count)
           best == Scored(top, score)
<1>1. S \in SUBSET Nat /\ IsFiniteSet(S)
  BY RankingAssumption, FS_Subset
<1>2. list \in SetToSeqs(S)
  BY DEF Ordered
<1>3. /\ list \in Seq(S) /\ Len(list) = Cardinality(S) /\ Cardinality(S) \in Nat
      /\ ToSet(list) = S /\ DOMAIN list = 1..Len(list)
      /\ \A m, n \in DOMAIN list : m # n => list[m] # list[n]
  BY <1>1, <1>2, SeqOfSet, LenProperties
<1>4. \A m, n \in DOMAIN list : m < n =>
        \/ score[list[m]] > score[list[n]]
        \/ score[list[m]] = score[list[n]] /\ list[m] < list[n]
  BY DEF Ordered
<1>5. \A n \in DOMAIN list : list[n] \in S /\ score[list[n]] \in Nat /\ list[n] \in Nat
  BY <1>1, <1>3, ElementOfSeq
<1>6. /\ top \in Seq(S) /\ Len(top) = Smaller(count, Len(list))
      /\ DOMAIN top = 1..Smaller(count, Len(list))
      /\ \A n \in DOMAIN top : n \in DOMAIN list /\ top[n] = list[n]
  BY <1>3, CutFacts
<1> HIDE DEF top
<1>7. Ranks(best, top, score, S)
  BY <1>6, ScoredFacts
<1> HIDE DEF best
<1>8. /\ DOMAIN best = 1..Len(best) /\ Len(best) = Smaller(count, Cardinality(S))
      /\ Len(best) <= count /\ Len(best) <= Len(list) /\ Len(best) \in Nat
      /\ \A n \in DOMAIN best :
           n \in DOMAIN list /\ best[n].chunk = list[n] /\ best[n].score = score[list[n]]
  BY <1>3, <1>6, <1>7 DEF Smaller, Ranks
<1>9. \A i, j \in DOMAIN best : i < j =>
        /\ best[i].chunk # best[j].chunk /\ best[i].score >= best[j].score
        /\ best[i].score = best[j].score => best[i].chunk < best[j].chunk
  BY <1>3, <1>4, <1>5, <1>8
<1>10. ASSUME NEW c \in S
       PROVE  \E p \in DOMAIN list : list[p] = c
  BY <1>3, <1>10 DEF ToSet
<1>11. ASSUME NEW c \in S, \A n \in DOMAIN best : best[n].chunk # c
       PROVE  Len(best) = count /\ \A n \in DOMAIN best : best[n].score >= score[c]
  <2>1. PICK p \in DOMAIN list : list[p] = c
    BY <1>10, <1>11
  <2>2. p \notin DOMAIN best
    BY <1>8, <1>11, <2>1
  <2>3. p > Len(best) /\ p \in Nat /\ p <= Len(list)
    BY <1>3, <1>8, <2>1, <2>2
  <2>4. Len(best) = count
    BY <1>3, <1>8, <2>3 DEF Smaller
  <2>5. ASSUME NEW n \in DOMAIN best
        PROVE  best[n].score >= score[c]
    <3>1. n < p /\ n \in DOMAIN list
      BY <1>8, <2>3, <2>5
    <3> QED
      BY <1>4, <1>5, <1>8, <2>1, <3>1
  <2> QED
    BY <2>4, <2>5
<1>12. ASSUME NEW c \in S, NEW n \in DOMAIN best, score[c] > best[n].score
       PROVE  \E m \in 1..(n - 1) : best[m].chunk = c
  <2>1. PICK p \in DOMAIN list : list[p] = c
    BY <1>10, <1>12
  <2>2. n \in DOMAIN list /\ best[n].score = score[list[n]]
    BY <1>8
  <2>3. p # n /\ ~(n < p)
    BY <1>4, <1>5, <1>12, <2>1, <2>2
  <2>4. p \in 1..(n - 1)
    BY <1>3, <2>1, <2>2, <2>3
  <2>5. p \in DOMAIN best
    BY <1>8, <2>4
  <2> QED
    BY <1>8, <2>1, <2>4, <2>5
<1> QED
  BY <1>7, <1>8, <1>9, <1>11, <1>12 DEF Best, Ranks, best, top

-----------------------------------------------------------------------------
(* Rankings: scores.                                                       *)

(* Division leaves a rest that is less than the divisor.                   *)
LEMMA Division ==
  ASSUME NEW a \in Nat, NEW d \in Nat \ {0}
  PROVE  /\ a \div d \in Nat /\ a % d \in Nat /\ a % d < d
         /\ a = d * (a \div d) + (a % d)
OBVIOUS

(* More, divided, is no less: in whole parts, or else in the rest.         *)
LEMMA DivisionIsMonotonic ==
  ASSUME NEW a \in Nat, NEW b \in Nat, NEW d \in Nat \ {0}, a >= b
  PROVE  /\ a \div d >= b \div d
         /\ a \div d = b \div d => a % d >= b % d
<1> DEFINE p == a \div d
           q == b \div d
           r == a % d
           s == b % d
<1>1. /\ p \in Nat /\ r \in Nat /\ r < d /\ a = d * p + r
      /\ q \in Nat /\ s \in Nat /\ s < d /\ b = d * q + s
  BY Division
<1> HIDE DEF p, q, r, s
<1>2. ASSUME p < q PROVE FALSE
  <2>1. PICK x \in Nat : q = p + 1 + x
    <3>1. q - p - 1 \in Nat /\ q = p + 1 + (q - p - 1)
      BY <1>1, <1>2
    <3> QED
      BY <3>1
  <2>2. d * q = d * p + d + d * x /\ d * x >= 0
    BY <1>1, <2>1
  <2>3. d * p \in Nat /\ d * x \in Nat
    BY <1>1, <2>1
  <2> QED
    BY <1>1, <2>2, <2>3
<1>3. p = q => r >= s
  <2>1. p = q => d * p = d * q
    OBVIOUS
  <2>2. d * p \in Nat /\ d * q \in Nat
    BY <1>1
  <2> QED
    BY <1>1, <2>1, <2>2
<1> QED
  BY <1>1, <1>2, <1>3 DEF p, q, r, s

(* Rounding keeps the order of the scores.                                 *)
LEMMA RoundedIsMonotonic ==
  ASSUME NEW a \in Nat, NEW b \in Nat, a >= b
  PROVE  Rounded(a) \in Nat /\ Rounded(b) \in Nat /\ Rounded(a) >= Rounded(b)
<1> DEFINE p == a \div Digit
           q == b \div Digit
           r == a % Digit
           s == b % Digit
<1>1. Digit \in Nat \ {0}
  BY RankingAssumption
<1>2. p \in Nat /\ q \in Nat /\ r \in Nat /\ s \in Nat /\ p >= q /\ (p = q => r >= s)
  BY <1>1, Division, DivisionIsMonotonic
<1>3. /\ Rounded(a) = IF 2 * r > Digit \/ (2 * r = Digit /\ p % 2 = 1) THEN p + 1 ELSE p
      /\ Rounded(b) = IF 2 * s > Digit \/ (2 * s = Digit /\ q % 2 = 1) THEN q + 1 ELSE q
  BY DEF Rounded
<1> HIDE DEF p, q, r, s
<1>4. CASE p = q
  <2>1. 2 * r > Digit \/ 2 * r = Digit \/ 2 * s < Digit
    BY <1>1, <1>2, <1>4
  <2>2. 2 * r >= 2 * s
    BY <1>2, <1>4
  <2> QED
    BY <1>1, <1>2, <1>3, <1>4, <2>1, <2>2
<1>5. CASE p > q
  BY <1>2, <1>3, <1>5
<1> QED
  BY <1>2, <1>4, <1>5

(* A share of Scale is what division gives.                                *)
LEMMA Share ==
  ASSUME NEW d \in Nat \ {0}, NEW share \in Nat \ {0}, NEW scale \in Nat, scale = share * d
  PROVE  scale \div d = share
<1> DEFINE p == scale \div d
           r == scale % d
<1>1. p \in Nat /\ r \in Nat /\ r < d /\ scale = d * p + r
  BY Division
<1> HIDE DEF p, r
<1>2. CASE p < share
  <2>1. PICK x \in Nat : share = p + 1 + x
    <3>1. share - p - 1 \in Nat /\ share = p + 1 + (share - p - 1)
      BY <1>1, <1>2
    <3> QED
      BY <3>1
  <2>2. share * d = d * p + d + d * x
    BY <1>1, <2>1
  <2>3. d * p \in Nat /\ d * x \in Nat
    BY <1>1, <2>1
  <2> QED
    BY <1>1, <2>2, <2>3
<1>3. CASE share < p
  <2>1. PICK x \in Nat : p = share + 1 + x
    <3>1. p - share - 1 \in Nat /\ p = share + 1 + (p - share - 1)
      BY <1>1, <1>3
    <3> QED
      BY <3>1
  <2>2. d * p = share * d + d + d * x
    BY <1>1, <2>1
  <2>3. share * d \in Nat /\ d * x \in Nat
    BY <1>1, <2>1
  <2> QED
    BY <1>1, <2>2, <2>3
<1> QED
  BY <1>1, <1>2, <1>3 DEF p

(* Of more parts each is smaller.                                          *)
LEMMA LaterSharesAreSmaller ==
  ASSUME NEW d \in Nat \ {0}, NEW e \in Nat \ {0}, d < e,
         NEW x \in Nat \ {0}, NEW y \in Nat \ {0}, x * d = y * e
  PROVE  y < x
<1>1. CASE x <= y
  <2>1. PICK u \in Nat : y = x + u
    <3>1. y - x \in Nat /\ y = x + (y - x)
      BY <1>1
    <3> QED
      BY <3>1
  <2>2. PICK v \in Nat \ {0} : e = d + v
    <3>1. e - d \in Nat \ {0} /\ e = d + (e - d)
      OBVIOUS
    <3> QED
      BY <3>1
  <2>3. y * e = x * d + x * v + u * e
    BY <2>1, <2>2
  <2>4. x * d \in Nat /\ x * v \in Nat \ {0} /\ u * e \in Nat
    BY <2>1, <2>2
  <2> QED
    BY <2>3, <2>4
<1> QED
  BY <1>1

(* The position of a member of a list.                                     *)
LEMMA PositionFacts ==
  ASSUME NEW list, NEW c, IsIn(list, c)
  PROVE  Position(list, c) \in DOMAIN list /\ list[Position(list, c)] = c
BY DEF IsIn, Position

\* A list of a retriever, as ContributionOrder takes it.
NoChunkTwice(list) ==
  list \in Seq(ChunkIds) /\ \A m, n \in DOMAIN list : m < n => list[m] # list[n]

(* What reciprocal rank fusion gives a rank is a positive share.           *)
LEMMA RankShare ==
  ASSUME request \in Requests, NEW list, NoChunkTwice(list), NEW n \in DOMAIN list
  PROVE  /\ n \in Nat \ {0} /\ request.rrfK \in Nat \ {0}
         /\ Scale \div (request.rrfK + n) \in Nat \ {0}
         /\ Scale = (Scale \div (request.rrfK + n)) * (request.rrfK + n)
<1>1. list \in Seq(ChunkIds) /\ IsFiniteSet(ChunkIds)
  BY RankingAssumption DEF NoChunkTwice
<1>2. Len(list) \in Nat /\ DOMAIN list = 1..Len(list)
  BY <1>1, LenProperties
<1>3. ToSet(list) \in SUBSET ChunkIds
  BY <1>1, <1>2, ElementOfSeq DEF ToSet
<1>4. Len(list) <= Cardinality(ChunkIds) /\ Cardinality(ChunkIds) \in Nat
  BY <1>1, <1>3, ListLength, FS_Subset, FS_CardinalityType DEF NoChunkTwice
<1>5. n \in 1..Cardinality(ChunkIds)
  BY <1>2, <1>4
<1>6. request.rrfK \in Nat \ {0} /\ Scale \in Nat \ {0}
  BY RankingAssumption
<1> DEFINE parts == request.rrfK + n
<1>7. PICK share \in 1..Scale : Scale = share * parts
  BY <1>5, RankingAssumption
<1>8. parts \in Nat \ {0} /\ share \in Nat \ {0} /\ n \in Nat \ {0}
  BY <1>5, <1>6, <1>7
<1> HIDE DEF parts
<1>9. Scale \div parts = share
  BY <1>6, <1>7, <1>8, Share
<1> QED
  BY <1>6, <1>7, <1>8, <1>9 DEF parts

(* Normalised scores are naturals in the order of the scores.              *)
LEMMA NormalisedOrder ==
  ASSUME NEW list, NoChunkTwice(list), NEW score \in [ChunkIds -> 0..MaxScore],
         NEW c, IsIn(list, c)
  PROVE  /\ Normalised(list, score, c) \in Nat
         /\ \A d : IsIn(list, d) /\ score[c] > score[d] =>
              Normalised(list, score, c) > Normalised(list, score, d)
<1> DEFINE scores == {score[x] : x \in ToSet(list)}
           low == Min(scores)
           high == Max(scores)
<1>1. MaxScore \in Nat /\ Scale \in Nat \ {0}
  BY RankingAssumption
<1>2. \A x \in ToSet(list) : x \in ChunkIds
  BY LenProperties, ElementOfSeq DEF NoChunkTwice, ToSet
<1>3. \A d : IsIn(list, d) => d \in ToSet(list)
  BY DEF IsIn, ToSet
<1>4. scores \in SUBSET Nat /\ scores # {} /\ \A x \in scores : x <= MaxScore
  BY <1>1, <1>2, <1>3
<1>5. low \in scores /\ (\A y \in scores : low <= y) /\ high \in scores /\ \A y \in scores : high >= y
  <2> HIDE DEF scores
  <2> QED
    BY <1>1, <1>4, MinIsLeast, MaxIsGreatest
<1>6. \A d : IsIn(list, d) => score[d] \in scores
  BY <1>3
<1>7. \A d : Normalised(list, score, d) =
               IF high = low THEN Scale ELSE (score[d] - low) * (Scale \div (high - low))
  BY DEF Normalised
<1> HIDE DEF scores, low, high
<1>8. low \in Nat /\ high \in Nat /\ low <= high /\ high <= MaxScore
  BY <1>4, <1>5
<1>9. \A d : IsIn(list, d) => score[d] \in Nat /\ low <= score[d] /\ score[d] <= high
  BY <1>4, <1>5, <1>6
<1>10. CASE high = low
  <2>1. \A d : IsIn(list, d) => ~(score[c] > score[d])
    BY <1>8, <1>9, <1>10
  <2> QED
    BY <1>1, <1>7, <1>10, <2>1
<1>11. CASE high # low
  <2>1. high - low \in 1..MaxScore
    BY <1>1, <1>8, <1>11
  <2>2. PICK share \in 1..Scale : Scale = share * (high - low)
    BY <2>1, RankingAssumption
  <2>3. share \in Nat \ {0} /\ high - low \in Nat \ {0}
    BY <1>1, <2>1, <2>2
  <2>4. Scale \div (high - low) = share
    BY <1>1, <2>2, <2>3, Share
  <2>5. \A d : Normalised(list, score, d) = (score[d] - low) * share
    BY <1>7, <1>11, <2>4
  <2>6. ASSUME NEW x \in Nat, NEW y \in Nat, low <= y, low <= x
        PROVE  (x - low) * share \in Nat /\ (x > y => (x - low) * share > (y - low) * share)
    <3>1. PICK u \in Nat : x - low = u
      BY <1>8, <2>6
    <3>2. PICK v \in Nat : y - low = v
      BY <1>8, <2>6
    <3>3. u > v => u * share > v * share
      <4>1. SUFFICES ASSUME u > v PROVE u * share > v * share
        OBVIOUS
      <4>2. PICK w \in Nat : u = v + 1 + w
        <5>1. u - v - 1 \in Nat /\ u = v + 1 + (u - v - 1)
          BY <3>1, <3>2, <4>1
        <5> QED
          BY <5>1
      <4>3. u * share = v * share + share + w * share
        BY <2>3, <4>2
      <4>4. v * share \in Nat /\ w * share \in Nat
        BY <2>3
      <4> QED
        BY <2>3, <4>3, <4>4
    <3>4. u * share \in Nat
      BY <2>3
    <3>5. x > y => u > v
      BY <1>8, <2>6, <3>1, <3>2
    <3> QED
      BY <3>1, <3>2, <3>3, <3>4, <3>5
  <2>7. score[c] \in Nat /\ low <= score[c]
    BY <1>9
  <2>8. Normalised(list, score, c) \in Nat
    BY <2>5, <2>6, <2>7
  <2>9. ASSUME NEW d, IsIn(list, d), score[c] > score[d]
        PROVE  Normalised(list, score, c) > Normalised(list, score, d)
    <3>1. score[d] \in Nat /\ low <= score[d]
      BY <1>9, <2>9
    <3> QED
      BY <2>5, <2>6, <2>7, <2>9, <3>1
  <2> QED
    BY <2>8, <2>9
<1> QED
  BY <1>10, <1>11

(* A positive weight keeps an order.                                       *)
LEMMA WeightedOrder ==
  ASSUME NEW w \in Nat, NEW x \in Nat, NEW y \in Nat
  PROVE  w * x \in Nat /\ (w > 0 /\ x > y => w * x > w * y)
<1>1. w * x \in Nat /\ w * y \in Nat
  OBVIOUS
<1>2. ASSUME w > 0, x > y PROVE w * x > w * y
  <2>1. PICK z \in Nat \ {0} : x = y + z
    <3>1. x - y \in Nat \ {0} /\ x = y + (x - y)
      BY <1>2
    <3> QED
      BY <3>1
  <2>2. w * x = w * y + w * z
    BY <2>1
  <2>3. w * z \in Nat \ {0}
    BY <1>2, <2>1
  <2> QED
    BY <1>1, <2>2, <2>3
<1> QED
  BY <1>1, <1>2

(* What a list gives a chunk, by either method: more to the one that it    *)
(* puts first with the better score.                                       *)
LEMMA ContributionOrder ==
  ASSUME request \in Requests, NEW list, NoChunkTwice(list),
         NEW score \in [ChunkIds -> 0..MaxScore], NEW weight \in Nat, NEW c
  PROVE  /\ Contribution(list, score, weight, c) \in Nat
         /\ \A d : weight > 0 /\ IsIn(list, c) /\ IsIn(list, d)
                     /\ Position(list, c) < Position(list, d) /\ score[c] > score[d] =>
              Contribution(list, score, weight, c) > Contribution(list, score, weight, d)
<1> DEFINE By(d) == Scale \div (request.rrfK + Position(list, d))
<1>1. CASE ~IsIn(list, c)
  BY <1>1 DEF Contribution
<1>2. CASE IsIn(list, c) /\ request.method = "rrf"
  <2>1. \A d : IsIn(list, d) =>
          /\ Position(list, d) \in Nat \ {0} /\ request.rrfK \in Nat \ {0}
          /\ By(d) \in Nat \ {0} /\ Scale = By(d) * (request.rrfK + Position(list, d))
    BY PositionFacts, RankShare
  <2>2. \A d : IsIn(list, d) => Contribution(list, score, weight, d) = weight * By(d)
    BY <1>2 DEF Contribution
  <2> HIDE DEF By
  <2>3. ASSUME NEW d, IsIn(list, d), Position(list, c) < Position(list, d)
        PROVE  By(c) > By(d)
    <3>1. /\ request.rrfK + Position(list, c) \in Nat \ {0}
          /\ request.rrfK + Position(list, d) \in Nat \ {0}
          /\ request.rrfK + Position(list, c) < request.rrfK + Position(list, d)
      BY <1>2, <2>1, <2>3
    <3>2. /\ By(c) \in Nat \ {0} /\ By(d) \in Nat \ {0}
          /\ By(c) * (request.rrfK + Position(list, c)) = By(d) * (request.rrfK + Position(list, d))
      BY <1>2, <2>1, <2>3
    <3>3. By(d) < By(c)
      BY <3>1, <3>2, LaterSharesAreSmaller
    <3> QED
      BY <3>2, <3>3
  <2> QED
    BY <1>2, <2>1, <2>2, <2>3, WeightedOrder
<1>3. CASE IsIn(list, c) /\ request.method # "rrf"
  <2>1. \A d : IsIn(list, d) => Normalised(list, score, d) \in Nat
    BY NormalisedOrder
  <2>2. \A d : IsIn(list, d) =>
          Contribution(list, score, weight, d) = weight * Normalised(list, score, d)
    BY <1>3 DEF Contribution
  <2>3. \A d : IsIn(list, d) /\ score[c] > score[d] =>
          Normalised(list, score, c) > Normalised(list, score, d)
    BY <1>3, NormalisedOrder
  <2> QED
    BY <1>3, <2>1, <2>2, <2>3, WeightedOrder
<1> QED
  BY <1>1, <1>2, <1>3

-----------------------------------------------------------------------------
(* Rankings: the inductive invariant.                                      *)

\* A list of a retriever: no chunk twice, best first, no more than asked for.
ListOK(list, score) ==
  /\ list \in Seq(ChunkIds) /\ Len(list) <= Depth
  /\ \A m, n \in DOMAIN list : m < n =>
       list[m] # list[n] /\ score[list[m]] >= score[list[n]]

ListsOK ==
  /\ request \in Requests /\ available \in Environments
  /\ lexical \in [ChunkIds -> 0..MaxScore] /\ similarity \in [ChunkIds -> 0..MaxScore]
  /\ ListOK(bm25List, lexical) /\ ListOK(denseList, similarity)
  /\ ~Uses("bm25") \/ searchStep \in {"check", "retrieve"} => bm25List = << >>
  /\ ~Uses("dense") \/ searchStep \in {"check", "retrieve", "dense"} => denseList = << >>

\* What a search that goes on has been checked for.
ChecksOK ==
  /\ searchStep \in {"retrieve", "dense", "fuse", "rerank", "hydrate", "answered"} =>
       ~Unknown /\ (NeedsDefault => available.rerankers # {})
  /\ searchStep \in {"fuse", "rerank", "hydrate", "answered"} /\ Uses("dense") =>
       available.dense /\ available.embeds
  /\ searchStep = "rerank" => Reranks /\ ranking # << >>
  /\ searchStep \in {"hydrate", "answered"} /\ Reranks /\ ranking # << >> =>
       Reranker \in available.loads
  /\ searchStep = "dense_index_unavailable" => Uses("dense") /\ ~available.dense
  /\ searchStep = "embedding_unavailable" => Uses("dense") /\ ~available.embeds
  /\ searchStep = "reranker_unavailable" =>
       \/ NeedsDefault /\ available.rerankers = {}
       \/ Retrieved # {} /\ Reranks /\ ~Unknown /\ Reranker \notin available.loads
  /\ searchStep = "unknown_reranker" => Unknown

InOrder(i, j) ==
  /\ ranking[i].chunk # ranking[j].chunk /\ ranking[i].score >= ranking[j].score
  /\ (IsHybrid \/ (Reranks /\ searchStep # "rerank")) /\ ranking[i].score = ranking[j].score =>
       ranking[i].chunk < ranking[j].chunk

RankingOK ==
  searchStep \in {"rerank", "hydrate", "answered"} =>
    /\ ranking \in Seq([chunk : Retrieved, score : Nat])
    /\ Len(ranking) <= IF searchStep = "rerank" THEN FirstStageDepth ELSE request.topK
    /\ \A i, j \in DOMAIN ranking : i < j => InOrder(i, j)
    /\ \A c \in Retrieved \ RankedChunks :
         IF searchStep = "rerank" THEN Len(ranking) = FirstStageDepth
         ELSE /\ Len(ranking) = request.topK
              /\ Reranks \/ ~IsHybrid \/ Last(ranking).score >= Totals[c]

HitsOK ==
  searchStep = "answered" =>
    /\ Len(hits) <= request.topK /\ (ranking = << >> => hits = << >>)
    /\ \A n \in DOMAIN hits : hits[n].rank = n /\ hits[n].chunk \in Retrieved
    /\ \A m, n \in DOMAIN hits : m < n =>
         /\ hits[m].chunk # hits[n].chunk /\ hits[m].score >= hits[n].score
         /\ \E i, j \in DOMAIN ranking :
              i < j /\ ranking[i].chunk = hits[m].chunk /\ ranking[j].chunk = hits[n].chunk

RankingInv == ListsOK /\ ChecksOK /\ RankingOK /\ HitsOK /\ AgreementIsKept

(* What the request and the lists of its retrievers are.                   *)
LEMMA RequestFacts ==
  ASSUME ListsOK
  PROVE  /\ request.topK \in Nat \ {0}
         /\ FirstStageDepth \in Nat \ {0} /\ request.topK <= FirstStageDepth
         /\ ~Reranks => FirstStageDepth = request.topK
         /\ Depth \in Nat \ {0} /\ (~IsHybrid => Depth = FirstStageDepth)
         /\ NoChunkTwice(bm25List) /\ NoChunkTwice(denseList)
         /\ Retrieved \in SUBSET ChunkIds /\ IsFiniteSet(Retrieved)
         /\ \A c : c \in Retrieved <=> IsIn(bm25List, c) \/ IsIn(denseList, c)
         /\ \A c \in ChunkIds : lexical[c] \in Nat /\ similarity[c] \in Nat
<1>1. /\ request.topK \in Nat \ {0} /\ request.candidates \in Nat \ {0}
      /\ request.rerankCandidates \in Nat \ {0} /\ MaxScore \in Nat
  BY RankingAssumption DEF ListsOK
<1>2. /\ FirstStageDepth \in Nat \ {0} /\ request.topK <= FirstStageDepth
      /\ ~Reranks => FirstStageDepth = request.topK
  BY <1>1 DEF FirstStageDepth, Larger
<1>3. Depth \in Nat \ {0} /\ (~IsHybrid => Depth = FirstStageDepth)
  BY <1>1, <1>2 DEF Depth, Larger
<1>4. NoChunkTwice(bm25List) /\ NoChunkTwice(denseList)
  BY DEF ListsOK, ListOK, NoChunkTwice
<1>5. ToSet(bm25List) \in SUBSET ChunkIds /\ ToSet(denseList) \in SUBSET ChunkIds
  BY <1>4, LenProperties, ElementOfSeq DEF NoChunkTwice, ToSet
<1>6. Retrieved \in SUBSET ChunkIds /\ IsFiniteSet(Retrieved)
  BY <1>5, RankingAssumption, FS_Subset DEF Retrieved
<1>7. \A c : c \in Retrieved <=> IsIn(bm25List, c) \/ IsIn(denseList, c)
  BY DEF Retrieved, ToSet, IsIn
<1>8. \A c \in ChunkIds : lexical[c] \in Nat /\ similarity[c] \in Nat
  BY <1>1 DEF ListsOK
<1> QED
  BY <1>1, <1>2, <1>3, <1>4, <1>6, <1>7, <1>8

(* A list that puts c before d gives it no less, and more if d is in it.   *)
LEMMA AgreementOfOneList ==
  ASSUME request \in Requests, NEW list, NoChunkTwice(list),
         NEW score \in [ChunkIds -> 0..MaxScore], NEW weight \in Nat, NEW c, NEW d,
         PutsBefore(list, score, weight, c, d)
  PROVE  /\ Contribution(list, score, weight, c) \in Nat
         /\ Contribution(list, score, weight, d) \in Nat
         /\ Contribution(list, score, weight, c) >= Contribution(list, score, weight, d)
         /\ weight > 0 /\ IsIn(list, d) =>
              Contribution(list, score, weight, c) > Contribution(list, score, weight, d)
<1>1. /\ Contribution(list, score, weight, c) \in Nat
      /\ Contribution(list, score, weight, d) \in Nat
  BY ContributionOrder
<1>2. CASE weight > 0 /\ IsIn(list, d)
  BY <1>1, <1>2, ContributionOrder DEF PutsBefore
<1>3. CASE ~IsIn(list, d)
  BY <1>1, <1>3 DEF Contribution
<1>4. CASE weight = 0
  <2>1. Contribution(list, score, weight, d) = 0
    <3>1. \A x \in Nat : 0 * x = 0
      OBVIOUS
    <3>2. CASE IsIn(list, d) /\ request.method = "rrf"
      <4>1. Scale \div (request.rrfK + Position(list, d)) \in Nat
        BY <3>2, PositionFacts, RankShare
      <4> QED
        BY <1>4, <3>1, <3>2, <4>1 DEF Contribution
    <3>3. CASE IsIn(list, d) /\ request.method # "rrf"
      <4>1. Normalised(list, score, d) \in Nat
        BY <3>3, NormalisedOrder
      <4> QED
        BY <1>4, <3>1, <3>3, <4>1 DEF Contribution
    <3> QED
      BY <3>2, <3>3 DEF Contribution
  <2> QED
    BY <1>1, <1>4, <2>1
<1> QED
  BY <1>1, <1>2, <1>3, <1>4

(* What the lists agree on decides the sum.                                *)
LEMMA AgreementOfLists ==
  ASSUME ListsOK
  PROVE  /\ \A c \in ChunkIds : Totals[c] \in Nat
         /\ \A c, d \in ChunkIds : Agree(c, d) => c \in Retrieved /\ Totals[c] > Totals[d]
<1> DEFINE First(c) == Contribution(bm25List, lexical, request.bm25Weight, c)
           Second(c) == Contribution(denseList, similarity, request.denseWeight, c)
<1>1. /\ request \in Requests /\ NoChunkTwice(bm25List) /\ NoChunkTwice(denseList)
      /\ lexical \in [ChunkIds -> 0..MaxScore] /\ similarity \in [ChunkIds -> 0..MaxScore]
      /\ request.bm25Weight \in Nat /\ request.denseWeight \in Nat
  BY RequestFacts, RankingAssumption DEF ListsOK
<1>2. \A c : First(c) \in Nat /\ Second(c) \in Nat
  BY <1>1, ContributionOrder
<1>3. \A c \in ChunkIds : Totals[c] = First(c) + Second(c)
  BY DEF Totals
<1>4. ASSUME NEW c \in ChunkIds, NEW d \in ChunkIds, Agree(c, d)
      PROVE  c \in Retrieved /\ Totals[c] > Totals[d]
  <2>1. /\ First(c) >= First(d)
        /\ request.bm25Weight > 0 /\ IsIn(bm25List, d) => First(c) > First(d)
    BY <1>1, <1>4, AgreementOfOneList DEF Agree
  <2>2. /\ Second(c) >= Second(d)
        /\ request.denseWeight > 0 /\ IsIn(denseList, d) => Second(c) > Second(d)
    BY <1>1, <1>4, AgreementOfOneList DEF Agree
  <2>3. c \in Retrieved
    BY <1>4, RequestFacts DEF Agree, PutsBefore
  <2> HIDE DEF First, Second
  <2> QED
    BY <1>2, <1>3, <1>4, <2>1, <2>2, <2>3 DEF Agree
<1> HIDE DEF First, Second
<1> QED
  BY <1>2, <1>3, <1>4

(* What the request says of the search stays.                              *)
LEMMA SameRequest ==
  ASSUME UNCHANGED <<request, available>>
  PROVE  /\ IsHybrid' = IsHybrid /\ Reranks' = Reranks /\ Unknown' = Unknown
         /\ Reranker' = Reranker /\ FirstStageDepth' = FirstStageDepth /\ Depth' = Depth
         /\ NeedsDefault' = NeedsDefault /\ \A r : Uses(r)' = Uses(r)
<1>1. Reranker' = Reranker /\ NeedsDefault' = NeedsDefault /\ \A r : Uses(r)' = Uses(r)
  BY DEF Reranker, NeedsDefault, Uses
<1>2. IsHybrid' = IsHybrid /\ Reranks' = Reranks /\ Unknown' = Unknown
  BY <1>1 DEF IsHybrid, Reranks, Unknown
<1>3. FirstStageDepth' = FirstStageDepth
  BY <1>2 DEF FirstStageDepth
<1>4. Depth' = Depth
  BY <1>2, <1>3 DEF Depth
<1> QED
  BY <1>1, <1>2, <1>3, <1>4

(* So does what the lists agree on.                                        *)
LEMMA SameAgreement ==
  ASSUME UNCHANGED <<request, lexical, similarity, bm25List, denseList>>
  PROVE  \A c, d : Agree(c, d)' = Agree(c, d)
BY DEF Agree, PutsBefore, IsIn, Position

(* The ranking holds the chunks of the lists.                              *)
LEMMA RankedChunksFacts ==
  \A c : c \in RankedChunks <=> \E n \in DOMAIN ranking : ranking[n].chunk = c
BY DEF RankedChunks, ToSet

(* The retrievers fill their lists.                                        *)
LEMMA RetrieveStep ==
  ASSUME ListsOK, RetrieveBM25 \/ RetrieveDense
  PROVE  ListsOK'
<1>1. UNCHANGED <<request, available, lexical, similarity>>
  BY DEF RetrieveBM25, RetrieveDense
<1>2. /\ Depth' = Depth /\ Depth \in Nat
      /\ \A r : Uses(r)' = Uses(r)
  BY <1>1, SameRequest, RequestFacts
<1>3. CASE RetrieveBM25
  <2>1. ListOK(bm25List', lexical)
    <3> DEFINE candidates == {c \in ChunkIds : lexical[c] > 0}
    <3>1. CASE Uses("bm25")
      <4>1. bm25List' \in BestFirst(candidates, lexical, Depth)
        BY <1>3, <3>1 DEF RetrieveBM25
      <4>2. candidates \in SUBSET ChunkIds
        OBVIOUS
      <4> HIDE DEF candidates
      <4>3. /\ bm25List' \in Seq(candidates) /\ Len(bm25List') <= Depth
            /\ \A m, n \in DOMAIN bm25List' : m < n =>
                 /\ bm25List'[m] # bm25List'[n]
                 /\ lexical[bm25List'[m]] >= lexical[bm25List'[n]]
        BY <1>2, <4>1, <4>2, BestFirstFacts
      <4>4. bm25List' \in Seq(ChunkIds)
        BY <4>2, <4>3, SeqMonotonic
      <4> QED
        BY <4>3, <4>4 DEF ListOK
    <3>2. CASE ~Uses("bm25")
      BY <1>3, <3>2 DEF RetrieveBM25, ListsOK
    <3> QED
      BY <3>1, <3>2
  <2>2. ListOK(bm25List, lexical)' /\ ListOK(denseList, similarity)'
    BY <1>1, <1>2, <1>3, <2>1 DEF ListOK, ListsOK, RetrieveBM25
  <2>3. searchStep' = "dense" /\ searchStep = "retrieve" /\ UNCHANGED denseList
    BY <1>3 DEF RetrieveBM25, To
  <2>4. ~Uses("bm25") => bm25List' = << >>
    BY <1>3 DEF RetrieveBM25, ListsOK
  <2> QED
    BY <1>1, <1>2, <2>2, <2>3, <2>4 DEF ListsOK
<1>4. CASE RetrieveDense
  <2>1. ListOK(denseList', similarity)
    <3>1. CASE Uses("dense") /\ available.dense /\ available.embeds
      <4>1. denseList' \in BestFirst(ChunkIds, similarity, Depth)
        BY <1>4, <3>1 DEF RetrieveDense
      <4> QED
        BY <1>2, <4>1, BestFirstFacts DEF ListOK
    <3>2. CASE ~(Uses("dense") /\ available.dense /\ available.embeds)
      BY <1>4, <3>2 DEF RetrieveDense, ListsOK
    <3> QED
      BY <3>1, <3>2
  <2>2. ListOK(bm25List, lexical)' /\ ListOK(denseList, similarity)'
    BY <1>1, <1>2, <1>4, <2>1 DEF ListOK, ListsOK, RetrieveDense
  <2>3. /\ searchStep' \in {"fuse", "dense_index_unavailable", "embedding_unavailable"}
        /\ searchStep = "dense" /\ UNCHANGED bm25List
    BY <1>4 DEF RetrieveDense, To
  <2>4. ~Uses("dense") => denseList' = << >>
    BY <1>4 DEF RetrieveDense, ListsOK
  <2> QED
    BY <1>1, <1>2, <2>2, <2>3, <2>4 DEF ListsOK
<1> QED
  BY <1>3, <1>4

(* Fusion, or the list of the one retriever.                               *)
LEMMA FuseStep ==
  ASSUME ListsOK, Fuse
  PROVE  RankingOK' /\ AgreementIsKept'
<1>1. /\ UNCHANGED <<request, available, lexical, similarity, bm25List, denseList>>
      /\ searchStep' = IF Reranks /\ ranking' # << >> THEN "rerank" ELSE "hydrate"
  BY DEF Fuse, To
<1>2. /\ IsHybrid' = IsHybrid /\ Reranks' = Reranks /\ FirstStageDepth' = FirstStageDepth
      /\ Retrieved' = Retrieved /\ Totals' = Totals
  <2>1. Totals' = Totals
    BY <1>1 DEF Totals, Contribution, Normalised, Position, IsIn
  <2> QED
    BY <1>1, <2>1, SameRequest DEF Retrieved
<1>3. /\ request.topK \in Nat \ {0}
      /\ FirstStageDepth \in Nat \ {0} /\ request.topK <= FirstStageDepth
      /\ ~Reranks => FirstStageDepth = request.topK
      /\ ~IsHybrid => Depth = FirstStageDepth
      /\ Retrieved \in SUBSET ChunkIds
  BY RequestFacts
<1>4. \A c : c \in RankedChunks' <=> \E n \in DOMAIN ranking' : ranking'[n].chunk = c
  BY DEF RankedChunks, ToSet
<1>5. CASE IsHybrid
  <2>1. PICK list \in Ordered(Retrieved, Totals) :
          ranking' = Scored(Cut(list, FirstStageDepth), Totals)
    BY <1>5 DEF Fuse
  <2>2. \A c \in Retrieved : Totals[c] \in Nat
    BY <1>3, AgreementOfLists
  <2>3. Best(ranking', Retrieved, Totals, FirstStageDepth)
    BY <1>3, <2>1, <2>2, BestOf
  <2>4. /\ DOMAIN ranking' = 1..Len(ranking') /\ Len(ranking') \in Nat
        /\ \A n \in DOMAIN ranking' : ranking'[n].chunk \in Retrieved
    <3> DEFINE Item == [chunk : Retrieved, score : Nat]
    <3>1. ranking' \in Seq(Item)
      BY <2>3 DEF Best
    <3> HIDE DEF Item
    <3>2. /\ DOMAIN ranking' = 1..Len(ranking') /\ Len(ranking') \in Nat
          /\ \A n \in DOMAIN ranking' : ranking'[n] \in Item
      BY <3>1, LenProperties, ElementOfSeq
    <3> QED
      BY <3>2 DEF Item
  <2>5. searchStep' = "hydrate" => ranking' = << >> \/ FirstStageDepth = request.topK
    BY <1>1, <1>3
  <2>6. Len(ranking') <= IF searchStep' = "rerank" THEN FirstStageDepth ELSE request.topK
    <3>1. ranking' = << >> => Len(ranking') = 0
      OBVIOUS
    <3> QED
      BY <1>1, <1>3, <2>3, <2>5, <3>1 DEF Best
  <2>7. ASSUME NEW c \in Retrieved \ RankedChunks'
        PROVE  IF searchStep' = "rerank" THEN Len(ranking') = FirstStageDepth
               ELSE /\ Len(ranking') = request.topK
                    /\ Reranks \/ ~IsHybrid \/ Last(ranking').score >= Totals[c]
    <3>1. /\ Len(ranking') = FirstStageDepth
          /\ \A n \in DOMAIN ranking' : ranking'[n].score >= Totals[c]
      BY <1>4, <2>3, <2>7 DEF Best
    <3>2. Len(ranking') \in DOMAIN ranking'
      BY <1>3, <2>4, <3>1
    <3>3. Last(ranking').score >= Totals[c]
      BY <3>1, <3>2 DEF Last
    <3>4. ranking' # << >>
      BY <2>4, <3>2
    <3> QED
      BY <1>1, <2>5, <3>1, <3>3, <3>4
  <2>8. RankingOK'
    BY <1>1, <1>2, <2>3, <2>6, <2>7 DEF RankingOK, InOrder, Best
  <2>9. ASSUME NEW n \in DOMAIN ranking', NEW c \in ChunkIds, Agree(c, ranking'[n].chunk)
        PROVE  \E m \in 1..(n - 1) : ranking'[m].chunk = c
    <3>1. ranking'[n].chunk \in ChunkIds
      BY <1>3, <2>4
    <3>2. c \in Retrieved /\ Totals[c] > Totals[ranking'[n].chunk]
      BY <2>9, <3>1, AgreementOfLists
    <3> QED
      BY <2>3, <2>4, <3>2 DEF Best
  <2>10. AgreementIsKept'
    <3>1. \A c, d : Agree(c, d)' = Agree(c, d)
      BY <1>1, SameAgreement
    <3> QED
      BY <2>9, <3>1 DEF AgreementIsKept
  <2> QED
    BY <2>8, <2>10
<1>6. CASE ~IsHybrid
  <2>1. PICK list, score : /\ ranking' = Scored(list, score) /\ ListOK(list, score)
                           /\ Retrieved = ToSet(list) /\ score \in [ChunkIds -> Nat]
    <3>1. lexical \in [ChunkIds -> Nat] /\ similarity \in [ChunkIds -> Nat]
      BY RankingAssumption, RequestFacts DEF ListsOK
    <3>2. ListOK(bm25List, lexical) /\ ListOK(denseList, similarity)
      BY DEF ListsOK
    <3>3. CASE Uses("bm25")
      <4>1. ~Uses("dense")
        BY <1>6, <3>3 DEF IsHybrid
      <4>2. denseList = << >> /\ ToSet(denseList) = {}
        BY <4>1 DEF ListsOK, ToSet
      <4>3. ranking' = Scored(bm25List, lexical)
        BY <1>6, <3>3 DEF Fuse
      <4> QED
        BY <3>1, <3>2, <4>2, <4>3 DEF Retrieved
    <3>4. CASE ~Uses("bm25")
      <4>1. bm25List = << >> /\ ToSet(bm25List) = {}
        BY <3>4 DEF ListsOK, ToSet
      <4>2. ranking' = Scored(denseList, similarity)
        BY <1>6, <3>4 DEF Fuse
      <4> QED
        BY <3>1, <3>2, <4>1, <4>2 DEF Retrieved
    <3> QED
      BY <3>3, <3>4
  <2>2. list \in Seq(Retrieved)
    BY <2>1, LenProperties, ElementOfSeq DEF ListOK, ToSet
  <2>3. \A c \in Retrieved : score[c] \in Nat
    BY <1>3, <2>1
  <2>4. Ranks(ranking', list, score, Retrieved)
    BY <2>1, <2>2, <2>3, ScoredFacts
  <2>5. Len(ranking') <= FirstStageDepth
    BY <1>3, <1>6, <2>1, <2>4 DEF ListOK, Ranks
  <2>6. searchStep' = "hydrate" => ranking' = << >> \/ FirstStageDepth = request.topK
    BY <1>1, <1>3
  <2>7. Len(ranking') <= IF searchStep' = "rerank" THEN FirstStageDepth ELSE request.topK
    <3>1. ranking' = << >> => Len(ranking') = 0
      OBVIOUS
    <3> QED
      BY <1>1, <1>3, <2>5, <2>6, <3>1
  <2>8. Retrieved \ RankedChunks' = {}
    <3>1. \A c \in Retrieved : \E n \in DOMAIN list : list[n] = c
      BY <2>1 DEF ToSet
    <3>2. \A n \in DOMAIN list : n \in DOMAIN ranking' /\ ranking'[n].chunk = list[n]
      BY <2>4 DEF Ranks
    <3> QED
      BY <1>4, <3>1, <3>2
  <2>9. ASSUME NEW i \in DOMAIN ranking', NEW j \in DOMAIN ranking', i < j
        PROVE  InOrder(i, j)'
    <3>1. ranking'[i].chunk # ranking'[j].chunk /\ ranking'[i].score >= ranking'[j].score
      BY <2>1, <2>4, <2>9 DEF ListOK, Ranks
    <3>2. ranking' # << >>
      BY <2>9
    <3>3. Reranks => searchStep' = "rerank"
      BY <1>1, <3>2
    <3> QED
      BY <1>2, <1>6, <3>1, <3>3 DEF InOrder
  <2>10. RankingOK'
    BY <1>1, <1>2, <2>4, <2>7, <2>8, <2>9 DEF RankingOK, Ranks
  <2> QED
    BY <1>2, <1>6, <2>10 DEF AgreementIsKept
<1> QED
  BY <1>5, <1>6

(* The reranker gives each candidate a score and cuts to top_k.            *)
LEMMA RerankStep ==
  ASSUME ListsOK, ChecksOK, RankingOK, Rerank
  PROVE  RankingOK'
<1>1. /\ UNCHANGED <<request, available, lexical, similarity, bm25List, denseList>>
      /\ searchStep = "rerank" /\ searchStep' = "hydrate"
  BY DEF Rerank, To
<1>2. /\ IsHybrid' = IsHybrid /\ Reranks' = Reranks /\ FirstStageDepth' = FirstStageDepth
      /\ Retrieved' = Retrieved
  BY <1>1, SameRequest DEF Retrieved
<1>3. /\ request.topK \in Nat \ {0} /\ FirstStageDepth \in Nat \ {0}
      /\ request.topK <= FirstStageDepth /\ Retrieved \in SUBSET ChunkIds /\ IsFiniteSet(Retrieved)
  BY RequestFacts
<1>4. \A n \in DOMAIN ranking : ranking[n].chunk \in Retrieved
  <2> DEFINE Item == [chunk : Retrieved, score : Nat]
  <2>1. ranking \in Seq(Item)
    BY <1>1 DEF RankingOK
  <2> HIDE DEF Item
  <2>2. \A n \in DOMAIN ranking : ranking[n] \in Item
    BY <2>1, LenProperties, ElementOfSeq
  <2> QED
    BY <2>2 DEF Item
<1>5. RankedChunks \in SUBSET Retrieved
  BY <1>4, RankedChunksFacts
<1>6. Cardinality(RankedChunks) = Len(ranking)
  <2> DEFINE names == [n \in 1..Len(ranking) |-> ranking[n].chunk]
  <2>1. Len(ranking) \in Nat /\ DOMAIN ranking = 1..Len(ranking)
    BY <1>1, LenProperties DEF RankingOK
  <2>2. names \in Seq(Retrieved) /\ Len(names) = Len(ranking) /\ DOMAIN names = 1..Len(ranking)
    BY <1>4, <2>1
  <2>3. \A m, n \in DOMAIN names : m < n => names[m] # names[n]
    BY <1>1, <2>1 DEF RankingOK, InOrder
  <2>4. ToSet(names) = RankedChunks
    BY <2>1, RankedChunksFacts DEF ToSet
  <2> HIDE DEF names
  <2> QED
    BY <1>3, <2>2, <2>3, <2>4, ListLength
<1>7. PICK given \in [RankedChunks -> 0..MaxScore] : \E list \in Ordered(RankedChunks, given) :
        ranking' = Scored(Cut(list, request.topK), given)
  BY DEF Rerank
<1>8. PICK list \in Ordered(RankedChunks, given) :
        ranking' = Scored(Cut(list, request.topK), given)
  BY <1>7
<1>9. Best(ranking', RankedChunks, given, request.topK)
  <2>1. RankedChunks \in SUBSET ChunkIds /\ \A c \in RankedChunks : given[c] \in Nat
    <3>1. MaxScore \in Nat
      BY RankingAssumption
    <3> QED
      BY <1>3, <1>5, <3>1
  <2> QED
    BY <1>3, <1>8, <2>1, BestOf
<1>10. ranking' \in Seq([chunk : Retrieved, score : Nat])
  <2> DEFINE Item(S) == [chunk : S, score : Nat]
  <2>1. ranking' \in Seq(Item(RankedChunks)) /\ Item(RankedChunks) \subseteq Item(Retrieved)
    BY <1>5, <1>9 DEF Best
  <2> HIDE DEF Item
  <2>2. ranking' \in Seq(Item(Retrieved))
    BY <2>1, SeqMonotonic
  <2> QED
    BY <2>2 DEF Item
<1>11. Reranks
  BY <1>1 DEF ChecksOK
<1>12. \A c : c \in RankedChunks' <=> \E n \in DOMAIN ranking' : ranking'[n].chunk = c
  BY DEF RankedChunks, ToSet
<1>13. ASSUME NEW c \in Retrieved \ RankedChunks'
       PROVE  Len(ranking') = request.topK
  <2>1. CASE c \in RankedChunks
    BY <1>9, <1>12, <1>13, <2>1 DEF Best
  <2>2. CASE c \notin RankedChunks
    <3>1. Cardinality(RankedChunks) = FirstStageDepth
      BY <1>1, <1>6, <1>13, <2>2 DEF RankingOK
    <3> QED
      BY <1>3, <1>9, <3>1 DEF Best, Smaller
  <2> QED
    BY <2>1, <2>2
<1>14. \A i, j \in DOMAIN ranking' : i < j => InOrder(i, j)'
  BY <1>9 DEF Best, InOrder
<1>15. Len(ranking') <= request.topK
  BY <1>9 DEF Best
<1> QED
  BY <1>1, <1>2, <1>10, <1>11, <1>13, <1>14, <1>15 DEF RankingOK

(* The chunks that are still there, numbered again.                        *)
LEMMA HydrateStep ==
  ASSUME ListsOK, RankingOK, Hydrate
  PROVE  HitsOK'
<1>1. /\ UNCHANGED <<request, available, bm25List, denseList, ranking>>
      /\ searchStep = "hydrate" /\ searchStep' = "answered"
  BY DEF Hydrate, To
<1>2. Retrieved' = Retrieved
  BY <1>1 DEF Retrieved
<1>3. /\ Len(ranking) \in Nat /\ DOMAIN ranking = 1..Len(ranking)
      /\ \A n \in DOMAIN ranking : ranking[n].chunk \in Retrieved /\ ranking[n].score \in Nat
  <2> DEFINE Item == [chunk : Retrieved, score : Nat]
  <2>1. ranking \in Seq(Item)
    BY <1>1 DEF RankingOK
  <2> HIDE DEF Item
  <2>2. /\ Len(ranking) \in Nat /\ DOMAIN ranking = 1..Len(ranking)
        /\ \A n \in DOMAIN ranking : ranking[n] \in Item
    BY <2>1, LenProperties, ElementOfSeq
  <2> QED
    BY <2>2 DEF Item
<1>4. Len(ranking) <= request.topK /\ request.topK \in Nat
  BY <1>1, RequestFacts DEF RankingOK
<1>5. PICK present \in SUBSET ChunkIds :
        \E kept \in Ascending({n \in DOMAIN ranking : ranking[n].chunk \in present}) :
          hits' = [n \in DOMAIN kept |-> [rank |-> n, chunk |-> ranking[kept[n]].chunk,
                                          score |-> Rounded(ranking[kept[n]].score)]]
  BY DEF Hydrate
<1> DEFINE K == {n \in DOMAIN ranking : ranking[n].chunk \in present}
<1>6. PICK kept \in Ascending(K) :
        hits' = [n \in DOMAIN kept |-> [rank |-> n, chunk |-> ranking[kept[n]].chunk,
                                        score |-> Rounded(ranking[kept[n]].score)]]
  BY <1>5
<1>7. IsFiniteSet(K) /\ Cardinality(K) <= Len(ranking) /\ Cardinality(K) \in Nat
  <2>1. K \in SUBSET (1..Len(ranking))
    BY <1>3
  <2>2. IsFiniteSet(1..Len(ranking)) /\ Cardinality(1..Len(ranking)) = Len(ranking)
    BY <1>3, FS_Interval
  <2> HIDE DEF K
  <2> QED
    BY <2>1, <2>2, FS_Subset, FS_CardinalityType
<1>8. K \subseteq DOMAIN ranking
  OBVIOUS
<1> HIDE DEF K
<1>9. /\ kept \in Seq(K) /\ Len(kept) = Cardinality(K)
      /\ \A m, n \in DOMAIN kept : m < n => kept[m] < kept[n]
  BY <1>7, SeqOfSet DEF Ascending
<1>10. DOMAIN kept = 1..Cardinality(K) /\ \A n \in DOMAIN kept : kept[n] \in DOMAIN ranking
  BY <1>8, <1>9, LenProperties, ElementOfSeq
<1>11. Len(hits') = Cardinality(K) /\ DOMAIN hits' = DOMAIN kept
  BY <1>6, <1>7, <1>10
<1>12. \A n \in DOMAIN kept : /\ hits'[n].rank = n
                               /\ hits'[n].chunk = ranking[kept[n]].chunk
                               /\ hits'[n].score = Rounded(ranking[kept[n]].score)
  BY <1>6
<1>13. ASSUME NEW m \in DOMAIN kept, NEW n \in DOMAIN kept, m < n
       PROVE  /\ hits'[m].chunk # hits'[n].chunk /\ hits'[m].score >= hits'[n].score
              /\ \E i, j \in DOMAIN ranking :
                   i < j /\ ranking[i].chunk = hits'[m].chunk /\ ranking[j].chunk = hits'[n].chunk
  <2>1. kept[m] \in DOMAIN ranking /\ kept[n] \in DOMAIN ranking /\ kept[m] < kept[n]
    BY <1>9, <1>10, <1>13
  <2>2. /\ ranking[kept[m]].chunk # ranking[kept[n]].chunk
        /\ ranking[kept[m]].score >= ranking[kept[n]].score
    BY <1>1, <2>1 DEF RankingOK, InOrder
  <2>3. Rounded(ranking[kept[m]].score) >= Rounded(ranking[kept[n]].score)
    BY <1>3, <2>1, <2>2, RoundedIsMonotonic
  <2> QED
    BY <1>12, <1>13, <2>1, <2>2, <2>3
<1>14. Len(hits') <= request.topK
  BY <1>3, <1>4, <1>7, <1>11
<1>15. ranking = << >> => hits' = << >>
  <2>1. ranking = << >> => kept = << >>
    BY <1>7, <1>9
  <2> QED
    BY <1>6, <2>1
<1> QED
  BY <1>1, <1>2, <1>3, <1>10, <1>11, <1>12, <1>13, <1>14, <1>15 DEF HitsOK

(* Every step keeps the invariant.                                         *)
LEMMA RankingStep ==
  ASSUME RankingInv, [RankingNext]_rankingVars
  PROVE  RankingInv'
<1> USE DEF RankingInv
<1>1. UNCHANGED <<request, available, lexical, similarity>>
  BY DEF RankingNext, CheckReranker, RetrieveBM25, RetrieveDense, Fuse, Rerank, RerankerRaises,
         Hydrate, rankingVars
<1>2. /\ IsHybrid' = IsHybrid /\ Reranks' = Reranks /\ Unknown' = Unknown
      /\ Reranker' = Reranker /\ FirstStageDepth' = FirstStageDepth /\ Depth' = Depth
      /\ NeedsDefault' = NeedsDefault /\ \A r : Uses(r)' = Uses(r)
  BY <1>1, SameRequest
<1>3. ChecksOK'
  <2>1. CASE CheckReranker
    BY <1>1, <1>2, <2>1 DEF CheckReranker, To, ChecksOK
  <2>2. CASE RetrieveBM25
    BY <1>1, <1>2, <2>2 DEF RetrieveBM25, To, ChecksOK
  <2>3. CASE RetrieveDense
    BY <1>1, <1>2, <2>3 DEF RetrieveDense, To, ChecksOK
  <2>4. CASE Fuse
    BY <1>1, <1>2, <2>4 DEF Fuse, To, ChecksOK
  <2>5. CASE Rerank
    BY <1>1, <1>2, <2>5 DEF Rerank, To, ChecksOK
  <2>6. CASE Hydrate
    BY <1>1, <1>2, <2>6 DEF Hydrate, To, ChecksOK
  <2>7. CASE RerankerRaises
    <3>1. searchStep = "rerank" /\ Reranks /\ ~Unknown /\ Reranker \notin available.loads
      BY <2>7 DEF RerankerRaises, ChecksOK
    <3>2. Retrieved # {}
      BY <3>1 DEF ChecksOK, RankingOK
    <3>3. searchStep' = "reranker_unavailable" /\ Retrieved' = Retrieved
      BY <2>7 DEF RerankerRaises, To, Retrieved
    <3> QED
      BY <1>1, <1>2, <3>1, <3>2, <3>3 DEF ChecksOK
  <2>8. CASE UNCHANGED rankingVars
    <3>1. Retrieved' = Retrieved
      BY <2>8 DEF rankingVars, Retrieved
    <3> QED
      BY <1>1, <1>2, <2>8, <3>1 DEF rankingVars, ChecksOK
  <2> QED
    BY <2>1, <2>2, <2>3, <2>4, <2>5, <2>6, <2>7, <2>8 DEF RankingNext
<1>4. CASE CheckReranker
  <2>1. /\ searchStep' \in {"retrieve", "unknown_reranker", "reranker_unavailable"}
        /\ UNCHANGED <<bm25List, denseList>> /\ searchStep = "check"
    BY <1>4 DEF CheckReranker, To
  <2>2. ListsOK'
    BY <1>1, <1>2, <2>1 DEF ListsOK, ListOK
  <2> QED
    BY <1>3, <2>1, <2>2 DEF RankingOK, HitsOK, AgreementIsKept
<1>5. CASE RetrieveBM25 \/ RetrieveDense
  <2>1. searchStep' \in {"dense", "fuse", "dense_index_unavailable", "embedding_unavailable"}
    BY <1>5 DEF RetrieveBM25, RetrieveDense, To
  <2> QED
    BY <1>3, <1>5, <2>1, RetrieveStep DEF RankingOK, HitsOK, AgreementIsKept
<1>6. ASSUME UNCHANGED <<bm25List, denseList>>,
             searchStep \notin {"check", "retrieve", "dense"},
             searchStep' \notin {"check", "retrieve", "dense"}
      PROVE  ListsOK'
  BY <1>1, <1>2, <1>6 DEF ListsOK, ListOK
<1>7. CASE Fuse
  <2>1. /\ searchStep' \in {"rerank", "hydrate"} /\ searchStep = "fuse"
        /\ UNCHANGED <<bm25List, denseList>>
    BY <1>7 DEF Fuse, To
  <2> QED
    BY <1>3, <1>6, <1>7, <2>1, FuseStep DEF HitsOK
<1>8. CASE Rerank
  <2>1. /\ searchStep' = "hydrate" /\ searchStep = "rerank" /\ Reranks'
        /\ UNCHANGED <<bm25List, denseList>>
    BY <1>2, <1>8 DEF Rerank, To, ChecksOK
  <2> QED
    BY <1>3, <1>6, <1>8, <2>1, RerankStep DEF HitsOK, AgreementIsKept
<1>9. CASE Hydrate
  <2>1. /\ searchStep' = "answered" /\ searchStep = "hydrate"
        /\ UNCHANGED <<bm25List, denseList, ranking>>
    BY <1>9 DEF Hydrate, To
  <2>2. Retrieved' = Retrieved /\ RankedChunks' = RankedChunks /\ Totals' = Totals
    BY <1>1, <2>1 DEF Retrieved, RankedChunks, Totals, Contribution, Normalised, Position, IsIn
  <2>3. RankingOK'
    BY <1>1, <1>2, <2>1, <2>2 DEF RankingOK, InOrder
  <2> QED
    BY <1>3, <1>6, <1>9, <2>1, <2>3, HydrateStep DEF AgreementIsKept
<1>10. CASE UNCHANGED rankingVars
  <2>1. ListsOK'
    BY <1>1, <1>2, <1>10 DEF rankingVars, ListsOK, ListOK
  <2>2. Retrieved' = Retrieved /\ RankedChunks' = RankedChunks /\ Totals' = Totals
    BY <1>10 DEF rankingVars, Retrieved, RankedChunks, Totals, Contribution, Normalised, Position, IsIn
  <2>3. RankingOK' /\ HitsOK'
    BY <1>2, <1>10, <2>2 DEF rankingVars, RankingOK, InOrder, HitsOK
  <2>4. AgreementIsKept'
    <3>1. UNCHANGED <<ranking, searchStep>> /\ \A c, d : Agree(c, d)' = Agree(c, d)
      BY <1>10, SameAgreement DEF rankingVars
    <3> QED
      BY <1>2, <3>1 DEF AgreementIsKept
  <2> QED
    BY <1>3, <2>1, <2>3, <2>4
<1>11. CASE RerankerRaises
  <2>1. /\ searchStep' = "reranker_unavailable" /\ searchStep = "rerank"
        /\ UNCHANGED <<bm25List, denseList>>
    BY <1>11 DEF RerankerRaises, To
  <2> QED
    BY <1>3, <1>6, <2>1 DEF RankingOK, HitsOK, AgreementIsKept
<1> QED
  BY <1>4, <1>5, <1>7, <1>8, <1>9, <1>10, <1>11 DEF RankingNext

\* What every state of a search satisfies.
LEMMA RankingInvariance == RankingSpec => []RankingInv
<1>1. ASSUME RankingInit PROVE RankingInv
  <2>1. request \in Requests
    BY <1>1 DEF RankingInit
  <2>2. Depth \in Nat
    BY <2>1, RankingAssumption DEF Depth, FirstStageDepth, Larger
  <2> QED
    BY <1>1, <2>2 DEF RankingInit, RankingInv, ListsOK, ListOK, ChecksOK, RankingOK, HitsOK, AgreementIsKept
<1>2. RankingInv /\ [RankingNext]_rankingVars => RankingInv'
  BY RankingStep
<1> QED
  BY <1>1, <1>2, PTL DEF RankingSpec

\* Whatever the retrievers, the reranker and the database give, the response
\* is the beginning of the ranking, with no chunk twice, and complete up to
\* top_k and the candidates.
THEOREM TheResponseIsARanking == RankingSpec => []ResponseIsARanking
<1>1. RankingInv => ResponseIsARanking
  BY DEF RankingInv, RankingOK, InOrder, HitsOK, ResponseIsARanking
<1> QED
  BY <1>1, RankingInvariance, PTL

\* A search is refused, before or between its retrievers or by the reranker
\* at the end, for what is missing and for nothing else; and answered only
\* with what it asked for, unless it asked for a reranker with an empty name.
THEOREM RefusalsAreAlwaysTrue == RankingSpec => []RefusalsAreTrue
<1>1. RankingInv => RefusalsAreTrue
  <2> SUFFICES ASSUME ListsOK, ChecksOK, HitsOK
               PROVE  RefusalsAreTrue
    BY DEF RankingInv
  <2>1. /\ {"none", ""} \cap available.rerankers = {}
        /\ IF available.rerankers = {} THEN available.default = "none"
           ELSE available.default \in available.rerankers
    BY RankingAssumption DEF ListsOK
  <2>2. searchStep = "unknown_reranker" =>
          request.reranker # "none" /\ request.reranker \notin available.rerankers
    BY <2>1 DEF ChecksOK, Unknown, Reranker, NeedsDefault
  <2>3. Reranks => ToRerank /\ Wanted = Reranker
    BY <2>1 DEF Reranks, ToRerank, Wanted, Reranker, NeedsDefault
  <2>4. ToRerank /\ request.reranker # "" /\ (NeedsDefault => available.rerankers # {}) => Reranks
    BY <2>1 DEF Reranks, ToRerank, Reranker, NeedsDefault
  <2>5. searchStep = "reranker_unavailable" =>
          /\ ToRerank
          /\ \/ request.reranker = "none" /\ available.rerankers = {}
             \/ Retrieved # {} /\ Wanted \in available.rerankers \ available.loads
    BY <2>3 DEF ChecksOK, NeedsDefault, ToRerank, Unknown, Reranks
  <2>6. searchStep = "answered" /\ ToRerank /\ request.reranker # "" =>
          Wanted \in available.rerankers /\ (hits # << >> => Wanted \in available.loads)
    BY <2>3, <2>4 DEF ChecksOK, HitsOK, Unknown, Reranks
  <2> QED
    BY <2>2, <2>5, <2>6 DEF ChecksOK, RefusalsAreTrue
<1> QED
  BY <1>1, RankingInvariance, PTL

\* Fusion keeps what its lists agree on, for all weights and by both methods.
THEOREM AgreementIsAlwaysKept == RankingSpec => []AgreementIsKept
<1>1. RankingInv => AgreementIsKept
  BY DEF RankingInv
<1> QED
  BY <1>1, RankingInvariance, PTL

=============================================================================
