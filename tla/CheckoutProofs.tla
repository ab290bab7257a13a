--------------------------- MODULE CheckoutProofs ----------------------------
(***************************************************************************)
(* The contents of a checkout add up, for every tree and every limit; and  *)
(* reads of a repository that is being indexed or deleted, for any number  *)
(* of runs.                                                                *)
(*                                                                         *)
(* ContentsAddUp speaks of the end of the stages.  The invariant says what *)
(* holds in the middle of each loop, of the files before its position:     *)
(* they are counted, indexed, parsed or chunked unless a read failed.      *)
(***************************************************************************)
EXTENDS RepositoryContents, CodeReads, FiniteSetTheorems, TLAPS

Tasks == {"walk", "limit", "index", "parse", "chunk_source", "chunk_text", "stored",
          "searchable", "cancelled"}
Before(n) == {f \in Walked : f < n}
KeptBefore(n) == {f \in Before(n) : Kept(f)}
OthersBefore(n) == {f \in Before(n) : ~IsPruned(f) /\ entries[f].type # "file"}
Scans == [total : Nat, paths : SUBSET Walked, indexable : SUBSET Walked,
          skipped : [SkipReasons -> Nat]]

ContentsTypeOK ==
  /\ entries \in Seq(Entry) /\ task \in Tasks /\ at \in 1 .. Len(entries) + 1 /\ scan \in Scans
  /\ indexed \in SUBSET Walked /\ unparsed \in SUBSET Walked
  /\ DOMAIN parsed \in SUBSET Walked /\ DOMAIN chunkedBy \in SUBSET Walked

\* The scan s has counted the entries before n.
Counts(s, n) ==
  /\ s.paths = KeptBefore(n) /\ s.total = Cardinality(KeptBefore(n))
  /\ s.indexable = {f \in KeptBefore(n) : entries[f].size <= MaxIndexedSize /\ ~entries[f].long}
  /\ s.total = Cardinality(s.indexable) + s.skipped["too_large"] + s.skipped["path_too_long"]
  /\ s.skipped["unreadable"] + s.skipped["not_regular_file"] = Cardinality(OthersBefore(n))
CountedBefore(n) == Counts(scan, n) /\ scan.total <= MaxFiles

WalkInv ==
  /\ task = "walk" => CountedBefore(at)
  /\ task = "limit" => Cardinality({f \in Walked : Kept(f)}) > MaxFiles
  /\ task \notin {"walk", "limit"} => CountedBefore(Len(entries) + 1)

IndexedBefore(n) ==
  \A f \in scan.indexable \ misread : f < n => f \in indexed \/ entries[f].binary
IndexInv ==
  /\ \A f \in indexed : f \in scan.indexable /\ ~entries[f].binary
  /\ task \in {"walk", "limit"} => indexed = {}
  /\ task = "index" => IndexedBefore(at)
  /\ task \in {"parse", "chunk_source", "chunk_text", "stored", "searchable"} =>
       IndexedBefore(Len(entries) + 1)

ParsedBefore(n) ==
  /\ DOMAIN parsed \cap unparsed = {}
  /\ DOMAIN parsed \cup unparsed = {f \in Parseable : f < n}
ParseInv ==
  /\ \A f \in DOMAIN parsed : entries[f].size <= MaxParsedSize
  /\ \A f \in unparsed \ misread : entries[f].size > MaxParsedSize
  /\ task \in {"walk", "limit", "index"} => DOMAIN parsed = {} /\ unparsed = {}
  /\ task = "parse" => ParsedBefore(at)
  /\ task \in {"chunk_source", "chunk_text", "stored", "searchable"} =>
       ParsedBefore(Len(entries) + 1)

Ways == {"source", "text"}
SourceChunkedBefore(n) ==
  \A f \in DOMAIN parsed \ misread : f < n => f \in DOMAIN chunkedBy
TextChunkedBefore(n) ==
  \A f \in indexed \ misread : f < n /\ ShouldChunk(f) => f \in DOMAIN chunkedBy
ChunkInv ==
  /\ \A f \in DOMAIN chunkedBy :
       /\ f \in indexed /\ (f \in DOMAIN parsed \/ ShouldChunk(f))
       /\ chunkedBy[f] \in Seq(Ways) /\ Len(chunkedBy[f]) = 1
  /\ task \in {"walk", "limit", "index", "parse", "stored"} => DOMAIN chunkedBy = {}
  /\ task = "chunk_source" =>
       SourceChunkedBefore(at) /\ DOMAIN chunkedBy \subseteq {f \in DOMAIN parsed : f < at}
  /\ task = "chunk_text" => SourceChunkedBefore(Len(entries) + 1) /\ TextChunkedBefore(at)
  /\ task = "searchable" =>
       SourceChunkedBefore(Len(entries) + 1) /\ TextChunkedBefore(Len(entries) + 1)

ContentsInv == ContentsTypeOK /\ WalkInv /\ IndexInv /\ ParseInv /\ ChunkInv

-----------------------------------------------------------------------------
(* The files before a position.                                            *)

LEMMA WalkedInOrder ==
  ASSUME ContentsTypeOK
  PROVE  /\ Len(entries) \in Nat /\ Walked = 1 .. Len(entries) /\ at \in Nat
         /\ \A f \in Walked : entries[f] \in Entry
         /\ IsFiniteSet(Walked)
  <1>1. Len(entries) \in Nat /\ Walked = 1 .. Len(entries) /\ at \in Nat
    BY DEF ContentsTypeOK, Walked
  <1>2. \A f \in Walked : entries[f] \in Entry
    BY DEF ContentsTypeOK, Walked
  <1>3. IsFiniteSet(Walked)
    BY <1>1, FS_Interval
  <1> QED  BY <1>1, <1>2, <1>3

LEMMA OneMore ==
  ASSUME NEW S, IsFiniteSet(S), NEW x, x \notin S
  PROVE  /\ IsFiniteSet(S \cup {x}) /\ Cardinality(S) \in Nat
         /\ Cardinality(S \cup {x}) = Cardinality(S) + 1
  BY FS_AddElement, FS_CardinalityType

LEMMA NoneBeforeTheFirst ==
  ASSUME ContentsTypeOK
  PROVE  Before(1) = {} /\ KeptBefore(1) = {} /\ OthersBefore(1) = {}
  BY WalkedInOrder DEF Before, KeptBefore, OthersBefore

LEMMA BeforeTheNext ==
  ASSUME ContentsTypeOK, at \in Walked
  PROVE  /\ KeptBefore(at + 1) = IF Kept(at) THEN KeptBefore(at) \cup {at} ELSE KeptBefore(at)
         /\ OthersBefore(at + 1) = IF ~IsPruned(at) /\ entries[at].type # "file"
                                   THEN OthersBefore(at) \cup {at} ELSE OthersBefore(at)
         /\ at \notin KeptBefore(at) /\ at \notin OthersBefore(at)
         /\ IsFiniteSet(KeptBefore(at)) /\ IsFiniteSet(OthersBefore(at))
  <1>1. Before(at + 1) = Before(at) \cup {at} /\ at \notin Before(at)
    BY WalkedInOrder DEF Before
  <1>2. KeptBefore(at) \subseteq Walked /\ OthersBefore(at) \subseteq Walked
    BY DEF KeptBefore, OthersBefore, Before
  <1>3. IsFiniteSet(KeptBefore(at)) /\ IsFiniteSet(OthersBefore(at))
    BY <1>2, WalkedInOrder, FS_Subset
  <1> QED  BY <1>1, <1>3 DEF KeptBefore, OthersBefore

LEMMA AllBeforeTheEnd ==
  ASSUME ContentsTypeOK
  PROVE  /\ Before(Len(entries) + 1) = Walked
         /\ KeptBefore(Len(entries) + 1) = {f \in Walked : Kept(f)}
         /\ OthersBefore(Len(entries) + 1)
              = {f \in Walked : ~IsPruned(f) /\ entries[f].type # "file"}
  BY WalkedInOrder DEF Before, KeptBefore, OthersBefore

-----------------------------------------------------------------------------
(* The walk.                                                               *)

LEMMA StartsInv == ContentsInit => ContentsInv
  <1> SUFFICES ASSUME ContentsInit PROVE ContentsInv
    OBVIOUS
  <1> USE DEF ContentsInit
  <1>1. ContentsTypeOK
    <2>1. entries \in Seq(Entry)
      BY ContentsAssumption
    <2>2. at \in 1 .. Len(entries) + 1
      BY <2>1
    <2>3. scan \in Scans
      BY DEF NoScan, Scans
    <2> QED  BY <2>1, <2>2, <2>3 DEF ContentsTypeOK, Tasks
  <1>2. WalkInv
    <2>1. KeptBefore(1) = {} /\ Cardinality(KeptBefore(1)) = 0 /\ Cardinality(OthersBefore(1)) = 0
      BY <1>1, NoneBeforeTheFirst, FS_EmptySet
    <2>2. /\ scan.paths = {} /\ scan.total = 0 /\ scan.indexable = {}
          /\ \A r \in SkipReasons : scan.skipped[r] = 0
      BY DEF NoScan
    <2>3. Cardinality(scan.indexable) = 0
      BY <2>2, FS_EmptySet
    <2>4. Counts(scan, 1)
      BY <2>1, <2>2, <2>3 DEF Counts, SkipReasons
    <2>5. CountedBefore(1)
      BY <2>2, <2>4, ContentsAssumption DEF CountedBefore
    <2> QED  BY <2>5 DEF WalkInv
  <1>3. DOMAIN parsed = {} /\ DOMAIN chunkedBy = {}
    OBVIOUS
  <1>4. IndexInv
    BY DEF IndexInv
  <1>5. ParseInv
    BY <1>3 DEF ParseInv
  <1>6. ChunkInv
    BY <1>3 DEF ChunkInv
  <1> QED  BY <1>1, <1>2, <1>4, <1>5, <1>6 DEF ContentsInv

LEMMA SkipCountsOne ==
  ASSUME NEW s \in Scans, NEW r \in SkipReasons
  PROVE  LET t == Skip(s, r)
         IN /\ t \in Scans
            /\ t.paths = s.paths /\ t.total = s.total /\ t.indexable = s.indexable
            /\ \A q \in SkipReasons :
                 t.skipped[q] = IF q = r THEN s.skipped[q] + 1 ELSE s.skipped[q]
            /\ \A q \in SkipReasons : s.skipped[q] \in Nat
  <1> DEFINE sk == [s.skipped EXCEPT ![r] = @ + 1]
  <1>1. s.skipped \in [SkipReasons -> Nat]
    BY DEF Scans
  <1>2. sk \in [SkipReasons -> Nat]
    BY <1>1
  <1>3. \A q \in SkipReasons : sk[q] = IF q = r THEN s.skipped[q] + 1 ELSE s.skipped[q]
    BY <1>1
  <1>4. Skip(s, r) = [s EXCEPT !.skipped = sk]
    BY DEF Skip, Scans
  <1> HIDE DEF sk
  <1> QED  BY <1>1, <1>2, <1>3, <1>4 DEF Scans

LEMMA FileCountsOne ==
  ASSUME NEW s \in Scans, NEW f \in Walked
  PROVE  /\ [s EXCEPT !.total = @ + 1, !.paths = @ \cup {f}] \in Scans
         /\ [s EXCEPT !.total = @ + 1, !.paths = @ \cup {f}].total = s.total + 1
         /\ [s EXCEPT !.total = @ + 1, !.paths = @ \cup {f}].paths = s.paths \cup {f}
         /\ [s EXCEPT !.total = @ + 1, !.paths = @ \cup {f}].indexable = s.indexable
         /\ [s EXCEPT !.total = @ + 1, !.paths = @ \cup {f}].skipped = s.skipped
  <1> DEFINE n == s.total + 1
             p == s.paths \cup {f}
             t == [s EXCEPT !.total = n, !.paths = p]
  <1>1. n \in Nat /\ p \in SUBSET Walked
    BY DEF Scans
  <1>2. ASSUME NEW m \in Nat, NEW q \in SUBSET Walked
        PROVE  LET u == [s EXCEPT !.total = m, !.paths = q]
               IN /\ u \in Scans /\ u.total = m /\ u.paths = q
                  /\ u.indexable = s.indexable /\ u.skipped = s.skipped
    BY DEF Scans
  <1> HIDE DEF n, p
  <1>3. /\ t \in Scans /\ t.total = n /\ t.paths = p
        /\ t.indexable = s.indexable /\ t.skipped = s.skipped
    BY <1>1, <1>2
  <1> QED  BY <1>3 DEF n, p

\* What one entry changes of the scan, one case for each kind of entry.
LEMMA OneEntry ==
  ASSUME ContentsTypeOK, CountedBefore(at), at \in Walked
  PROVE  /\ Scanned(at) \in Scans /\ Counts(Scanned(at), at + 1)
         /\ Scanned(at).total > MaxFiles =>
              Kept(at) /\ Scanned(at).total = Cardinality(KeptBefore(at) \cup {at})
  <1> DEFINE e == entries[at]
             counted == [scan EXCEPT !.total = @ + 1, !.paths = @ \cup {at}]
             fits == {f \in KeptBefore(at) : entries[f].size <= MaxIndexedSize /\ ~entries[f].long}
  <1>1. e \in Entry /\ scan \in Scans /\ scan.total \in Nat /\ MaxFiles \in Nat
    BY WalkedInOrder, ContentsAssumption DEF ContentsTypeOK, Scans
  <1>2. IsFiniteSet(scan.indexable) /\ at \notin scan.indexable
    BY BeforeTheNext, FS_Subset DEF CountedBefore, Counts
  <1>3. /\ Cardinality(KeptBefore(at)) \in Nat /\ Cardinality(OthersBefore(at)) \in Nat
        /\ Cardinality(scan.indexable) \in Nat
        /\ Cardinality(KeptBefore(at) \cup {at}) = Cardinality(KeptBefore(at)) + 1
        /\ Cardinality(OthersBefore(at) \cup {at}) = Cardinality(OthersBefore(at)) + 1
        /\ Cardinality(scan.indexable \cup {at}) = Cardinality(scan.indexable) + 1
    BY <1>2, BeforeTheNext, OneMore
  <1>4. /\ counted \in Scans /\ counted.total = scan.total + 1
        /\ counted.paths = scan.paths \cup {at}
        /\ counted.indexable = scan.indexable /\ counted.skipped = scan.skipped
    BY <1>1, FileCountsOne
  <1>5. \A r \in SkipReasons : scan.skipped[r] \in Nat
    BY <1>1 DEF Scans
  <1>6. CASE ~Kept(at) /\ IsPruned(at)
    <2>1. Scanned(at) = scan
      BY <1>6 DEF Scanned
    <2>2. KeptBefore(at + 1) = KeptBefore(at) /\ OthersBefore(at + 1) = OthersBefore(at)
      BY <1>6, BeforeTheNext
    <2>3. Counts(scan, at + 1) /\ scan.total <= MaxFiles
      BY <2>2 DEF CountedBefore, Counts
    <2> QED  BY <2>1, <2>3, <1>1
  <1>7. CASE ~Kept(at) /\ ~IsPruned(at)
    <2>1. PICK r \in {"unreadable", "not_regular_file"} : Scanned(at) = Skip(scan, r)
      BY <1>1, <1>7 DEF Scanned, Entry, Kept
    <2>2. KeptBefore(at + 1) = KeptBefore(at) /\ OthersBefore(at + 1) = OthersBefore(at) \cup {at}
      BY <1>7, BeforeTheNext DEF Kept
    <2>3. r \in SkipReasons
      BY DEF SkipReasons
    <2> HIDE DEF counted
    <2>4. /\ Skip(scan, r) \in Scans /\ Skip(scan, r).paths = scan.paths
          /\ Skip(scan, r).total = scan.total /\ Skip(scan, r).indexable = scan.indexable
          /\ \A q \in SkipReasons : Skip(scan, r).skipped[q]
                                      = IF q = r THEN scan.skipped[q] + 1 ELSE scan.skipped[q]
      BY <1>1, <2>3, SkipCountsOne
    <2>5. /\ Cardinality(KeptBefore(at + 1)) = Cardinality(KeptBefore(at))
          /\ Cardinality(OthersBefore(at + 1)) = Cardinality(OthersBefore(at)) + 1
          /\ Cardinality(Scanned(at).indexable) = Cardinality(scan.indexable)
      BY <2>1, <2>2, <2>4, <1>3
    <2>6. /\ Scanned(at).paths = KeptBefore(at + 1)
          /\ Scanned(at).indexable = {f \in KeptBefore(at + 1) :
                                       entries[f].size <= MaxIndexedSize /\ ~entries[f].long}
      BY <2>1, <2>2, <2>4 DEF CountedBefore, Counts
    <2>7. /\ Scanned(at).total = scan.total
          /\ \A q \in SkipReasons : Scanned(at).skipped[q]
                                      = IF q = r THEN scan.skipped[q] + 1 ELSE scan.skipped[q]
      BY <2>1, <2>4
    <2>8. /\ Scanned(at).skipped["too_large"] = scan.skipped["too_large"]
          /\ Scanned(at).skipped["path_too_long"] = scan.skipped["path_too_long"]
          /\ Scanned(at).skipped["unreadable"] + Scanned(at).skipped["not_regular_file"]
               = scan.skipped["unreadable"] + scan.skipped["not_regular_file"] + 1
      BY <2>7, <1>5 DEF SkipReasons
    <2>9. Counts(Scanned(at), at + 1)
      BY <2>5, <2>6, <2>7, <2>8, <1>3, <1>5 DEF CountedBefore, Counts, SkipReasons
    <2> QED  BY <2>1, <2>4, <2>7, <2>9, <1>1 DEF CountedBefore
  <1>8. CASE Kept(at) /\ (e.size > MaxIndexedSize \/ e.long)
    <2>1. PICK r \in {"too_large", "path_too_long"} : Scanned(at) = Skip(counted, r)
      BY <1>1, <1>8, ContentsAssumption DEF Scanned, Entry, Kept
    <2>2. KeptBefore(at + 1) = KeptBefore(at) \cup {at} /\ OthersBefore(at + 1) = OthersBefore(at)
      BY <1>8, BeforeTheNext DEF Kept
    <2>3. r \in SkipReasons
      BY DEF SkipReasons
    <2>4. {f \in KeptBefore(at + 1) : entries[f].size <= MaxIndexedSize /\ ~entries[f].long} = fits
      BY <2>2, <1>1, <1>8, ContentsAssumption DEF Entry
    <2> HIDE DEF counted, fits
    <2>5. /\ Skip(counted, r) \in Scans /\ Skip(counted, r).paths = counted.paths
          /\ Skip(counted, r).total = counted.total
          /\ Skip(counted, r).indexable = counted.indexable
          /\ \A q \in SkipReasons :
               Skip(counted, r).skipped[q]
                 = IF q = r THEN counted.skipped[q] + 1 ELSE counted.skipped[q]
      BY <1>4, <2>3, SkipCountsOne
    <2>6. scan.indexable = fits
      BY DEF CountedBefore, Counts, fits
    <2>7. /\ Cardinality(KeptBefore(at + 1)) = Cardinality(KeptBefore(at)) + 1
          /\ Cardinality(OthersBefore(at + 1)) = Cardinality(OthersBefore(at))
          /\ Cardinality(Scanned(at).indexable) = Cardinality(scan.indexable)
      BY <2>1, <2>2, <2>5, <1>3, <1>4
    <2>8. /\ Scanned(at).paths = KeptBefore(at + 1)
          /\ Scanned(at).indexable = {f \in KeptBefore(at + 1) :
                                       entries[f].size <= MaxIndexedSize /\ ~entries[f].long}
      <3>1. Scanned(at).paths = scan.paths \cup {at}
        BY <2>1, <2>5, <1>4
      <3>2. scan.paths = KeptBefore(at)
        BY DEF CountedBefore, Counts
      <3> QED  BY <3>1, <3>2, <2>1, <2>2, <2>4, <2>5, <2>6, <1>4
    <2>9. /\ Scanned(at).total = scan.total + 1
          /\ \A q \in SkipReasons : Scanned(at).skipped[q]
                                      = IF q = r THEN scan.skipped[q] + 1 ELSE scan.skipped[q]
      BY <2>1, <2>5, <1>4
    <2>10. /\ Scanned(at).skipped["unreadable"] = scan.skipped["unreadable"]
           /\ Scanned(at).skipped["not_regular_file"] = scan.skipped["not_regular_file"]
           /\ Scanned(at).skipped["too_large"] + Scanned(at).skipped["path_too_long"]
                = scan.skipped["too_large"] + scan.skipped["path_too_long"] + 1
           /\ Scanned(at).skipped["too_large"] \in Nat
           /\ Scanned(at).skipped["path_too_long"] \in Nat
      BY <2>9, <1>5 DEF SkipReasons
    <2>11. Counts(Scanned(at), at + 1)
      BY <2>7, <2>8, <2>9, <2>10, <1>1, <1>3, <1>5 DEF CountedBefore, Counts, SkipReasons
    <2>12. Scanned(at).total = Cardinality(KeptBefore(at) \cup {at})
      BY <2>9, <1>3 DEF CountedBefore, Counts
    <2> QED  BY <2>1, <2>5, <2>11, <2>12, <1>8
  <1>9. CASE Kept(at) /\ e.size <= MaxIndexedSize /\ ~e.long
    <2>1. Scanned(at) = [counted EXCEPT !.indexable = @ \cup {at}]
      BY <1>1, <1>9, ContentsAssumption DEF Scanned, Entry, Kept
    <2>2. KeptBefore(at + 1) = KeptBefore(at) \cup {at} /\ OthersBefore(at + 1) = OthersBefore(at)
      BY <1>9, BeforeTheNext DEF Kept
    <2>3. {f \in KeptBefore(at + 1) : entries[f].size <= MaxIndexedSize /\ ~entries[f].long}
            = fits \cup {at}
      BY <2>2, <1>9
    <2>4. scan.indexable = fits
      BY DEF CountedBefore, Counts
    <2> HIDE DEF counted, fits
    <2>5. /\ Scanned(at) \in Scans /\ Scanned(at).paths = counted.paths
          /\ Scanned(at).total = counted.total /\ Scanned(at).skipped = counted.skipped
          /\ Scanned(at).indexable = counted.indexable \cup {at}
      BY <1>4, <2>1 DEF Scans
    <2>6. /\ Cardinality(KeptBefore(at + 1)) = Cardinality(KeptBefore(at)) + 1
          /\ Cardinality(OthersBefore(at + 1)) = Cardinality(OthersBefore(at))
          /\ Cardinality(Scanned(at).indexable) = Cardinality(scan.indexable) + 1
      BY <2>2, <2>5, <1>3, <1>4
    <2>7. /\ Scanned(at).paths = KeptBefore(at + 1)
          /\ Scanned(at).indexable = {f \in KeptBefore(at + 1) :
                                       entries[f].size <= MaxIndexedSize /\ ~entries[f].long}
      <3>1. Scanned(at).paths = scan.paths \cup {at} /\ scan.paths = KeptBefore(at)
        BY <2>5, <1>4 DEF CountedBefore, Counts
      <3> QED  BY <3>1, <2>2, <2>3, <2>4, <2>5, <1>4
    <2>8. Scanned(at).total = scan.total + 1 /\ Scanned(at).skipped = scan.skipped
      BY <2>5, <1>4
    <2>9. Counts(Scanned(at), at + 1)
      <3>1. /\ scan.total = Cardinality(KeptBefore(at))
            /\ scan.total = Cardinality(scan.indexable)
                              + scan.skipped["too_large"] + scan.skipped["path_too_long"]
            /\ scan.skipped["unreadable"] + scan.skipped["not_regular_file"]
                 = Cardinality(OthersBefore(at))
        BY DEF CountedBefore, Counts
      <3>2. scan.skipped["too_large"] \in Nat /\ scan.skipped["path_too_long"] \in Nat
        BY <1>5 DEF SkipReasons
      <3>3. /\ Scanned(at).total = Cardinality(KeptBefore(at + 1))
            /\ Scanned(at).total = Cardinality(Scanned(at).indexable)
                                     + Scanned(at).skipped["too_large"]
                                     + Scanned(at).skipped["path_too_long"]
        BY <2>6, <2>8, <3>1, <3>2, <1>3
      <3>4. Scanned(at).skipped["unreadable"] + Scanned(at).skipped["not_regular_file"]
              = Cardinality(OthersBefore(at + 1))
        BY <2>6, <2>8, <3>1
      <3> QED  BY <2>7, <3>3, <3>4 DEF Counts
    <2>10. Scanned(at).total = Cardinality(KeptBefore(at) \cup {at})
      BY <2>8, <1>3 DEF CountedBefore, Counts
    <2> QED  BY <2>5, <2>9, <2>10, <1>9
  <1>10. (e.size > MaxIndexedSize \/ e.long) \/ (e.size <= MaxIndexedSize /\ ~e.long)
    BY <1>1, ContentsAssumption DEF Entry
  <1> QED  BY <1>6, <1>7, <1>8, <1>9, <1>10

\* The walk ends above the limit or has counted one entry more.
LEMMA WalkKeepsInv == ContentsInv /\ WalkEntry => ContentsInv'
  <1> SUFFICES ASSUME ContentsInv, WalkEntry PROVE ContentsInv'
    OBVIOUS
  <1>1. ContentsTypeOK /\ CountedBefore(at) /\ at \in Walked
    BY DEF ContentsInv, WalkInv, WalkEntry
  <1>2. /\ Scanned(at) \in Scans /\ Counts(Scanned(at), at + 1)
        /\ Scanned(at).total > MaxFiles =>
             Kept(at) /\ Scanned(at).total = Cardinality(KeptBefore(at) \cup {at})
    BY <1>1, OneEntry
  <1>3. /\ entries' = entries /\ Walked' = Walked /\ Scans' = Scans
        /\ \A n \in Nat : KeptBefore(n)' = KeptBefore(n) /\ OthersBefore(n)' = OthersBefore(n)
        /\ at \in Nat /\ at + 1 \in Nat /\ Len(entries) \in Nat /\ Walked = 1 .. Len(entries)
        /\ IsFiniteSet(Walked)
    BY <1>1, WalkedInOrder
       DEF WalkEntry, Walked, Scans, KeptBefore, OthersBefore, Before, Kept, IsPruned
  <1>4. /\ indexed' = indexed /\ parsed' = parsed /\ unparsed' = unparsed /\ misread' = misread
        /\ chunkedBy' = chunkedBy
        /\ indexed = {} /\ DOMAIN parsed = {} /\ unparsed = {} /\ DOMAIN chunkedBy = {}
    BY DEF WalkEntry, ContentsInv, IndexInv, ParseInv, ChunkInv
  <1>5. task' \in {"walk", "limit"}
    BY DEF WalkEntry
  <1>6. ContentsTypeOK'
    BY <1>1, <1>2, <1>3, <1>4, <1>5 DEF WalkEntry, ContentsTypeOK, Tasks
  <1>7. WalkInv'
    <2>1. CASE Scanned(at).total > MaxFiles
      <3>1. KeptBefore(at) \cup {at} \subseteq {f \in Walked : Kept(f)}
        BY <1>1, <1>2, <2>1 DEF KeptBefore, Before
      <3>2. IsFiniteSet({f \in Walked : Kept(f)})
        BY <1>3, FS_Subset
      <3>3. /\ Cardinality(KeptBefore(at) \cup {at}) <= Cardinality({f \in Walked : Kept(f)})
            /\ Cardinality(KeptBefore(at) \cup {at}) \in Nat
            /\ Cardinality({f \in Walked : Kept(f)}) \in Nat
        BY <3>1, <3>2, FS_Subset, FS_CardinalityType
      <3>4. Cardinality({f \in Walked : Kept(f)}) > MaxFiles
        BY <1>2, <2>1, <3>3, ContentsAssumption
      <3>5. {f \in Walked : Kept(f)}' = {f \in Walked : Kept(f)}
        BY <1>3 DEF Kept, IsPruned
      <3>6. task' = "limit"
        BY <2>1 DEF WalkEntry
      <3> QED  BY <3>4, <3>5, <3>6 DEF WalkInv
    <2>2. CASE ~(Scanned(at).total > MaxFiles)
      <3>1. task' = "walk" /\ at' = at + 1 /\ scan' = Scanned(at)
        BY <2>2 DEF WalkEntry
      <3>2. Counts(scan, at)' <=> Counts(Scanned(at), at + 1)
        <4>1. KeptBefore(at)' = KeptBefore(at + 1) /\ OthersBefore(at)' = OthersBefore(at + 1)
          BY <1>3, <3>1 DEF KeptBefore, OthersBefore, Before, Kept, IsPruned, Walked
        <4> QED  BY <1>3, <3>1, <4>1 DEF Counts
      <3>3. scan'.total <= MaxFiles
        BY <1>2, <2>2, <3>1, ContentsAssumption DEF Scans
      <3> QED  BY <1>2, <3>1, <3>2, <3>3 DEF WalkInv, CountedBefore
    <2> QED  BY <2>1, <2>2
  <1>8. IndexInv'
    BY <1>4, <1>5 DEF IndexInv
  <1>9. ParseInv'
    BY <1>4, <1>5 DEF ParseInv
  <1>10. ChunkInv'
    BY <1>4, <1>5 DEF ChunkInv
  <1> QED  BY <1>6, <1>7, <1>8, <1>9, <1>10 DEF ContentsInv

-----------------------------------------------------------------------------
(* The loops.  Each leaves the entries and the scan as they are.           *)

\* A step that stays in its stage, after the walk.
LoopStep ==
  /\ task \in {"index", "parse", "chunk_source", "chunk_text"} /\ at \in Walked
  /\ at' = at + 1 /\ UNCHANGED <<task, entries, scan>>

LEMMA LoopKeepsWalk ==
  ASSUME ContentsInv, LoopStep
  PROVE  /\ entries' = entries /\ Walked' = Walked /\ Scans' = Scans /\ WalkInv'
         /\ at \in Nat /\ at' \in 1 .. Len(entries) + 1 /\ at' = at + 1 /\ scan' = scan
         /\ task' = task
         /\ \A f \in Walked : f \in Nat /\ entries[f] \in Entry
         /\ \A f \in scan.indexable :
              f \in Walked /\ entries[f].size <= MaxIndexedSize
         /\ \A f \in indexed : f \in Walked /\ entries[f].size <= MaxIndexedSize
                                 /\ ~entries[f].binary
  <1>1. ContentsTypeOK /\ CountedBefore(Len(entries) + 1)
    BY DEF ContentsInv, WalkInv, LoopStep
  <1>2. /\ entries' = entries /\ Walked' = Walked /\ Scans' = Scans /\ scan' = scan
        /\ task' = task /\ at' = at + 1
    BY DEF LoopStep, Walked, Scans
  <1>3. CountedBefore(Len(entries) + 1)' <=> CountedBefore(Len(entries) + 1)
    BY <1>2 DEF CountedBefore, Counts, KeptBefore, OthersBefore, Before, Kept, IsPruned
  <1>4. WalkInv'
    BY <1>1, <1>2, <1>3 DEF WalkInv, LoopStep
  <1>5. /\ at \in Nat /\ at' \in 1 .. Len(entries) + 1
        /\ \A f \in Walked : f \in Nat /\ entries[f] \in Entry
    BY <1>1, <1>2, WalkedInOrder DEF LoopStep
  <1>6. \A f \in scan.indexable : f \in Walked /\ entries[f].size <= MaxIndexedSize
    BY <1>1 DEF CountedBefore, Counts, KeptBefore, Before
  <1>7. \A f \in indexed : f \in scan.indexable /\ ~entries[f].binary
    BY DEF ContentsInv, IndexInv
  <1> QED  BY <1>2, <1>4, <1>5, <1>6, <1>7

\* Who reads a file that it may read either has its contents or the file is
\* misread.
LEMMA ReadOrMisread ==
  ASSUME NEW f, NEW max, NEW ok \in BOOLEAN, Read(f, max, ok)
  PROVE  /\ misread \subseteq misread'
         /\ ok => Readable(f, max)
         /\ Readable(f, max) => ok \/ f \in misread'
  BY DEF Read

LEMMA IndexKeepsInv == ContentsInv /\ IndexFile => ContentsInv'
  <1> SUFFICES ASSUME ContentsInv, IndexFile PROVE ContentsInv'
    OBVIOUS
  <1>1. LoopStep
    BY DEF IndexFile, LoopOver, LoopStep, ContentsInv, ContentsTypeOK, Scans
  <1>2. PICK ok \in BOOLEAN :
          /\ Read(at, entries[at].size, ok)
          /\ indexed' = IF ok THEN indexed \cup {at} ELSE indexed
    BY DEF IndexFile
  <1>3. /\ parsed' = parsed /\ unparsed' = unparsed /\ chunkedBy' = chunkedBy
        /\ task = "index" /\ at \in scan.indexable
        /\ DOMAIN parsed = {} /\ unparsed = {} /\ DOMAIN chunkedBy = {}
    BY DEF IndexFile, LoopOver, ContentsInv, ParseInv, ChunkInv
  <1>4. /\ misread \subseteq misread'
        /\ ok => ~entries[at].binary
        /\ ok \/ entries[at].binary \/ at \in misread'
    <2>1. entries[at].size \in Nat
      BY <1>1, <1>3, LoopKeepsWalk DEF Entry
    <2> QED  BY <1>2, <2>1, ReadOrMisread DEF Readable
  <1>5. ContentsTypeOK'
    BY <1>1, <1>2, <1>3, LoopKeepsWalk DEF ContentsInv, ContentsTypeOK
  <1>6. IndexInv'
    <2>1. \A f \in indexed' : f \in scan'.indexable /\ ~entries'[f].binary
      BY <1>1, <1>2, <1>3, <1>4, LoopKeepsWalk DEF ContentsInv, IndexInv
    <2>2. IndexedBefore(at)'
      BY <1>1, <1>2, <1>3, <1>4, LoopKeepsWalk DEF ContentsInv, IndexInv, IndexedBefore
    <2> QED  BY <2>1, <2>2, <1>1, <1>3, LoopKeepsWalk DEF IndexInv
  <1>7. ParseInv'
    BY <1>1, <1>3, LoopKeepsWalk DEF ParseInv
  <1>8. ChunkInv'
    BY <1>1, <1>3, LoopKeepsWalk DEF ChunkInv
  <1> QED  BY <1>1, <1>5, <1>6, <1>7, <1>8, LoopKeepsWalk DEF ContentsInv

LEMMA AnalyzeKeepsInv == ContentsInv /\ AnalyzeFile => ContentsInv'
  <1> SUFFICES ASSUME ContentsInv, AnalyzeFile PROVE ContentsInv'
    OBVIOUS
  <1>1. LoopStep
    BY DEF AnalyzeFile, LoopOver, LoopStep, Parseable, ContentsInv, ContentsTypeOK
  <1>2. PICK ok \in BOOLEAN :
          /\ Read(at, MaxParsedSize, ok)
          /\ parsed' = IF ok THEN [f \in DOMAIN parsed \cup {at} |-> entries[f].parser] ELSE parsed
          /\ unparsed' = IF ok THEN unparsed ELSE unparsed \cup {at}
    BY DEF AnalyzeFile
  <1>3. /\ indexed' = indexed /\ chunkedBy' = chunkedBy
        /\ task = "parse" /\ at \in Parseable /\ DOMAIN chunkedBy = {}
        /\ Parseable' = Parseable
    BY <1>1, LoopKeepsWalk
       DEF AnalyzeFile, LoopOver, ContentsInv, ChunkInv, Parseable, HasAnalyzer
  <1>4. /\ misread \subseteq misread'
        /\ ok => entries[at].size <= MaxParsedSize
        /\ ok \/ ~(entries[at].size <= MaxParsedSize) \/ at \in misread'
    <2>1. ~entries[at].binary
      BY <1>1, <1>3, LoopKeepsWalk DEF Parseable
    <2> QED  BY <1>2, <2>1, ReadOrMisread DEF Readable
  <1>5. DOMAIN parsed' = IF ok THEN DOMAIN parsed \cup {at} ELSE DOMAIN parsed
    BY <1>2
  <1>6. ContentsTypeOK'
    <2>1. unparsed' \in SUBSET Walked /\ at \in Walked
      BY <1>1, <1>2 DEF ContentsInv, ContentsTypeOK, LoopStep
    <2>2. DOMAIN parsed' \in SUBSET Walked
      BY <1>5, <2>1 DEF ContentsInv, ContentsTypeOK
    <2> QED  BY <2>1, <2>2, <1>1, <1>3, LoopKeepsWalk DEF ContentsInv, ContentsTypeOK
  <1>7. IndexInv'
    <2>1. \A f \in indexed' : f \in scan'.indexable /\ ~entries'[f].binary
      BY <1>1, <1>3, LoopKeepsWalk DEF ContentsInv, IndexInv
    <2>2. IndexedBefore(Len(entries) + 1)'
      BY <1>1, <1>3, <1>4, LoopKeepsWalk DEF ContentsInv, IndexInv, IndexedBefore
    <2> QED  BY <2>1, <2>2, <1>1, <1>3, LoopKeepsWalk DEF IndexInv
  <1>8. ParseInv'
    <2>1. \A f \in DOMAIN parsed' : entries'[f].size <= MaxParsedSize
      BY <1>1, <1>4, <1>5, LoopKeepsWalk DEF ContentsInv, ParseInv
    <2>2. \A f \in unparsed' \ misread' : entries'[f].size > MaxParsedSize
      <3>1. entries[at].size \in Nat /\ MaxParsedSize \in Nat
        BY <1>1, LoopKeepsWalk, ContentsAssumption DEF Entry, LoopStep
      <3>2. at \in unparsed' \ misread' => entries[at].size > MaxParsedSize \/ at \in unparsed
        BY <3>1, <1>2, <1>4
      <3> QED  BY <3>2, <1>1, <1>2, <1>4, LoopKeepsWalk DEF ContentsInv, ParseInv
    <2>3. ParsedBefore(at)'
      <3>1. ParsedBefore(at) /\ at \notin DOMAIN parsed /\ at \notin unparsed
        BY <1>1, <1>3, LoopKeepsWalk DEF ContentsInv, ParseInv, ParsedBefore
      <3>2. {f \in Parseable : f < at + 1} = {f \in Parseable : f < at} \cup {at}
        <4>1. \A f \in Parseable : f \in Nat
          BY <1>1, LoopKeepsWalk DEF Parseable
        <4> QED  BY <4>1, <1>3
      <3>3. {f \in Parseable : f < at}' = {f \in Parseable : f < at + 1}
        BY <1>1, <1>3, LoopKeepsWalk
      <3> QED  BY <3>1, <3>2, <3>3, <1>2, <1>5 DEF ParsedBefore
    <2> QED  BY <2>1, <2>2, <2>3, <1>1, <1>3, LoopKeepsWalk DEF ParseInv
  <1>9. ChunkInv'
    BY <1>1, <1>3, LoopKeepsWalk DEF ChunkInv
  <1> QED  BY <1>1, <1>6, <1>7, <1>8, <1>9, LoopKeepsWalk DEF ContentsInv

\* A loop that chunks leaves what was indexed and parsed as it is.
LEMMA ChunkingKeepsTheOthers ==
  ASSUME ContentsInv, LoopStep, task \in {"chunk_source", "chunk_text"},
         UNCHANGED <<indexed, parsed, unparsed>>, misread \subseteq misread',
         DOMAIN chunkedBy' \in SUBSET Walked
  PROVE  ContentsTypeOK' /\ IndexInv' /\ ParseInv'
  <1>1. Parseable' = Parseable
    BY LoopKeepsWalk DEF Parseable, HasAnalyzer
  <1>2. ContentsTypeOK'
    BY LoopKeepsWalk DEF ContentsInv, ContentsTypeOK
  <1>3. IndexInv'
    <2>1. \A f \in indexed' : f \in scan'.indexable /\ ~entries'[f].binary
      BY LoopKeepsWalk DEF ContentsInv, IndexInv
    <2>2. IndexedBefore(Len(entries) + 1)'
      BY LoopKeepsWalk DEF ContentsInv, IndexInv, IndexedBefore
    <2> QED  BY <2>1, <2>2, LoopKeepsWalk DEF IndexInv
  <1>4. ParseInv'
    <2>1. /\ \A f \in DOMAIN parsed' : entries'[f].size <= MaxParsedSize
          /\ \A f \in unparsed' \ misread' : entries'[f].size > MaxParsedSize
      BY LoopKeepsWalk DEF ContentsInv, ParseInv
    <2>2. ParsedBefore(Len(entries) + 1)'
      BY <1>1, LoopKeepsWalk DEF ContentsInv, ParseInv, ParsedBefore
    <2> QED  BY <2>1, <2>2, LoopKeepsWalk DEF ParseInv
  <1> QED  BY <1>2, <1>3, <1>4

LEMMA ChunkOnce ==
  ASSUME NEW f, NEW way \in Ways, NEW ok \in BOOLEAN, f \notin DOMAIN chunkedBy,
         Chunk(f, way, ok),
         \A g \in DOMAIN chunkedBy : chunkedBy[g] \in Seq(Ways) /\ Len(chunkedBy[g]) = 1
  PROVE  /\ DOMAIN chunkedBy' = IF ok THEN DOMAIN chunkedBy \cup {f} ELSE DOMAIN chunkedBy
         /\ \A g \in DOMAIN chunkedBy' : chunkedBy'[g] \in Seq(Ways) /\ Len(chunkedBy'[g]) = 1
  <1>1. CASE ~ok
    BY <1>1 DEF Chunk
  <1>2. CASE ok
    <2> DEFINE D == DOMAIN chunkedBy \cup {f}
    <2>1. chunkedBy' = [g \in D |->
                          (IF g \in DOMAIN chunkedBy THEN chunkedBy[g] ELSE << >>)
                            \o (IF g = f THEN <<way>> ELSE << >>)]
      BY <1>2 DEF Chunk
    <2>2. ASSUME NEW g \in DOMAIN chunkedBy
          PROVE  chunkedBy'[g] \in Seq(Ways) /\ Len(chunkedBy'[g]) = 1
      <3>1. chunkedBy'[g] = chunkedBy[g] \o << >>
        BY <2>1, <2>2
      <3> QED  BY <3>1
    <2>3. chunkedBy'[f] \in Seq(Ways) /\ Len(chunkedBy'[f]) = 1
      <3>1. chunkedBy'[f] = << >> \o <<way>>
        BY <2>1
      <3>2. << >> \o <<way>> = <<way>> /\ <<way>> \in Seq(Ways) /\ Len(<<way>>) = 1
        OBVIOUS
      <3> QED  BY <3>1, <3>2
    <2>4. DOMAIN chunkedBy' = D
      BY <2>1
    <2> QED  BY <1>2, <2>2, <2>3, <2>4
  <1> QED  BY <1>1, <1>2

LEMMA ChunkSourceKeepsInv == ContentsInv /\ ChunkSource => ContentsInv'
  <1> SUFFICES ASSUME ContentsInv, ChunkSource PROVE ContentsInv'
    OBVIOUS
  <1>1. LoopStep
    BY DEF ChunkSource, LoopOver, LoopStep, ContentsInv, ContentsTypeOK
  <1>2. PICK ok \in BOOLEAN : Read(at, MaxParsedSize, ok) /\ Chunk(at, "source", ok)
    BY DEF ChunkSource
  <1>3. /\ indexed' = indexed /\ parsed' = parsed /\ unparsed' = unparsed
        /\ task = "chunk_source" /\ at \in DOMAIN parsed /\ at \in indexed
    BY DEF ChunkSource, LoopOver, ContentsInv, ParseInv, ParsedBefore, Parseable
  <1>4. misread \subseteq misread' /\ (ok \/ at \in misread')
    <2>1. Readable(at, MaxParsedSize)
      BY <1>1, <1>3, LoopKeepsWalk DEF Readable, ContentsInv, ParseInv
    <2> QED  BY <1>2, <2>1, ReadOrMisread
  <1>5. at \notin DOMAIN chunkedBy
    BY <1>1, <1>3, LoopKeepsWalk DEF ContentsInv, ChunkInv
  <1>6. /\ DOMAIN chunkedBy' = IF ok THEN DOMAIN chunkedBy \cup {at} ELSE DOMAIN chunkedBy
        /\ \A g \in DOMAIN chunkedBy' : chunkedBy'[g] \in Seq(Ways) /\ Len(chunkedBy'[g]) = 1
    BY <1>2, <1>5, ChunkOnce DEF Ways, ContentsInv, ChunkInv
  <1>7. DOMAIN chunkedBy' \in SUBSET Walked
    BY <1>1, <1>6 DEF ContentsInv, ContentsTypeOK, LoopStep
  <1>8. ContentsTypeOK' /\ IndexInv' /\ ParseInv'
    BY <1>1, <1>3, <1>4, <1>7, ChunkingKeepsTheOthers
  <1>9. ChunkInv'
    <2>1. \A f \in DOMAIN chunkedBy' : f \in indexed' /\ (f \in DOMAIN parsed' \/ ShouldChunk(f)')
      BY <1>1, <1>3, <1>6, LoopKeepsWalk DEF ContentsInv, ChunkInv, ShouldChunk
    <2>2. SourceChunkedBefore(at)'
      <3>1. \A f \in DOMAIN parsed : f \in Nat
        BY <1>1, LoopKeepsWalk DEF ContentsInv, ContentsTypeOK
      <3>2. SourceChunkedBefore(at)
        BY <1>3 DEF ContentsInv, ChunkInv
      <3> QED  BY <3>1, <3>2, <1>1, <1>3, <1>4, <1>6, LoopKeepsWalk DEF SourceChunkedBefore
    <2>3. DOMAIN chunkedBy' \subseteq {f \in DOMAIN parsed' : f < at'}
      <3>1. \A f \in DOMAIN parsed : f \in Nat
        BY <1>1, LoopKeepsWalk DEF ContentsInv, ContentsTypeOK
      <3>2. DOMAIN chunkedBy \subseteq {f \in DOMAIN parsed : f < at}
        BY <1>3 DEF ContentsInv, ChunkInv
      <3> QED  BY <3>1, <3>2, <1>1, <1>3, <1>6, LoopKeepsWalk
    <2> QED  BY <2>1, <2>2, <2>3, <1>1, <1>3, <1>6, LoopKeepsWalk DEF ChunkInv
  <1> QED  BY <1>1, <1>8, <1>9, LoopKeepsWalk DEF ContentsInv

LEMMA ChunkTextKeepsInv == ContentsInv /\ ChunkText => ContentsInv'
  <1> SUFFICES ASSUME ContentsInv, ChunkText PROVE ContentsInv'
    OBVIOUS
  <1>1. LoopStep
    BY DEF ChunkText, LoopOver, LoopStep, TextFiles, ContentsInv, ContentsTypeOK
  <1>2. PICK ok \in BOOLEAN : Read(at, MaxIndexedSize, ok) /\ Chunk(at, "text", ok)
    BY DEF ChunkText
  <1>3. /\ indexed' = indexed /\ parsed' = parsed /\ unparsed' = unparsed
        /\ task = "chunk_text" /\ at \in indexed /\ ShouldChunk(at) /\ at \notin DOMAIN chunkedBy
    BY DEF ChunkText, LoopOver, TextFiles
  <1>4. misread \subseteq misread' /\ (ok \/ at \in misread')
    <2>1. Readable(at, MaxIndexedSize)
      BY <1>1, <1>3, LoopKeepsWalk DEF Readable
    <2> QED  BY <1>2, <2>1, ReadOrMisread
  <1>5. /\ DOMAIN chunkedBy' = IF ok THEN DOMAIN chunkedBy \cup {at} ELSE DOMAIN chunkedBy
        /\ \A g \in DOMAIN chunkedBy' : chunkedBy'[g] \in Seq(Ways) /\ Len(chunkedBy'[g]) = 1
    BY <1>2, <1>3, ChunkOnce DEF Ways, ContentsInv, ChunkInv
  <1>6. DOMAIN chunkedBy' \in SUBSET Walked
    BY <1>1, <1>5 DEF ContentsInv, ContentsTypeOK, LoopStep
  <1>7. ContentsTypeOK' /\ IndexInv' /\ ParseInv'
    BY <1>1, <1>3, <1>4, <1>6, ChunkingKeepsTheOthers
  <1>8. ChunkInv'
    <2>1. \A f \in DOMAIN chunkedBy' : f \in indexed' /\ (f \in DOMAIN parsed' \/ ShouldChunk(f)')
      BY <1>1, <1>3, <1>5, LoopKeepsWalk DEF ContentsInv, ChunkInv, ShouldChunk
    <2>2. SourceChunkedBefore(Len(entries) + 1)'
      BY <1>1, <1>3, <1>4, <1>5, LoopKeepsWalk DEF ContentsInv, ChunkInv, SourceChunkedBefore
    <2>3. TextChunkedBefore(at)'
      <3>1. \A f \in indexed : f \in Nat
        BY <1>1, LoopKeepsWalk
      <3>2. TextChunkedBefore(at)
        BY <1>3 DEF ContentsInv, ChunkInv
      <3> QED  BY <3>1, <3>2, <1>1, <1>3, <1>4, <1>5, LoopKeepsWalk
               DEF TextChunkedBefore, ShouldChunk
    <2> QED  BY <2>1, <2>2, <2>3, <1>1, <1>3, <1>5, LoopKeepsWalk DEF ChunkInv
  <1> QED  BY <1>1, <1>7, <1>8, LoopKeepsWalk DEF ContentsInv

LEMMA SkipKeepsInv == ContentsInv /\ SkipFile => ContentsInv'
  <1> SUFFICES ASSUME ContentsInv, SkipFile PROVE ContentsInv'
    OBVIOUS
  <1>1. LoopStep
    BY DEF SkipFile, NotInLoop, LoopStep
  <1>2. /\ indexed' = indexed /\ parsed' = parsed /\ unparsed' = unparsed
        /\ chunkedBy' = chunkedBy /\ misread' = misread
    BY DEF SkipFile, NotInLoop
  <1>3. /\ \A f \in scan.indexable : f \in Nat
        /\ \A f \in indexed : f \in Nat
        /\ \A f \in DOMAIN parsed : f \in Nat
        /\ Parseable' = Parseable
    BY <1>1, <1>2, LoopKeepsWalk DEF ContentsInv, ContentsTypeOK, Parseable, HasAnalyzer
  <1>4. ContentsTypeOK'
    BY <1>1, <1>2, LoopKeepsWalk DEF ContentsInv, ContentsTypeOK
  <1>5. IndexInv'
    <2>1. \A f \in indexed' : f \in scan'.indexable /\ ~entries'[f].binary
      BY <1>1, <1>2, LoopKeepsWalk DEF ContentsInv, IndexInv
    <2>2. task = "index" => IndexedBefore(at)'
      <3>1. SUFFICES ASSUME task = "index" PROVE IndexedBefore(at)'
        OBVIOUS
      <3>2. IndexedBefore(at) /\ at \notin scan.indexable
        BY <3>1 DEF SkipFile, NotInLoop, ContentsInv, IndexInv
      <3> QED  BY <3>2, <1>1, <1>2, <1>3, LoopKeepsWalk DEF IndexedBefore
    <2>3. task # "index" => IndexedBefore(Len(entries) + 1)'
      BY <1>1, <1>2, LoopKeepsWalk DEF ContentsInv, IndexInv, IndexedBefore, LoopStep
    <2> QED  BY <2>1, <2>2, <2>3, <1>1, <1>2, LoopKeepsWalk DEF IndexInv, LoopStep
  <1>6. ParseInv'
    <2>1. /\ \A f \in DOMAIN parsed' : entries'[f].size <= MaxParsedSize
          /\ \A f \in unparsed' \ misread' : entries'[f].size > MaxParsedSize
          /\ task = "index" => DOMAIN parsed' = {} /\ unparsed' = {}
      BY <1>1, <1>2, LoopKeepsWalk DEF ContentsInv, ParseInv
    <2>2. task = "parse" => ParsedBefore(at)'
      <3>1. SUFFICES ASSUME task = "parse" PROVE ParsedBefore(at)'
        OBVIOUS
      <3>2. ParsedBefore(at) /\ at \notin Parseable
        BY <3>1 DEF SkipFile, NotInLoop, ContentsInv, ParseInv
      <3>3. \A f \in Parseable : f \in Nat
        BY <1>3 DEF Parseable
      <3>4. {f \in Parseable : f < at}' = {f \in Parseable : f < at}
        BY <3>2, <3>3, <1>1, <1>3, LoopKeepsWalk
      <3> QED  BY <3>2, <3>4, <1>2 DEF ParsedBefore
    <2>3. task \in {"chunk_source", "chunk_text"} => ParsedBefore(Len(entries) + 1)'
      BY <1>1, <1>2, <1>3, LoopKeepsWalk DEF ContentsInv, ParseInv, ParsedBefore
    <2> QED  BY <2>1, <2>2, <2>3, <1>1, <1>2, LoopKeepsWalk DEF ParseInv, LoopStep
  <1>7. ChunkInv'
    <2>1. \A f \in DOMAIN chunkedBy' :
            /\ f \in indexed' /\ (f \in DOMAIN parsed' \/ ShouldChunk(f)')
            /\ chunkedBy'[f] \in Seq(Ways) /\ Len(chunkedBy'[f]) = 1
      BY <1>1, <1>2, LoopKeepsWalk DEF ContentsInv, ChunkInv, ShouldChunk
    <2>2. task = "chunk_source" =>
            /\ SourceChunkedBefore(at)'
            /\ DOMAIN chunkedBy' \subseteq {f \in DOMAIN parsed' : f < at'}
      <3>1. SUFFICES ASSUME task = "chunk_source"
                     PROVE  /\ SourceChunkedBefore(at)'
                            /\ DOMAIN chunkedBy' \subseteq {f \in DOMAIN parsed' : f < at'}
        OBVIOUS
      <3>2. /\ SourceChunkedBefore(at) /\ at \notin DOMAIN parsed
            /\ DOMAIN chunkedBy \subseteq {f \in DOMAIN parsed : f < at}
        BY <3>1 DEF SkipFile, NotInLoop, ContentsInv, ChunkInv
      <3> QED  BY <3>2, <1>1, <1>2, <1>3, LoopKeepsWalk DEF SourceChunkedBefore
    <2>3. task = "chunk_text" => SourceChunkedBefore(Len(entries) + 1)' /\ TextChunkedBefore(at)'
      <3>1. SUFFICES ASSUME task = "chunk_text"
                     PROVE  SourceChunkedBefore(Len(entries) + 1)' /\ TextChunkedBefore(at)'
        OBVIOUS
      <3>2. /\ SourceChunkedBefore(Len(entries) + 1) /\ TextChunkedBefore(at)
            /\ at \notin TextFiles
        BY <3>1 DEF SkipFile, NotInLoop, ContentsInv, ChunkInv
      <3>3. SourceChunkedBefore(Len(entries) + 1)'
        BY <3>2, <1>1, <1>2, LoopKeepsWalk DEF SourceChunkedBefore
      <3> QED  BY <3>2, <3>3, <1>1, <1>2, <1>3, LoopKeepsWalk
               DEF TextChunkedBefore, ShouldChunk, TextFiles
    <2> QED  BY <2>1, <2>2, <2>3, <1>1, <1>2, LoopKeepsWalk
             DEF ContentsInv, ChunkInv, LoopStep
  <1> QED  BY <1>1, <1>4, <1>5, <1>6, <1>7, LoopKeepsWalk DEF ContentsInv

-----------------------------------------------------------------------------
(* The stages.                                                             *)

LEMMA StageKeepsInv == ContentsInv /\ (NextStage \/ Cancel) => ContentsInv'
  <1> SUFFICES ASSUME ContentsInv, NextStage \/ Cancel PROVE ContentsInv'
    OBVIOUS
  <1>1. /\ entries' = entries /\ scan' = scan /\ indexed' = indexed /\ parsed' = parsed
        /\ unparsed' = unparsed /\ chunkedBy' = chunkedBy /\ misread' = misread
    BY DEF NextStage, Cancel
  <1>2. /\ \/ task = "walk" /\ task' = "index"
           \/ task = "index" /\ task' = "parse"
           \/ task = "parse" /\ task' \in {"chunk_source", "stored"}
           \/ task = "chunk_source" /\ task' = "chunk_text"
           \/ task = "chunk_text" /\ task' = "searchable"
           \/ task \in {"index", "parse"} /\ task' = "cancelled"
        /\ task' # "cancelled" => at = Len(entries) + 1 /\ at' = 1
        /\ task' = "cancelled" => at' = at
    <2>1. CASE NextStage
      <3>1. at = Len(entries) + 1
        BY <2>1, WalkedInOrder DEF NextStage, ContentsInv, ContentsTypeOK
      <3> QED  BY <2>1, <3>1 DEF NextStage, Following
    <2>2. CASE Cancel
      BY <2>2 DEF Cancel
    <2> QED  BY <2>1, <2>2
  <1>3. /\ Walked' = Walked /\ Scans' = Scans /\ Parseable' = Parseable
        /\ Len(entries) \in Nat
        /\ \A f \in Walked : f \in Nat /\ ~(f < 1)
    BY <1>1, WalkedInOrder
       DEF Walked, Scans, Parseable, HasAnalyzer, ContentsInv, ContentsTypeOK
  <1>4. /\ \A f \in indexed : f \in Walked
        /\ \A f \in DOMAIN parsed : f \in Walked
        /\ \A f \in scan.indexable : f \in Walked
    BY DEF ContentsInv, ContentsTypeOK, Scans
  <1>5. ContentsTypeOK'
    BY <1>1, <1>2, <1>3 DEF ContentsInv, ContentsTypeOK, Tasks
  <1>6. WalkInv'
    <2>1. CountedBefore(Len(entries) + 1)
      BY <1>2 DEF ContentsInv, WalkInv
    <2>2. CountedBefore(Len(entries) + 1)' <=> CountedBefore(Len(entries) + 1)
      BY <1>1, <1>3
         DEF CountedBefore, Counts, KeptBefore, OthersBefore, Before, Kept, IsPruned
    <2> QED  BY <1>2, <2>1, <2>2 DEF WalkInv
  <1>7. IndexInv'
    <2>1. \A f \in indexed' : f \in scan'.indexable /\ ~entries'[f].binary
      BY <1>1 DEF ContentsInv, IndexInv
    <2>2. task' = "index" => IndexedBefore(at)'
      BY <1>1, <1>2, <1>3, <1>4 DEF IndexedBefore
    <2>3. task' \in {"parse", "chunk_source", "chunk_text", "stored", "searchable"} =>
            IndexedBefore(Len(entries) + 1)'
      <3>1. IndexedBefore(Len(entries) + 1)' <=> IndexedBefore(Len(entries) + 1)
        BY <1>1 DEF IndexedBefore
      <3> QED  BY <3>1, <1>2 DEF ContentsInv, IndexInv
    <2> QED  BY <2>1, <2>2, <2>3, <1>2 DEF IndexInv
  <1>8. ParseInv'
    <2>1. /\ \A f \in DOMAIN parsed' : entries'[f].size <= MaxParsedSize
          /\ \A f \in unparsed' \ misread' : entries'[f].size > MaxParsedSize
      BY <1>1 DEF ContentsInv, ParseInv
    <2>2. task' \in {"index", "parse"} => DOMAIN parsed' = {} /\ unparsed' = {}
      BY <1>1, <1>2 DEF ContentsInv, ParseInv
    <2>3. task' = "parse" => ParsedBefore(at)'
      <3>1. SUFFICES ASSUME task' = "parse" PROVE ParsedBefore(at)'
        OBVIOUS
      <3>2. {f \in Parseable : f < at}' = {}
        BY <3>1, <1>1, <1>2, <1>3, <1>4 DEF Parseable
      <3> QED  BY <3>1, <3>2, <2>2 DEF ParsedBefore
    <2>4. task' \in {"chunk_source", "chunk_text", "stored", "searchable"} =>
            ParsedBefore(Len(entries) + 1)'
      <3>1. ParsedBefore(Len(entries) + 1)' <=> ParsedBefore(Len(entries) + 1)
        BY <1>1, <1>3 DEF ParsedBefore
      <3> QED  BY <3>1, <1>2 DEF ContentsInv, ParseInv
    <2> QED  BY <2>1, <2>2, <2>3, <2>4, <1>2 DEF ParseInv
  <1>9. ChunkInv'
    <2>1. \A f \in DOMAIN chunkedBy' :
            /\ f \in indexed' /\ (f \in DOMAIN parsed' \/ ShouldChunk(f)')
            /\ chunkedBy'[f] \in Seq(Ways) /\ Len(chunkedBy'[f]) = 1
      BY <1>1 DEF ContentsInv, ChunkInv, ShouldChunk
    <2>2. task' \in {"index", "parse", "chunk_source", "stored"} => DOMAIN chunkedBy' = {}
      BY <1>1, <1>2 DEF ContentsInv, ChunkInv
    <2>3. task' = "chunk_source" => SourceChunkedBefore(at)'
      BY <1>1, <1>2, <1>3, <1>4 DEF SourceChunkedBefore
    <2>4. SourceChunkedBefore(Len(entries) + 1)' <=> SourceChunkedBefore(Len(entries) + 1)
      BY <1>1 DEF SourceChunkedBefore
    <2>5. task' = "chunk_text" => SourceChunkedBefore(Len(entries) + 1)' /\ TextChunkedBefore(at)'
      <3>1. task' = "chunk_text" => TextChunkedBefore(at)'
        BY <1>1, <1>2, <1>3, <1>4 DEF TextChunkedBefore
      <3> QED  BY <3>1, <2>4, <1>2 DEF ContentsInv, ChunkInv
    <2>6. task' = "searchable" =>
            SourceChunkedBefore(Len(entries) + 1)' /\ TextChunkedBefore(Len(entries) + 1)'
      <3>1. TextChunkedBefore(Len(entries) + 1)' <=> TextChunkedBefore(Len(entries) + 1)
        BY <1>1 DEF TextChunkedBefore, ShouldChunk
      <3> QED  BY <3>1, <2>4, <1>2 DEF ContentsInv, ChunkInv
    <2> QED  BY <2>1, <2>2, <2>3, <2>5, <2>6, <1>2 DEF ChunkInv
  <1> QED  BY <1>5, <1>6, <1>7, <1>8, <1>9 DEF ContentsInv

LEMMA StutterKeepsInv == ContentsInv /\ UNCHANGED contentsVars => ContentsInv'
  BY DEF contentsVars, ContentsInv, ContentsTypeOK, WalkInv, IndexInv, ParseInv, ChunkInv,
         CountedBefore, Counts, KeptBefore, OthersBefore, Before, Kept, IsPruned, Walked, Scans,
         IndexedBefore, ParsedBefore, Parseable, HasAnalyzer, SourceChunkedBefore,
         TextChunkedBefore, ShouldChunk

-----------------------------------------------------------------------------
(* The theorems.                                                           *)

\* The invariant implies the property at the end of each stage.
LEMMA InvAddsUp == ContentsInv => ContentsAddUp
  <1> SUFFICES ASSUME ContentsInv PROVE ContentsAddUp
    OBVIOUS
  <1> DEFINE kept == {f \in Walked : Kept(f)}
             others == {f \in Walked : ~IsPruned(f) /\ entries[f].type # "file"}
  <1>1. /\ KeptBefore(Len(entries) + 1) = kept /\ OthersBefore(Len(entries) + 1) = others
        /\ \A f \in Walked : f \in Nat /\ f < Len(entries) + 1 /\ entries[f] \in Entry
        /\ Len(entries) \in Nat
        /\ MaxFiles \in Nat /\ Cardinality(kept) \in Nat
    <2>1. IsFiniteSet(kept)
      BY WalkedInOrder, FS_Subset DEF ContentsInv
    <2> QED  BY <2>1, AllBeforeTheEnd, WalkedInOrder, FS_CardinalityType, ContentsAssumption
             DEF ContentsInv
  <1>2. task \notin {"walk", "limit"} => CountedBefore(Len(entries) + 1)
    BY DEF ContentsInv, WalkInv
  <1>3. /\ \A f \in scan.indexable : f \in Walked
        /\ \A f \in indexed : f \in scan.indexable /\ ~entries[f].binary
    BY DEF ContentsInv, ContentsTypeOK, Scans, IndexInv
  <1> HIDE DEF kept, others
  <1>4. task = "limit" <=> task # "walk" /\ Cardinality(kept) > MaxFiles
    <2>1. task = "limit" => Cardinality(kept) > MaxFiles
      BY DEF ContentsInv, WalkInv, kept
    <2>2. task \notin {"walk", "limit"} => Cardinality(kept) <= MaxFiles
      <3>1. SUFFICES ASSUME task \notin {"walk", "limit"} PROVE Cardinality(kept) <= MaxFiles
        OBVIOUS
      <3>2. scan.total = Cardinality(KeptBefore(Len(entries) + 1)) /\ scan.total <= MaxFiles
        BY <3>1, <1>2 DEF CountedBefore, Counts
      <3>3. Cardinality(KeptBefore(Len(entries) + 1)) = Cardinality(kept)
        BY <1>1
      <3> QED  BY <3>2, <3>3
    <2> QED  BY <2>1, <2>2, <1>1
  <1>5. task \notin {"walk", "limit"} =>
          /\ scan.paths = kept /\ scan.total = Cardinality(scan.paths)
          /\ Cardinality(scan.paths) = Cardinality(scan.indexable)
                                         + scan.skipped["too_large"] + scan.skipped["path_too_long"]
          /\ scan.skipped["unreadable"] + scan.skipped["not_regular_file"] = Cardinality(others)
    <2> SUFFICES ASSUME task \notin {"walk", "limit"}
                 PROVE  /\ scan.paths = kept /\ scan.total = Cardinality(scan.paths)
                        /\ Cardinality(scan.paths) = Cardinality(scan.indexable)
                             + scan.skipped["too_large"] + scan.skipped["path_too_long"]
                        /\ scan.skipped["unreadable"] + scan.skipped["not_regular_file"]
                             = Cardinality(others)
      OBVIOUS
    <2>1. Counts(scan, Len(entries) + 1)
      BY <1>2 DEF CountedBefore
    <2>2. /\ scan.paths = KeptBefore(Len(entries) + 1)
          /\ scan.total = Cardinality(KeptBefore(Len(entries) + 1))
          /\ scan.total = Cardinality(scan.indexable)
                            + scan.skipped["too_large"] + scan.skipped["path_too_long"]
          /\ scan.skipped["unreadable"] + scan.skipped["not_regular_file"]
               = Cardinality(OthersBefore(Len(entries) + 1))
      BY <2>1 DEF Counts
    <2>3. /\ Cardinality(KeptBefore(Len(entries) + 1)) = Cardinality(scan.paths)
          /\ Cardinality(OthersBefore(Len(entries) + 1)) = Cardinality(others)
      BY <1>1, <2>2
    <2> QED  BY <1>1, <2>2, <2>3
  <1>6. \A f \in indexed : Kept(f) /\ ~entries[f].binary /\ ~entries[f].long
                             /\ entries[f].size <= MaxIndexedSize
    <2>1. indexed # {} => task \notin {"walk", "limit"}
      BY DEF ContentsInv, IndexInv
    <2> QED  BY <2>1, <1>2, <1>3 DEF CountedBefore, Counts, KeptBefore
  <1>7. \A f \in DOMAIN chunkedBy : f \in indexed /\ Len(chunkedBy[f]) = 1
    BY DEF ContentsInv, ChunkInv
  <1>8. task \in {"stored", "searchable"} =>
          DOMAIN parsed \cap unparsed = {} /\ DOMAIN parsed \cup unparsed = Parseable
    <2>1. {f \in Parseable : f < Len(entries) + 1} = Parseable
      BY <1>1, <1>3 DEF Parseable
    <2> QED  BY <2>1 DEF ContentsInv, ParseInv, ParsedBefore
  <1>9. ASSUME task \in {"stored", "searchable"}, NEW f \in scan.indexable \ misread
        PROVE  /\ f \in indexed \/ entries[f].binary
               /\ f \in unparsed => entries[f].size > MaxParsedSize
               /\ task = "searchable" /\ f \in indexed =>
                    (f \in DOMAIN chunkedBy <=> f \in DOMAIN parsed \/ ShouldChunk(f))
    <2>1. f < Len(entries) + 1
      BY <1>1, <1>3
    <2>2. f \in indexed \/ entries[f].binary
      BY <1>9, <2>1 DEF ContentsInv, IndexInv, IndexedBefore
    <2>3. f \in unparsed => entries[f].size > MaxParsedSize
      BY DEF ContentsInv, ParseInv
    <2>4. task = "searchable" /\ f \in indexed =>
            (f \in DOMAIN chunkedBy <=> f \in DOMAIN parsed \/ ShouldChunk(f))
      BY <2>1 DEF ContentsInv, ChunkInv, SourceChunkedBefore, TextChunkedBefore
    <2> QED  BY <2>2, <2>3, <2>4
  <1> QED  BY <1>4, <1>5, <1>6, <1>7, <1>8, <1>9 DEF ContentsAddUp, kept, others

LEMMA ContentsInductive == ContentsSpec => []ContentsInv
  <1>1. ContentsInit => ContentsInv
    BY StartsInv
  <1>2. ContentsInv /\ [ContentsNext]_contentsVars => ContentsInv'
    BY WalkKeepsInv, IndexKeepsInv, AnalyzeKeepsInv, ChunkSourceKeepsInv, ChunkTextKeepsInv,
       SkipKeepsInv, StageKeepsInv, StutterKeepsInv DEF ContentsNext
  <1> QED  BY <1>1, <1>2, PTL DEF ContentsSpec

\* What is stored of a checkout adds up, whatever the tree, the limits and the
\* reads that fail: every regular file is counted and has a row or a reason,
\* the limit stops only a repository above it, and no file is parsed and
\* skipped, or chunked twice (scanner.py:91-138, indexer.py:176-303).
THEOREM StoredContentsAddUp == ContentsSpec => []ContentsAddUp
  BY ContentsInductive, InvAddsUp, PTL

-----------------------------------------------------------------------------
(* The statements of the operations.                                       *)

LEMMA OpsAre ==
  ReadOps = {"files", "content", "detail", "symbols", "search", "relations",
             "relationsOf", "relationsWith"}
BY DEF ReadOps, Statements

LEMMA StatementsAre ==
  /\ Statements["files"] = <<"repository", "count", "items">>
  /\ Statements["content"] = <<"repository", "indexed_file", "file">>
  /\ Statements["detail"] =
       <<"repository", "code_file", "edges", "paths", "symbols", "imports">>
  /\ Statements["symbols"] = <<"repository", "code_file", "symbols">>
  /\ Statements["search"] = <<"repository", "count", "items">>
  /\ Statements["relations"] = <<"repository", "count", "edges", "paths", "references">>
  /\ Statements["relationsOf"] =
       <<"repository", "code_file", "count", "edges", "paths", "references">>
  /\ Statements["relationsWith"] =
       <<"repository", "symbol", "count", "edges", "paths", "references">>
BY DEF Statements, ListFiles, FileContent, FileDetail, FileSymbols, SearchSymbols,
   ListRelationships, RelationshipsOf

LEMMA Lengths ==
  /\ \A op \in ReadOps : Len(Statements[op]) \in 3..6
  /\ Len(Statements["content"]) = 3
<1>1. ASSUME NEW op \in ReadOps PROVE Len(Statements[op]) \in 3..6
  <2>1. Len(Statements["files"]) = 3
    BY StatementsAre
  <2>2. Len(Statements["content"]) = 3
    BY StatementsAre
  <2>3. Len(Statements["detail"]) = 6
    BY StatementsAre
  <2>4. Len(Statements["symbols"]) = 3
    BY StatementsAre
  <2>5. Len(Statements["search"]) = 3
    BY StatementsAre
  <2>6. Len(Statements["relations"]) = 5
    BY StatementsAre
  <2>7. Len(Statements["relationsOf"]) = 6
    BY StatementsAre
  <2>8. Len(Statements["relationsWith"]) = 6
    BY StatementsAre
  <2>9. \E n \in {3, 5, 6} : Len(Statements[op]) = n
    BY <2>1, <2>2, <2>3, <2>4, <2>5, <2>6, <2>7, <2>8, OpsAre, Zenon
  <2>10. {3, 5, 6} \subseteq 3..6
    OBVIOUS
  <2> QED
    BY <2>9, <2>10, Zenon
<1>2. Len(Statements["content"]) = 3
  BY StatementsAre
<1> QED
  BY <1>1, <1>2

\* Operations whose rows are selected by the id of a file or a symbol.
ById == {"detail", "relationsOf", "relationsWith"}
\* Statements whose results an answer shows together.
Shown == {"code_file", "symbol", "items", "edges", "paths", "references", "symbols", "imports"}

\* Where the statements stand: an id is set before it is used, and again
\* only before anything is shown.
LEMMA Order ==
  ASSUME NEW op \in ReadOps, NEW i \in 1..Len(Statements[op])
  PROVE  LET statement == Statements[op][i] IN
         /\ statement = "repository" <=> i = 1
         /\ statement \in {"code_file", "symbol", "indexed_file"} => i = 2
         /\ statement \in {"indexed_file", "file"} => op = "content"
         /\ statement = "file" => i = 3
         /\ statement \in {"paths", "references", "symbols", "imports"} => i >= 3
         /\ op \in ById /\ statement \in {"count", "items", "edges"} => i >= 3
         /\ op \notin ById /\ statement \in {"count", "items", "edges"} =>
              \A k \in 1..(i - 1) : Statements[op][k] \notin Shown
         /\ op = "content" => Statements[op][2] = "indexed_file" /\ Statements[op][3] = "file"
<1>1. CASE op = "files"
  BY <1>1, StatementsAre DEF ById, Shown
<1>2. CASE op = "content"
  BY <1>2, StatementsAre DEF ById, Shown
<1>3. CASE op = "detail"
  BY <1>3, StatementsAre DEF ById, Shown
<1>4. CASE op = "symbols"
  BY <1>4, StatementsAre DEF ById, Shown
<1>5. CASE op = "search"
  BY <1>5, StatementsAre DEF ById, Shown
<1>6. CASE op = "relations"
  BY <1>6, StatementsAre DEF ById, Shown
<1>7. CASE op = "relationsOf"
  BY <1>7, StatementsAre DEF ById, Shown
<1>8. CASE op = "relationsWith"
  BY <1>8, StatementsAre DEF ById, Shown
<1> QED
  BY <1>1, <1>2, <1>3, <1>4, <1>5, <1>6, <1>7, <1>8, OpsAre

-----------------------------------------------------------------------------
(* The inductive invariant.                                                *)

Answers == {"none", "unparsed", "ok", "not_found", "repository_not_indexed", "file_not_found",
            "file_not_viewable", "file_not_analyzed", "symbol_not_found"}

RunNumbers == 0..MaxRuns
ReadType == [op : ReadOps, next : 1..7, found : Seq(RunNumbers), id : 0..MaxRuns,
             disturbed : BOOLEAN, answer : Answers]

\* The checkout is never older than the rows, and the last run is the newest.
DiskInv ==
  /\ tables \in [registered : BOOLEAN, run : 0..MaxRuns]
  /\ indexedIn \subseteq Runs /\ parsedIn \subseteq indexedIn
  /\ checkout \in [run : 0..MaxRuns, whole : BOOLEAN]
  /\ writer \in {"idle", "install", "move", "complete", "deleted"}
  /\ runs \in 0..MaxRuns
  /\ tables.run <= runs /\ checkout.run <= runs
  /\ checkout.run = 0 \/ checkout.run >= tables.run
  /\ writer = "complete" => checkout.run = runs

\* A read that goes on has executed the statements before the next one.
ProgressInv ==
  read = NoRead \/
    /\ read \in ReadType
    /\ Len(read.found) = read.next - 1
    /\ read.next <= LastStatement + 1
    /\ read.answer = "none" => read.next <= LastStatement
    /\ read.answer = "ok" => read.next = LastStatement + 1
    /\ read.answer = "unparsed" => read.op # "content"
    /\ read.next <= 2 => read.id \in Runs

\* What is shown together has been found in the rows of the same id.
OneRunInv ==
  read # NoRead /\ read.op # "content" =>
    \A i \in 1..Len(read.found) :
      Statements[read.op][i] \in Shown => read.found[i] \in {0, read.id}

\* Until rows are committed everything found is of the present run.
UndisturbedInv ==
  read # NoRead /\ ~read.disturbed =>
    /\ \A i \in 1..Len(read.found) :
         Statements[read.op][i] # "file" => read.found[i] = tables.run
    /\ read.next >= 3 => read.id = tables.run
    /\ read.answer = "unparsed" => tables.run \notin parsedIn
    /\ read.answer = "not_found" => ~tables.registered
    /\ read.answer = "file_not_found" => tables.run \notin indexedIn
    /\ read.answer = "file_not_analyzed" => tables.run \in indexedIn \ parsedIn
    /\ read.answer = "symbol_not_found" => read.id # tables.run

\* The files that can still be read are not older than the row found.
ContentInv ==
  read # NoRead /\ read.op = "content" /\ Len(read.found) >= 2 =>
    /\ read.found[2] <= runs
    /\ Len(read.found) = 2 => checkout.run = 0 \/ checkout.run >= read.found[2]
    /\ Len(read.found) = 3 => read.found[3] >= read.found[2]

ReadsInv == DiskInv /\ ProgressInv /\ OneRunInv /\ UndisturbedInv /\ ContentInv

LEMMA ReadIsTyped ==
  ASSUME NEW r \in ReadType
  PROVE  /\ r.op \in ReadOps /\ r.next \in 1..7 /\ r.found \in Seq(RunNumbers)
         /\ r.id \in 0..MaxRuns /\ r.disturbed \in BOOLEAN /\ r.answer \in Answers
         /\ Len(r.found) \in Nat
<1>1. r.found \in Seq(RunNumbers)
  BY DEF ReadType
<1>2. Len(r.found) \in Nat
  BY <1>1
<1> QED
  BY <1>1, <1>2 DEF ReadType

LEMMA NoReadIsNone == \A r \in ReadType : r # NoRead
BY DEF ReadType, NoRead

LEMMA InitReadsInv == ReadsInit => ReadsInv
BY ReadsAssumption DEF ReadsInit, ReadsInv, DiskInv, ProgressInv, OneRunInv, UndisturbedInv,
   ContentInv, Absent, Runs

-----------------------------------------------------------------------------
(* Steps of the writer.                                                    *)

LEMMA WriterKeeps ==
  ASSUME ReadsInv, UNCHANGED <<indexedIn, parsedIn>>, DiskInv', runs' >= runs,
         \/ /\ UNCHANGED <<tables, read>>
         \/ Commit(tables'),
         checkout'.run \in {0, checkout.run, runs'}
  PROVE  ReadsInv'
<1> USE DEF ReadsInv
<1>1. CASE read = NoRead
  <2>1. read' = NoRead
    BY <1>1 DEF Commit
  <2> QED
    BY <2>1 DEF ProgressInv, OneRunInv, UndisturbedInv, ContentInv
<1>2. CASE read # NoRead
  <2>1. read \in ReadType
    BY <1>2 DEF ProgressInv
  <2>2. /\ read' \in ReadType /\ read'.op = read.op /\ read'.next = read.next
        /\ read'.found = read.found /\ read'.id = read.id /\ read'.answer = read.answer
        /\ read'.disturbed \/ (read' = read /\ tables' = tables)
    BY <1>2, <2>1 DEF Commit, ReadType
  <2>3. ProgressInv'
    BY <1>2, <2>2 DEF ProgressInv, LastStatement
  <2>4. OneRunInv'
    BY <1>2, <2>2 DEF OneRunInv
  <2>5. UndisturbedInv'
    BY <1>2, <2>2 DEF UndisturbedInv
  <2>6. ContentInv'
    <3>1. ASSUME read.op = "content", Len(read.found) >= 2
          PROVE  /\ read.found[2] \in RunNumbers /\ read.found[2] <= runs
                 /\ Len(read.found) = 2 => checkout.run = 0 \/ checkout.run >= read.found[2]
                 /\ Len(read.found) = 3 => read.found[3] >= read.found[2]
      <4>1. read.found \in Seq(RunNumbers) /\ Len(read.found) \in Nat
        BY <2>1, ReadIsTyped
      <4>2. read.found[2] \in RunNumbers
        BY <3>1, <4>1
      <4> QED
        BY <1>2, <3>1, <4>2 DEF ContentInv
    <3>2. runs \in Nat /\ runs' \in Nat /\ checkout.run \in Nat /\ checkout'.run \in Nat
      BY ReadsAssumption DEF DiskInv
    <3> QED
      BY <2>2, <3>1, <3>2 DEF ContentInv, RunNumbers
  <2> QED
    BY <2>3, <2>4, <2>5, <2>6
<1> QED
  BY <1>1, <1>2

\* Each of them leaves the checkout newer than the rows.
LEMMA WriterStepKeeps ==
  ASSUME ReadsInv,
         \/ RunBegins \/ RemoveCheckoutOfLastRun \/ MoveCheckout \/ Complete
         \/ RunFails \/ DeleteRows \/ RemoveFiles
  PROVE  ReadsInv'
<1> USE DEF ReadsInv
<1>1. /\ runs \in Nat /\ tables.run \in Nat /\ checkout.run \in Nat /\ MaxRuns \in Nat
      /\ tables.run <= runs /\ checkout.run <= runs /\ runs <= MaxRuns
  BY ReadsAssumption DEF DiskInv
<1>2. CASE RunBegins
  <2>1. DiskInv'
    BY <1>1, <1>2 DEF RunBegins, DiskInv
  <2> QED
    BY <1>1, <1>2, <2>1, WriterKeeps DEF RunBegins
<1>3. CASE RemoveCheckoutOfLastRun
  <2>1. DiskInv'
    BY <1>1, <1>3 DEF RemoveCheckoutOfLastRun, DiskInv, Absent
  <2> QED
    BY <1>1, <1>3, <2>1, WriterKeeps DEF RemoveCheckoutOfLastRun, Absent
<1>4. CASE MoveCheckout
  <2>1. DiskInv'
    BY <1>1, <1>4 DEF MoveCheckout, DiskInv
  <2> QED
    BY <1>1, <1>4, <2>1, WriterKeeps DEF MoveCheckout
<1>5. CASE Complete
  <2>1. /\ tables' = [tables EXCEPT !.run = runs] /\ checkout' = checkout /\ runs' = runs
        /\ checkout.run = runs /\ writer' = "idle" /\ UNCHANGED <<indexedIn, parsedIn>>
    BY <1>5 DEF Complete, Commit, DiskInv
  <2>2. DiskInv'
    BY <1>1, <2>1 DEF DiskInv
  <2>3. Commit(tables')
    BY <1>5 DEF Complete, Commit
  <2> QED
    BY <1>1, <2>1, <2>2, <2>3, WriterKeeps
<1>6. CASE RunFails
  <2>1. DiskInv'
    BY <1>1, <1>6 DEF RunFails, DiskInv
  <2> QED
    BY <1>1, <1>6, <2>1, WriterKeeps DEF RunFails
<1>7. CASE DeleteRows
  <2>1. /\ tables' = [registered |-> FALSE, run |-> 0] /\ checkout' = checkout /\ runs' = runs
        /\ writer' = "deleted" /\ UNCHANGED <<indexedIn, parsedIn>>
    BY <1>7 DEF DeleteRows, Commit
  <2>2. DiskInv'
    BY <1>1, <2>1 DEF DiskInv
  <2>3. Commit(tables')
    BY <1>7 DEF DeleteRows, Commit
  <2> QED
    BY <1>1, <2>1, <2>2, <2>3, WriterKeeps
<1>8. CASE RemoveFiles
  <2>1. /\ checkout' \in [run : 0..MaxRuns, whole : BOOLEAN]
        /\ checkout'.run \in {0, checkout.run}
        /\ UNCHANGED <<tables, indexedIn, parsedIn, writer, runs, read>>
        /\ writer = "deleted"
    <3>1. Absent \in [run : 0..MaxRuns, whole : BOOLEAN] /\ Absent.run = 0
      BY <1>1 DEF Absent
    <3>2. /\ [checkout EXCEPT !.whole = FALSE] \in [run : 0..MaxRuns, whole : BOOLEAN]
          /\ [checkout EXCEPT !.whole = FALSE].run = checkout.run
      BY DEF DiskInv
    <3> QED
      BY <1>8, <3>1, <3>2 DEF RemoveFiles
  <2>2. DiskInv'
    BY <1>1, <2>1 DEF DiskInv
  <2> QED
    BY <1>1, <2>1, <2>2, WriterKeeps
<1> QED
  BY <1>2, <1>3, <1>4, <1>5, <1>6, <1>7, <1>8

-----------------------------------------------------------------------------
(* Steps of the reader.                                                    *)

\* An answer without further rows.
LEMMA RespondKeeps ==
  ASSUME ReadsInv, read # NoRead, NEW code \in Answers, code \notin {"none", "ok"},
         read' = [read EXCEPT !.answer = code],
         UNCHANGED <<tables, indexedIn, parsedIn, diskVars>>,
         code = "unparsed" => read.op # "content",
         ~read.disturbed =>
           /\ code = "unparsed" => tables.run \notin parsedIn
           /\ code = "not_found" => ~tables.registered
           /\ code = "file_not_found" => tables.run \notin indexedIn
           /\ code = "file_not_analyzed" => tables.run \in indexedIn \ parsedIn
           /\ code = "symbol_not_found" => read.id # tables.run
  PROVE  ReadsInv'
<1> USE DEF ReadsInv
<1>1. /\ read \in ReadType /\ read' \in ReadType /\ read'.op = read.op /\ read'.next = read.next
      /\ read'.found = read.found /\ read'.id = read.id /\ read'.answer = code
      /\ read'.disturbed = read.disturbed /\ read' # NoRead
  BY NoReadIsNone DEF ProgressInv, ReadType
<1>2. UNCHANGED <<tables, indexedIn, parsedIn, checkout, writer, runs>>
  BY DEF diskVars
<1>3. DiskInv'
  BY <1>2 DEF DiskInv
<1>4. ProgressInv'
  BY <1>1 DEF ProgressInv, LastStatement
<1>5. OneRunInv'
  BY <1>1 DEF OneRunInv
<1>6. UndisturbedInv'
  BY <1>1, <1>2 DEF UndisturbedInv
<1>7. ContentInv'
  BY <1>1, <1>2 DEF ContentInv
<1> QED
  BY <1>3, <1>4, <1>5, <1>6, <1>7

\* Rows that fit what was found before.
LEMMA FoundKeeps ==
  ASSUME ReadsInv, read # NoRead, read.answer = "none",
         NEW run \in 0..MaxRuns, NEW id \in 0..MaxRuns, Found(run, id),
         read.next = 1 => id = read.id,
         Statement \in Shown /\ read.op # "content" => run \in {0, id},
         \/ id = read.id
         \/ \A k \in 1..(read.next - 1) : Statements[read.op][k] \notin Shown,
         ~read.disturbed /\ Statement # "file" => run = tables.run,
         ~read.disturbed /\ read.next >= 2 => id = tables.run,
         read.op = "content" /\ read.next = 2 => run = tables.run,
         read.op = "content" /\ read.next = 3 => run = checkout.run /\ run # 0
  PROVE  ReadsInv'
<1> USE DEF ReadsInv
<1>1. /\ read \in ReadType /\ Len(read.found) = read.next - 1 /\ read.next \in 1..LastStatement
      /\ LastStatement = Len(Statements[read.op]) /\ LastStatement \in 3..6
  <2>1. read \in ReadType /\ Len(read.found) = read.next - 1 /\ read.next <= LastStatement
    BY DEF ProgressInv
  <2>2. Len(Statements[read.op]) \in 3..6
    BY <2>1, Lengths DEF ReadType
  <2> QED
    BY <2>1, <2>2 DEF LastStatement, ReadType
<1> DEFINE n == read.next
<1>a. n \in 1..6 /\ n \in Nat /\ LastStatement \in Nat /\ n <= LastStatement
  <2>1. PICK last \in 3..6 : last = LastStatement
    BY <1>1
  <2>2. n \in 1..last
    BY <1>1, <2>1
  <2> HIDE DEF n
  <2>3. n \in 1..6 /\ n \in Nat /\ last \in Nat /\ n <= last
    BY <2>1, <2>2
  <2> QED
    BY <2>1, <2>3
<1>b. read.found \in Seq(RunNumbers) /\ run \in RunNumbers
  BY <1>1, ReadIsTyped DEF RunNumbers
<1>2. /\ read'.found = Append(read.found, run) /\ read'.id = id /\ read'.next = n + 1
      /\ read'.answer = IF n = LastStatement THEN "ok" ELSE "none"
      /\ read'.op = read.op /\ read'.disturbed = read.disturbed
      /\ read' \in ReadType
  <2>1. /\ read.found \in Seq(RunNumbers) /\ Append(read.found, run) \in Seq(RunNumbers)
        /\ n + 1 \in 1..7
    <3> HIDE DEF n
    <3> QED
      BY <1>a, <1>b
  <2>2. read' = [read EXCEPT !.found = Append(read.found, run), !.id = id, !.next = n + 1,
                   !.answer = IF n = LastStatement THEN "ok" ELSE "none"]
    BY <1>1 DEF Found, ReadType
  <2> HIDE DEF n
  <2>3. (IF n = LastStatement THEN "ok" ELSE "none") \in Answers
    BY DEF Answers
  <2> QED
    BY <1>1, <2>1, <2>2, <2>3 DEF ReadType
<1>3. /\ Len(read'.found) = n /\ read'.found[n] = run
      /\ \A i \in 1..(n - 1) : read'.found[i] = read.found[i]
      /\ n \in 1..6 /\ \A i \in 1..n : i \in 1..(n - 1) \/ i = n
  <2>1. read.found \in Seq(RunNumbers) /\ n \in 1..6 /\ Len(read.found) = n - 1
    BY <1>1, <1>a, <1>b
  <2>2. /\ Len(Append(read.found, run)) = n /\ Append(read.found, run)[n] = run
        /\ \A i \in 1..(n - 1) : Append(read.found, run)[i] = read.found[i]
    BY <2>1
  <2>3. \A i \in 1..n : i \in 1..(n - 1) \/ i = n
    BY <2>1
  <2> QED
    BY <1>2, <2>1, <2>2, <2>3
<1>4. read' # NoRead
  BY <1>2, NoReadIsNone
<1>5. UNCHANGED <<tables, indexedIn, parsedIn, checkout, writer, runs>>
  BY DEF Found, diskVars
<1>6. DiskInv'
  BY <1>5 DEF DiskInv
<1>7. ProgressInv'
  <2>1. LastStatement' = LastStatement
    BY <1>2 DEF LastStatement
  <2>2. read'.next <= 2 => read'.id \in Runs
    BY <1>1, <1>2, <1>3 DEF ProgressInv
  <2>3. LastStatement \in Nat /\ n \in Nat /\ n <= LastStatement
    BY <1>1, <1>3
  <2> QED
    BY <1>2, <1>3, <2>1, <2>2, <2>3 DEF ProgressInv
<1>8. OneRunInv'
  <2>1. ASSUME read.op # "content", NEW i \in 1..n, Statements[read.op][i] \in Shown
        PROVE  read'.found[i] \in {0, id}
    <3>1. CASE i = n
      BY <1>3, <2>1, <3>1 DEF Statement
    <3>2. CASE i \in 1..(n - 1)
      BY <1>1, <1>3, <2>1, <3>2 DEF OneRunInv
    <3> QED
      BY <1>3, <3>1, <3>2
  <2> QED
    BY <1>2, <1>3, <2>1 DEF OneRunInv
<1>9. UndisturbedInv'
  <2>1. ASSUME ~read.disturbed, NEW i \in 1..n, Statements[read.op][i] # "file"
        PROVE  read'.found[i] = tables.run
    <3>1. CASE i = n
      BY <1>3, <2>1, <3>1 DEF Statement
    <3>2. CASE i \in 1..(n - 1)
      BY <1>1, <1>3, <2>1, <3>2 DEF UndisturbedInv
    <3> QED
      BY <1>3, <3>1, <3>2
  <2>2. ~read.disturbed /\ read'.next >= 3 => id = tables.run
    BY <1>2, <1>3
  <2> QED
    BY <1>2, <1>3, <1>5, <2>1, <2>2 DEF UndisturbedInv
<1>10. ContentInv'
  <2>1. CASE read.op # "content" \/ n = 1
    BY <1>2, <1>3, <2>1 DEF ContentInv
  <2>2. CASE read.op = "content" /\ n = 2
    <3>1. tables.run \in Nat /\ runs \in Nat /\ checkout.run \in Nat
          /\ tables.run <= runs /\ (checkout.run = 0 \/ checkout.run >= tables.run)
      BY ReadsAssumption DEF DiskInv
    <3>2. read'.found[2] = tables.run
      BY <1>3, <2>2
    <3> QED
      BY <1>2, <1>3, <1>5, <2>2, <3>1, <3>2 DEF ContentInv
  <2>3. CASE read.op = "content" /\ n = 3
    <3>1. read'.found[2] = read.found[2] /\ read'.found[3] = checkout.run /\ checkout.run # 0
      BY <1>3, <2>3
    <3>2. read.found[2] <= runs /\ (checkout.run = 0 \/ checkout.run >= read.found[2])
      BY <1>1, <2>3 DEF ContentInv
    <3> QED
      BY <1>2, <1>3, <1>5, <2>3, <3>1, <3>2 DEF ContentInv
  <2>4. read.op = "content" => n \in {1, 2, 3}
    <3>1. read.op = "content" => LastStatement = 3
      BY <1>1, Lengths
    <3> HIDE DEF n
    <3> QED
      BY <1>a, <3>1
  <2> QED
    BY <2>1, <2>2, <2>3, <2>4
<1> QED
  BY <1>6, <1>7, <1>8, <1>9, <1>10

LEMMA Executing ==
  ASSUME ReadsInv, NEW statements, Executes(statements)
  PROVE  /\ read # NoRead /\ read \in ReadType /\ read.op \in ReadOps /\ read.answer = "none"
         /\ read.next \in 1..Len(Statements[read.op]) /\ read.next \in 1..6
         /\ Statement = Statements[read.op][read.next] /\ Statement \in statements
         /\ read.id \in 0..MaxRuns /\ tables.run \in 0..MaxRuns /\ checkout.run \in 0..MaxRuns
         /\ read.op = "content" => Statement \in {"repository", "indexed_file", "file"}
<1>1. /\ read # NoRead /\ read \in ReadType /\ read.answer = "none"
      /\ read.next <= Len(Statements[read.op])
      /\ Statement = Statements[read.op][read.next] /\ Statement \in statements
      /\ tables.run \in 0..MaxRuns /\ checkout.run \in 0..MaxRuns
  BY DEF Executes, ReadsInv, DiskInv, ProgressInv, Statement, LastStatement
<1>2. read.op \in ReadOps /\ read.next \in 1..7 /\ read.id \in 0..MaxRuns
  BY <1>1, ReadIsTyped
<1>3. Len(Statements[read.op]) \in 3..6
  BY <1>2, Lengths
<1>4. read.next \in 1..Len(Statements[read.op]) /\ read.next \in 1..6
  <2>1. PICK last \in 3..6 : last = Len(Statements[read.op])
    BY <1>3
  <2>2. read.next \in 1..last /\ read.next \in 1..6
    BY <1>1, <1>2, <2>1
  <2> QED
    BY <2>1, <2>2
<1>5. ASSUME read.op = "content"
      PROVE  Statement \in {"repository", "indexed_file", "file"}
  <2>1. read.next \in 1..3
    BY <1>4, <1>5, Lengths
  <2> QED
    BY <1>1, <1>5, <2>1, StatementsAre
<1> QED
  BY <1>1, <1>2, <1>4, <1>5

LEMMA ReadRepositoryKeeps ==
  ASSUME ReadsInv, ReadRepository
  PROVE  ReadsInv'
<1>1. Executes({"repository"})
  BY DEF ReadRepository
<1>2. /\ read # NoRead /\ read.op \in ReadOps /\ read.answer = "none" /\ read.next \in 1..6
      /\ read.next \in 1..Len(Statements[read.op])
      /\ Statement = "repository" /\ Statements[read.op][read.next] = "repository"
      /\ read.id \in 0..MaxRuns /\ tables.run \in 0..MaxRuns
  BY <1>1, Executing
<1>3. read.next = 1
  BY <1>2, Order
<1>4. CASE ~tables.registered /\ Respond("not_found")
  BY <1>2, <1>4, RespondKeeps DEF Respond, Answers
<1>5. CASE Respond("repository_not_indexed")
  BY <1>2, <1>5, RespondKeeps DEF Respond, Answers
<1>6. CASE Found(tables.run, read.id)
  BY <1>2, <1>3, <1>6, FoundKeeps DEF Shown
<1> QED
  BY <1>4, <1>5, <1>6 DEF ReadRepository

LEMMA ReadIndexedFileKeeps ==
  ASSUME ReadsInv, ReadIndexedFile
  PROVE  ReadsInv'
<1>1. Executes({"indexed_file"})
  BY DEF ReadIndexedFile
<1>2. /\ read # NoRead /\ read.op \in ReadOps /\ read.answer = "none" /\ read.next \in 1..6
      /\ read.next \in 1..Len(Statements[read.op])
      /\ Statement = "indexed_file" /\ Statements[read.op][read.next] = "indexed_file"
      /\ read.id \in 0..MaxRuns /\ tables.run \in 0..MaxRuns
  BY <1>1, Executing
<1>3. read.next = 2 /\ read.op = "content"
  BY <1>2, Order
<1>4. CASE tables.run \in indexedIn /\ Found(tables.run, tables.run)
  <2>1. \A k \in 1..(read.next - 1) : Statements[read.op][k] \notin Shown
    BY <1>3, StatementsAre DEF Shown
  <2> QED
    BY <1>2, <1>3, <1>4, <2>1, FoundKeeps
<1>5. CASE tables.run \notin indexedIn /\ Respond("file_not_found")
  BY <1>2, <1>5, RespondKeeps DEF Respond, Answers
<1> QED
  BY <1>4, <1>5 DEF ReadIndexedFile

\* The row was found before the file, by the run that the id was taken from.
LEMMA ReadFileKeeps ==
  ASSUME ReadsInv, ReadFile
  PROVE  ReadsInv'
<1>1. Executes({"file"})
  BY DEF ReadFile
<1>2. /\ read # NoRead /\ read.op \in ReadOps /\ read.answer = "none" /\ read.next \in 1..6
      /\ read.next \in 1..Len(Statements[read.op])
      /\ Statement = "file" /\ Statements[read.op][read.next] = "file"
      /\ read.id \in 0..MaxRuns /\ checkout.run \in 0..MaxRuns
  BY <1>1, Executing
<1>3. read.next = 3 /\ read.op = "content"
  BY <1>2, Order
<1>4. CASE checkout.run \in indexedIn /\ Found(checkout.run, read.id)
  <2>1. checkout.run # 0
    BY <1>4 DEF ReadsInv, DiskInv, Runs
  <2>2. ~read.disturbed => read.id = tables.run
    BY <1>2, <1>3 DEF ReadsInv, UndisturbedInv
  <2> QED
    BY <1>2, <1>3, <1>4, <2>1, <2>2, FoundKeeps
<1>5. CASE Respond("file_not_viewable")
  BY <1>2, <1>5, RespondKeeps DEF Respond, Answers
<1> QED
  BY <1>4, <1>5 DEF ReadFile

LEMMA ReadCodeFileKeeps ==
  ASSUME ReadsInv, ReadCodeFile
  PROVE  ReadsInv'
<1>1. Executes({"code_file"})
  BY DEF ReadCodeFile
<1>2. /\ read # NoRead /\ read.op \in ReadOps /\ read.answer = "none" /\ read.next \in 1..6
      /\ read.next \in 1..Len(Statements[read.op])
      /\ Statement = "code_file" /\ Statements[read.op][read.next] = "code_file"
      /\ read.id \in 0..MaxRuns /\ tables.run \in 0..MaxRuns /\ read.op # "content"
  BY <1>1, Executing
<1>3. read.next = 2
  BY <1>2, Order
<1>4. CASE tables.run \in parsedIn /\ Found(tables.run, tables.run)
  <2>1. 1 \in 1..Len(Statements[read.op]) /\ \A k \in 1..(read.next - 1) : k = 1
    BY <1>2, <1>3
  <2>2. Statements[read.op][1] = "repository"
    BY <1>2, <2>1, Order
  <2>3. \A k \in 1..(read.next - 1) : Statements[read.op][k] \notin Shown
    BY <2>1, <2>2 DEF Shown
  <2> QED
    BY <1>2, <1>3, <1>4, <2>3, FoundKeeps
<1>5. CASE /\ tables.run \notin parsedIn
           /\ read' = [read EXCEPT !.answer = "unparsed"]
           /\ UNCHANGED <<tables, indexedIn, parsedIn, diskVars>>
  BY <1>2, <1>5, RespondKeeps DEF Answers
<1> QED
  BY <1>4, <1>5 DEF ReadCodeFile

LEMMA ReadWhyNoCodeFileKeeps ==
  ASSUME ReadsInv, ReadWhyNoCodeFile
  PROVE  ReadsInv'
<1>1. ~read.disturbed => tables.run \notin parsedIn
  BY DEF ReadWhyNoCodeFile, ReadsInv, UndisturbedInv
<1>2. CASE tables.run \in indexedIn
  BY <1>1, <1>2, RespondKeeps DEF ReadWhyNoCodeFile, Respond, Answers
<1>3. CASE tables.run \notin indexedIn
  BY <1>1, <1>3, RespondKeeps DEF ReadWhyNoCodeFile, Respond, Answers
<1> QED
  BY <1>2, <1>3

LEMMA ReadSymbolKeeps ==
  ASSUME ReadsInv, ReadSymbol
  PROVE  ReadsInv'
<1>1. Executes({"symbol"})
  BY DEF ReadSymbol
<1>2. /\ read # NoRead /\ read.op \in ReadOps /\ read.answer = "none" /\ read.next \in 1..6
      /\ read.next \in 1..Len(Statements[read.op])
      /\ Statement = "symbol" /\ Statements[read.op][read.next] = "symbol"
      /\ read.id \in 0..MaxRuns /\ tables.run \in 0..MaxRuns /\ read.op # "content"
  BY <1>1, Executing
<1>3. read.next = 2
  BY <1>2, Order
<1>4. read.id # 0
  BY <1>2, <1>3 DEF ReadsInv, ProgressInv, Runs
<1>5. CASE FoundById(read.id) # 0 /\ Found(read.id, read.id)
  <2>1. tables.run = read.id
    BY <1>5 DEF FoundById
  <2> QED
    BY <1>2, <1>3, <1>5, <2>1, FoundKeeps
<1>6. CASE FoundById(read.id) = 0 /\ Respond("symbol_not_found")
  <2>1. tables.run # read.id
    BY <1>4, <1>6 DEF FoundById
  <2> QED
    BY <1>2, <1>6, <2>1, RespondKeeps DEF Respond, Answers
<1> QED
  BY <1>5, <1>6 DEF ReadSymbol

\* Rows that are selected by the id that was found with the file or symbol.
LEMMA FoundByIdKeeps ==
  ASSUME ReadsInv, read # NoRead, read.answer = "none", read.op # "content",
         read.id \in 0..MaxRuns, read.next \in 3..6, Found(FoundById(read.id), read.id)
  PROVE  ReadsInv'
<1>1. FoundById(read.id) \in {0, read.id} /\ FoundById(read.id) \in 0..MaxRuns
  BY ReadsAssumption DEF FoundById
<1>2. ~read.disturbed => read.id = tables.run /\ FoundById(read.id) = tables.run
  BY DEF ReadsInv, UndisturbedInv, FoundById
<1> QED
  BY <1>1, <1>2, FoundKeeps

LEMMA ReadPageKeeps ==
  ASSUME ReadsInv, ReadPage
  PROVE  ReadsInv'
<1>1. Executes({"count", "items", "edges"})
  BY DEF ReadPage
<1>2. /\ read # NoRead /\ read.op \in ReadOps /\ read.answer = "none" /\ read.next \in 1..6
      /\ read.next \in 1..Len(Statements[read.op])
      /\ Statement = Statements[read.op][read.next] /\ Statement \in {"count", "items", "edges"}
      /\ read.id \in 0..MaxRuns /\ tables.run \in 0..MaxRuns /\ read.op # "content"
  BY <1>1, Executing
<1>3. CASE read.op \in ById /\ Found(FoundById(read.id), read.id)
  <2>1. read.next >= 3
    BY <1>2, <1>3, Order
  <2> QED
    BY <1>2, <1>3, <2>1, FoundByIdKeeps
<1>4. CASE read.op \notin ById /\ Found(tables.run, tables.run)
  <2>1. /\ read.next # 1
        /\ \A k \in 1..(read.next - 1) : Statements[read.op][k] \notin Shown
    BY <1>2, <1>4, Order
  <2> QED
    BY <1>2, <1>4, <2>1, FoundKeeps
<1> QED
  BY <1>3, <1>4 DEF ReadPage, ById

LEMMA ReadDetailsKeeps ==
  ASSUME ReadsInv, ReadDetails
  PROVE  ReadsInv'
<1>1. Executes({"paths", "references", "symbols", "imports"})
  BY DEF ReadDetails
<1>2. /\ read # NoRead /\ read.op \in ReadOps /\ read.answer = "none" /\ read.next \in 1..6
      /\ read.next \in 1..Len(Statements[read.op])
      /\ Statement = Statements[read.op][read.next]
      /\ Statement \in {"paths", "references", "symbols", "imports"}
      /\ read.id \in 0..MaxRuns /\ read.op # "content"
  BY <1>1, Executing
<1>3. read.next >= 3
  BY <1>2, Order
<1> QED
  BY <1>2, <1>3, FoundByIdKeeps DEF ReadDetails

LEMMA StartReadKeeps ==
  ASSUME ReadsInv, NEW op \in ReadOps, NEW known \in Runs, StartRead(op, known)
  PROVE  ReadsInv'
<1> USE DEF ReadsInv
<1>1. /\ read' = [op |-> op, next |-> 1, found |-> << >>, id |-> known, disturbed |-> FALSE,
                  answer |-> "none"]
      /\ UNCHANGED <<tables, indexedIn, parsedIn, checkout, writer, runs>>
  BY DEF StartRead, NewRead, diskVars
<1>2. read' \in ReadType /\ Len(read'.found) = 0 /\ known \in Runs
  BY <1>1, ReadsAssumption DEF ReadType, Answers, RunNumbers, Runs
<1>3. DiskInv'
  BY <1>1 DEF DiskInv
<1>4. ProgressInv'
  <2>1. Len(Statements[op]) \in 3..6
    BY Lengths
  <2>2. PICK last \in 3..6 : last = Len(Statements[op])
    BY <2>1
  <2>3. 1 <= last /\ 1 <= last + 1
    OBVIOUS
  <2> QED
    BY <1>1, <1>2, <2>2, <2>3 DEF ProgressInv, LastStatement
<1>5. OneRunInv'
  BY <1>1, <1>2 DEF OneRunInv
<1>6. UndisturbedInv'
  BY <1>1, <1>2 DEF UndisturbedInv
<1>7. ContentInv'
  BY <1>1, <1>2 DEF ContentInv
<1> QED
  BY <1>3, <1>4, <1>5, <1>6, <1>7

LEMMA NextReadKeeps ==
  ASSUME ReadsInv, NextRead
  PROVE  ReadsInv'
<1>1. read' = NoRead /\ UNCHANGED <<tables, indexedIn, parsedIn, checkout, writer, runs>>
  BY DEF NextRead, diskVars
<1> QED
  BY <1>1 DEF ReadsInv, DiskInv, ProgressInv, OneRunInv, UndisturbedInv, ContentInv

LEMMA StepReadsInv == ReadsInv /\ [ReadsNext]_readsVars => ReadsInv'
<1> SUFFICES ASSUME ReadsInv, [ReadsNext]_readsVars PROVE ReadsInv'
  OBVIOUS
<1>1. CASE \/ RunBegins \/ RemoveCheckoutOfLastRun \/ MoveCheckout \/ Complete
           \/ RunFails \/ DeleteRows \/ RemoveFiles
  BY <1>1, WriterStepKeeps
<1>2. CASE \E op \in ReadOps, known \in Runs : StartRead(op, known)
  BY <1>2, StartReadKeeps
<1>3. CASE ReadRepository
  BY <1>3, ReadRepositoryKeeps
<1>4. CASE ReadIndexedFile
  BY <1>4, ReadIndexedFileKeeps
<1>5. CASE ReadFile
  BY <1>5, ReadFileKeeps
<1>6. CASE ReadCodeFile
  BY <1>6, ReadCodeFileKeeps
<1>7. CASE ReadWhyNoCodeFile
  BY <1>7, ReadWhyNoCodeFileKeeps
<1>8. CASE ReadSymbol
  BY <1>8, ReadSymbolKeeps
<1>9. CASE ReadPage
  BY <1>9, ReadPageKeeps
<1>10. CASE ReadDetails
  BY <1>10, ReadDetailsKeeps
<1>11. CASE NextRead
  BY <1>11, NextReadKeeps
<1>12. CASE UNCHANGED readsVars
  BY <1>12 DEF readsVars, diskVars, ReadsInv, DiskInv, ProgressInv, OneRunInv, UndisturbedInv,
     ContentInv, LastStatement
<1> QED
  BY <1>1, <1>2, <1>3, <1>4, <1>5, <1>6, <1>7, <1>8, <1>9, <1>10, <1>11, <1>12 DEF ReadsNext

LEMMA ReadsInvariant == ReadsSpec => []ReadsInv
<1>1. ReadsInit => ReadsInv
  BY InitReadsInv
<1>2. ReadsInv /\ [ReadsNext]_readsVars => ReadsInv'
  BY StepReadsInv
<1> QED
  BY <1>1, <1>2, PTL DEF ReadsSpec

-----------------------------------------------------------------------------
(* The theorems.                                                           *)

\* A read that goes on keeps the shape of its operation: it has executed the
\* statements before the next one, and found something by each of them.
THEOREM ReadsKeepTypes == ReadsSpec => []ReadsTypeOK
<1>1. ReadsInv => ReadsTypeOK
  <2> SUFFICES ASSUME ReadsInv PROVE ReadsTypeOK
    OBVIOUS
  <2>1. CASE read = NoRead
    BY <2>1 DEF ReadsInv, DiskInv, ReadsTypeOK
  <2>2. CASE read # NoRead
    <3>1. /\ read \in ReadType /\ Len(read.found) = read.next - 1
          /\ read.next <= LastStatement + 1
      BY <2>2 DEF ReadsInv, ProgressInv
    <3>2. read.op \in ReadOps /\ read.id \in 0..MaxRuns /\ read.next \in 1..7
      BY <3>1, ReadIsTyped
    <3>3. PICK last \in 3..6 : last = LastStatement
      BY <3>2, Lengths DEF LastStatement
    <3>4. read.next \in 1..(last + 1)
      BY <3>1, <3>2, <3>3
    <3> QED
      BY <3>1, <3>2, <3>3, <3>4 DEF ReadsInv, DiskInv, ReadsTypeOK
  <2> QED
    BY <2>1, <2>2
<1> QED
  BY <1>1, ReadsInvariant, PTL

\* An answered read has found something by every statement.
LEMMA AllFound ==
  ASSUME ReadsInv, Answered, read.answer = "ok"
  PROVE  /\ read # NoRead /\ read.op \in ReadOps /\ Len(read.found) = LastStatement
         /\ LastStatement = Len(Statements[read.op]) /\ LastStatement \in 3..6
         /\ read.found \in Seq(RunNumbers)
<1>1. /\ read # NoRead /\ read \in ReadType /\ Len(read.found) = read.next - 1
      /\ read.next = LastStatement + 1
  BY DEF Answered, ReadsInv, ProgressInv
<1>2. read.op \in ReadOps /\ read.found \in Seq(RunNumbers)
  BY <1>1, ReadIsTyped
<1>3. LastStatement \in 3..6
  BY <1>2, Lengths DEF LastStatement
<1>4. PICK last \in 3..6 : last = LastStatement
  BY <1>3
<1>5. last + 1 - 1 = last
  OBVIOUS
<1> QED
  BY <1>1, <1>2, <1>3, <1>4, <1>5 DEF LastStatement

\* The contents shown for a file are of the run of its row, or newer: the
\* checkout is replaced before the rows and removed after them, so the row
\* that was read first is never the newer one (code_service.py:113-126).
THEOREM ContentsAreNotOlder == ReadsSpec => []ContentIsNeverOlderThanItsRow
<1>1. ReadsInv => ContentIsNeverOlderThanItsRow
  <2> SUFFICES ASSUME ReadsInv, Answered, read.answer = "ok", read.op = "content"
               PROVE  Piece("file") >= Piece("indexed_file")
    BY DEF ContentIsNeverOlderThanItsRow
  <2>1. /\ read # NoRead /\ Len(read.found) = LastStatement
        /\ LastStatement = Len(Statements[read.op])
    BY AllFound
  <2>2. LastStatement = 3 /\ Len(read.found) = 3
    BY <2>1, Lengths
  <2>3. Statements[read.op] = <<"repository", "indexed_file", "file">>
    BY StatementsAre
  <2>4. Piece("file") = read.found[3] /\ Piece("indexed_file") = read.found[2]
    <3>1. \A i \in 1..3 : /\ Statements[read.op][i] = "file" <=> i = 3
                          /\ Statements[read.op][i] = "indexed_file" <=> i = 2
      BY <2>3
    <3>2. (CHOOSE i \in 1..3 : Statements[read.op][i] = "file") = 3
      BY <3>1
    <3>3. (CHOOSE i \in 1..3 : Statements[read.op][i] = "indexed_file") = 2
      BY <3>1
    <3> QED
      BY <2>2, <3>2, <3>3 DEF Piece
  <2> QED
    BY <2>1, <2>2, <2>4 DEF ReadsInv, ContentInv
<1> QED
  BY <1>1, ReadsInvariant, PTL

\* An answer never shows a file with symbols, imports or paths of another
\* run, whatever is committed between its statements: after the file or the
\* symbol everything is selected by its id (code_service.py:129-179, 247-282).
THEOREM AnswersAreOfOneRun == ReadsSpec => []AnswerOfOneRun
<1>1. ReadsInv => AnswerOfOneRun
  <2> SUFFICES ASSUME ReadsInv, Answered, read.answer = "ok", read.op # "content"
               PROVE  Pieces(Shown) \subseteq {0, read.id} /\ read.id \in 0..MaxRuns
    BY DEF AnswerOfOneRun, Shown
  <2>1. /\ read # NoRead /\ Len(read.found) = LastStatement
    BY AllFound
  <2>2. ASSUME NEW statement \in Shown, Has(statement)
        PROVE  Piece(statement) \in {0, read.id}
    <3>1. PICK i \in 1..LastStatement :
            i = CHOOSE k \in 1..LastStatement : Statements[read.op][k] = statement
      BY <2>2 DEF Has
    <3>2. Statements[read.op][i] = statement /\ Piece(statement) = read.found[i]
      BY <2>2, <3>1 DEF Has, Piece
    <3> QED
      BY <2>1, <2>2, <3>1, <3>2 DEF ReadsInv, OneRunInv
  <2>3. read.id \in 0..MaxRuns
    BY <2>1, ReadIsTyped DEF ReadsInv, ProgressInv
  <2> QED
    BY <2>2, <2>3 DEF Pieces
<1> QED
  BY <1>1, ReadsInvariant, PTL

\* A read during which nothing was committed finds rows of one run by every
\* statement, and is refused only for what is missing in them
\* (code_service.py:284-301).
THEOREM UndisturbedAnswersAreTrue == ReadsSpec => []UndisturbedAnswerIsTrue
<1>1. ReadsInv => UndisturbedAnswerIsTrue
  <2> SUFFICES ASSUME ReadsInv, Answered, ~read.disturbed PROVE UndisturbedAnswerIsTrue
    BY DEF UndisturbedAnswerIsTrue
  <2>1. read # NoRead
    BY DEF Answered
  <2>2. ASSUME read.answer = "ok", NEW i \in 1..LastStatement, Statements[read.op][i] # "file"
        PROVE  read.found[i] = tables.run
    BY <2>1, <2>2, AllFound DEF ReadsInv, UndisturbedInv
  <2> QED
    BY <2>1, <2>2 DEF UndisturbedAnswerIsTrue, ReadsInv, UndisturbedInv
<1> QED
  BY <1>1, ReadsInvariant, PTL

=============================================================================
