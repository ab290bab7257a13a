------------------------------- MODULE Ranking -------------------------------
(***************************************************************************)
(* One search: the retrievers of retrieval/engine.py, the fusion of        *)
(* retrieval/fusion.py and the hydration of services/search_service.py.    *)
(* Scores are small numbers; fractions are counted in units of 1/Scale.    *)
(***************************************************************************)
EXTENDS Integers, SequencesExt

CONSTANTS
  ChunkIds,     \* numbers, in the order of the ids
  Requests,     \* strategy, reranker ("none": null), topK and options of a search
  MaxScore,     \* bound: scores of a retriever
  Scale,
  Digit,        \* the last digit of a score in the response
  Environments  \* dense index, loadable models, configured rerankers, default one

Strategies == {"bm25", "dense", "hybrid", "hybrid_rerank"}

\* Every fraction that occurs is exact in units of 1/Scale.
ASSUME RankingAssumption ==
  /\ ChunkIds \subseteq Nat /\ IsFiniteSet(ChunkIds)
  /\ MaxScore \in Nat /\ Scale \in Nat \ {0} /\ Digit \in Nat \ {0}
  /\ \A r \in Requests :
       /\ r.strategy \in Strategies /\ r.method \in {"rrf", "weighted"}
       /\ r.topK \in Nat \ {0} /\ r.candidates \in Nat \ {0} /\ r.rerankCandidates \in Nat \ {0}
       /\ r.rrfK \in Nat \ {0} /\ r.bm25Weight \in Nat /\ r.denseWeight \in Nat
       /\ \A rank \in 1..Cardinality(ChunkIds) :
            \E share \in 1..Scale : Scale = share * (r.rrfK + rank)
  /\ \A width \in 1..MaxScore : \E share \in 1..Scale : Scale = share * width
  /\ \A e \in Environments :
       /\ e.dense \in BOOLEAN /\ e.embeds \in BOOLEAN
       /\ {"none", ""} \cap e.rerankers = {} /\ e.loads \subseteq e.rerankers
       /\ IF e.rerankers = {} THEN e.default = "none" ELSE e.default \in e.rerankers

VARIABLES
  request,    \* the search
  available,  \* the environment
  lexical,    \* what BM25 would give each chunk: 0 when no term matches
  similarity, \* the inner product of each chunk
  bm25List,   \* the chunks that a retriever returned, best first
  denseList,
  ranking,    \* chunks and their scores, best first
  hits,       \* the results of the response
  searchStep

rankingVars == <<request, available, lexical, similarity, bm25List, denseList, ranking, hits, searchStep>>

Smaller(a, b) == IF a < b THEN a ELSE b
Larger(a, b) == IF a > b THEN a ELSE b
Position(list, c) == CHOOSE n \in DOMAIN list : list[n] = c
IsIn(list, c) == \E n \in DOMAIN list : list[n] = c

\* The best chunks of a set in an order that scores allow; numpy and FAISS
\* leave open how equal scores are ordered, and which of them are cut.
BestFirst(candidates, score, count) ==
  {list \in UNION {SetToSeqs(S) : S \in kSubset(Smaller(count, Cardinality(candidates)), candidates)} :
     /\ \A m, n \in DOMAIN list : m < n => score[list[m]] >= score[list[n]]
     /\ \A c \in candidates : IsIn(list, c) \/ \A n \in DOMAIN list : score[list[n]] >= score[c]}

-----------------------------------------------------------------------------
(* The request.                                                            *)

RankingInit ==
  /\ request \in Requests /\ available \in Environments
  /\ lexical \in [ChunkIds -> 0..MaxScore]
  /\ similarity \in [ChunkIds -> 0..MaxScore]
  /\ bm25List = << >> /\ denseList = << >> /\ ranking = << >> /\ hits = << >>
  /\ searchStep = "check"

To(step) == searchStep' = step

\* _reranker: by its name, or the default one of a strategy that needs it;
\* the empty name stands for none at all.
NeedsDefault == request.reranker = "none" /\ request.strategy = "hybrid_rerank"
Reranker ==
  IF NeedsDefault THEN available.default
  ELSE IF request.reranker = "" THEN "none" ELSE request.reranker

Unknown == Reranker # "none" /\ Reranker \notin available.rerankers

\* A strategy that reranks goes on without a default reranker.
CheckNamedReranker ==
  /\ searchStep = "check"
  /\ To(IF Unknown THEN "unknown_reranker" ELSE "retrieve")
  /\ UNCHANGED <<request, available, lexical, similarity, bm25List, denseList, ranking, hits>>

\* The model of a reranker is not loaded before it is used.
CheckReranker ==
  /\ searchStep = "check"
  /\ To(IF NeedsDefault /\ available.rerankers = {} THEN "reranker_unavailable"
        ELSE IF Unknown THEN "unknown_reranker" ELSE "retrieve")
  /\ UNCHANGED <<request, available, lexical, similarity, bm25List, denseList, ranking, hits>>

Reranks == Reranker # "none"
Uses(retriever) == request.strategy = retriever \/ request.strategy \in {"hybrid", "hybrid_rerank"}
IsHybrid == Uses("bm25") /\ Uses("dense")

\* RerankingRetriever asks for more than it returns, and so does
\* HybridRetriever of its two.
FirstStageDepth ==
  IF Reranks THEN Larger(request.rerankCandidates, request.topK) ELSE request.topK
Depth == IF IsHybrid THEN Larger(request.candidates, FirstStageDepth) ELSE FirstStageDepth

\* BM25Retriever: only chunks in which a term occurs.
RetrieveBM25 ==
  /\ searchStep = "retrieve"
  /\ IF Uses("bm25")
     THEN bm25List' \in BestFirst({c \in ChunkIds : lexical[c] > 0}, lexical, Depth)
     ELSE UNCHANGED bm25List
  /\ To("dense")
  /\ UNCHANGED <<request, available, lexical, similarity, denseList, ranking, hits>>

\* DenseRetriever: the query is embedded, and every chunk has a distance.
RetrieveDense ==
  /\ searchStep = "dense"
  /\ IF Uses("dense") /\ available.dense /\ available.embeds
     THEN denseList' \in BestFirst(ChunkIds, similarity, Depth)
     ELSE UNCHANGED denseList
  /\ To(IF Uses("dense") /\ ~available.dense THEN "dense_index_unavailable"
        ELSE IF Uses("dense") /\ ~available.embeds THEN "embedding_unavailable" ELSE "fuse")
  /\ UNCHANGED <<request, available, lexical, similarity, bm25List, ranking, hits>>

-----------------------------------------------------------------------------
(* fuse.                                                                   *)

\* _normalise: a single result or a tie counts as 1.
Normalised(list, score, c) ==
  LET scores == {score[d] : d \in ToSet(list)}
      low == Min(scores)
      high == Max(scores)
  IN IF high = low THEN Scale ELSE (score[c] - low) * (Scale \div (high - low))

\* As if the first position were the last.
ContributionReversed(list, score, weight, c) ==
  IF ~IsIn(list, c) THEN 0
  ELSE weight * (Scale \div (request.rrfK + Len(list) + 1 - Position(list, c)))

Contribution(list, score, weight, c) ==
  IF ~IsIn(list, c) THEN 0
  ELSE IF request.method = "rrf" THEN weight * (Scale \div (request.rrfK + Position(list, c)))
       ELSE weight * Normalised(list, score, c)

Totals ==
  [c \in ChunkIds |-> Contribution(bm25List, lexical, request.bm25Weight, c)
                        + Contribution(denseList, similarity, request.denseWeight, c)]

\* The list of a set in the order of the scores; equal ones are ordered by
\* chunk id.
Ordered(S, score) ==
  {list \in SetToSeqs(S) :
     \A m, n \in DOMAIN list : m < n =>
       score[list[m]] > score[list[n]]
         \/ (score[list[m]] = score[list[n]] /\ list[m] < list[n])}

Scored(list, score) == [n \in DOMAIN list |-> [chunk |-> list[n], score |-> score[list[n]]]]

Cut(list, count) == SubSeq(list, 1, Smaller(count, Len(list)))

Retrieved == ToSet(bm25List) \cup ToSet(denseList)

\* HybridRetriever fuses; a retriever alone is cut already.
Fuse ==
  /\ searchStep = "fuse"
  /\ IF IsHybrid
     THEN \E list \in Ordered(Retrieved, Totals) :
            ranking' = Scored(Cut(list, FirstStageDepth), Totals)
     ELSE ranking' = IF Uses("bm25") THEN Scored(bm25List, lexical)
                     ELSE Scored(denseList, similarity)
  /\ To(IF Reranks /\ ranking' # << >> THEN "rerank" ELSE "hydrate")
  /\ UNCHANGED <<request, available, lexical, similarity, bm25List, denseList, hits>>

RankedChunks == {item.chunk : item \in ToSet(ranking)}

\* The cross-encoder may give any candidate any score.
Rerank ==
  /\ searchStep = "rerank" /\ Reranker \in available.loads
  /\ \E given \in [RankedChunks -> 0..MaxScore] : \E list \in Ordered(RankedChunks, given) :
       ranking' = Scored(Cut(list, request.topK), given)
  /\ To("hydrate")
  /\ UNCHANGED <<request, available, lexical, similarity, bm25List, denseList, hits>>

\* _load of a cross-encoder raises, which only a search with candidates meets.
RerankerRaises ==
  /\ searchStep = "rerank" /\ Reranker \notin available.loads
  /\ To("reranker_unavailable")
  /\ UNCHANGED <<request, available, lexical, similarity, bm25List, denseList, ranking, hits>>

\* round(score, 6), in units of the last digit, to the nearest or else the
\* even one.
Rounded(score) ==
  LET whole == score \div Digit
      rest == score % Digit
  IN IF 2 * rest > Digit \/ (2 * rest = Digit /\ whole % 2 = 1) THEN whole + 1 ELSE whole

Ascending(S) == {list \in SetToSeqs(S) : \A m, n \in DOMAIN list : m < n => list[m] < list[n]}

\* Each result with the rank that the retriever gave it.
HydrateWithItsRanks ==
  /\ searchStep = "hydrate"
  /\ \E present \in SUBSET ChunkIds :
     \E kept \in Ascending({n \in DOMAIN ranking : ranking[n].chunk \in present}) :
       hits' = [n \in DOMAIN kept |-> [rank |-> kept[n], chunk |-> ranking[kept[n]].chunk,
                                       score |-> Rounded(ranking[kept[n]].score)]]
  /\ To("answered")
  /\ UNCHANGED <<request, available, lexical, similarity, bm25List, denseList, ranking>>

\* _hydrate: a chunk that the database does not have is left out, and the
\* others move up.
Hydrate ==
  /\ searchStep = "hydrate"
  /\ \E present \in SUBSET ChunkIds :
     \E kept \in Ascending({n \in DOMAIN ranking : ranking[n].chunk \in present}) :
       hits' = [n \in DOMAIN kept |-> [rank |-> n, chunk |-> ranking[kept[n]].chunk,
                                       score |-> Rounded(ranking[kept[n]].score)]]
  /\ To("answered")
  /\ UNCHANGED <<request, available, lexical, similarity, bm25List, denseList, ranking>>

RankingNext ==
  CheckReranker \/ RetrieveBM25 \/ RetrieveDense \/ Fuse \/ Rerank \/ RerankerRaises \/ Hydrate

RankingSpec == RankingInit /\ [][RankingNext]_rankingVars

-----------------------------------------------------------------------------
(* Properties.                                                             *)

\* The response holds no chunk twice and no more than top_k, numbered from 1
\* without gaps and best first, in the order of the ranking, in which equal
\* scores are ordered by chunk id; a chunk that a retriever of the strategy
\* found is missing from the ranking only when that ends with one at least as
\* good or the candidates of the first stage were cut (fusion.py:79,
\* engine.py:192-241, search_service.py:170-192).
ResponseIsARanking ==
  searchStep = "answered" =>
    /\ Len(hits) <= request.topK
    /\ \A n \in DOMAIN hits : hits[n].rank = n
    /\ \A m, n \in DOMAIN hits : m < n =>
         /\ hits[m].chunk # hits[n].chunk /\ hits[m].score >= hits[n].score
         /\ \E i, j \in DOMAIN ranking :
              i < j /\ ranking[i].chunk = hits[m].chunk /\ ranking[j].chunk = hits[n].chunk
    /\ \A i, j \in DOMAIN ranking :
         i < j /\ (IsHybrid \/ Reranks) /\ ranking[i].score = ranking[j].score =>
           ranking[i].chunk < ranking[j].chunk
    /\ \A n \in DOMAIN hits : hits[n].chunk \in Retrieved
    /\ \A c \in Retrieved \ RankedChunks :
         Len(ranking) = request.topK /\ (Reranks \/ ~IsHybrid \/ Last(ranking).score >= Totals[c])

\* Whether a search is to rerank, and with what: a reranker that it names, or
\* for hybrid_rerank the default one.
ToRerank == request.reranker # "none" \/ request.strategy = "hybrid_rerank"
Wanted == IF request.reranker = "none" THEN available.default ELSE request.reranker

\* A search is answered only with all it was asked to use, and refused only
\* for what it lacks: the dense index, a model to embed the query, a reranker
\* of that name, a default one, or the model of the reranker, which is missed
\* only when there is something to rerank.  Nothing is said of an empty name,
\* which reranks nothing although docs/retrieval.md:196 rules that out
\* (search_service.py:144-153, engine.py:157-163, 219-231, rerankers.py:49-95).
RefusalsAreTrue ==
  /\ searchStep = "dense_index_unavailable" => Uses("dense") /\ ~available.dense
  /\ searchStep = "embedding_unavailable" => Uses("dense") /\ ~available.embeds
  /\ searchStep = "unknown_reranker" =>
       request.reranker # "none" /\ request.reranker \notin available.rerankers
  /\ searchStep = "reranker_unavailable" =>
       /\ ToRerank
       /\ \/ request.reranker = "none" /\ available.rerankers = {}
          \/ Retrieved # {} /\ Wanted \in available.rerankers \ available.loads
  /\ searchStep = "answered" =>
       /\ Uses("dense") => available.dense /\ available.embeds
       /\ ToRerank /\ request.reranker # "" =>
            Wanted \in available.rerankers /\ (hits # << >> => Wanted \in available.loads)

\* The chunks c and d as a list with a weight puts them.
PutsBefore(list, score, weight, c, d) ==
  weight > 0 /\ IsIn(list, d) =>
    IsIn(list, c) /\ Position(list, c) < Position(list, d) /\ score[c] > score[d]

\* Some list with a weight has d, and all that have it put c before it.
Agree(c, d) ==
  /\ (request.bm25Weight > 0 /\ IsIn(bm25List, d)) \/ (request.denseWeight > 0 /\ IsIn(denseList, d))
  /\ PutsBefore(bm25List, lexical, request.bm25Weight, c, d)
  /\ PutsBefore(denseList, similarity, request.denseWeight, c, d)

\* Fusion respects what its lists agree on: a chunk that every list with a
\* weight puts before another one, with a better score, stays before it and
\* is not cut in its favour (fusion.py:45-79).
AgreementIsKept ==
  searchStep \in {"rerank", "hydrate"} /\ IsHybrid /\ (searchStep = "rerank" \/ ~Reranks) =>
    \A n \in DOMAIN ranking : \A c \in ChunkIds : Agree(c, ranking[n].chunk) =>
      \E m \in 1..(n - 1) : ranking[m].chunk = c

=============================================================================
