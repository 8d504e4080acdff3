----------------------------- MODULE Retrieval -----------------------------
(***************************************************************************)
(* RagEngine::hybrid_search (sap-automate-rag): two rankings of the store, *)
(* fused by reciprocal rank, reranked and clipped.  What a chunk scores in *)
(* a ranking or in the reranker is left open: any order may come.  The     *)
(* fused scores are exact.                                                 *)
(***************************************************************************)
EXTENDS Naturals, Sequences, FiniteSets, SequencesExt, FiniteSetsExt

CONSTANTS
    ChunkIds,     \* chunks of the wanted domain
    Embedded,     \* those with an embedding of the query's length
    RrfK,         \* rrf_k, 60 in the code
    Pool          \* candidate_pool, 40 in the code

ASSUME RetrievalAssumption ==
    /\ IsFiniteSet(ChunkIds) /\ Embedded \subseteq ChunkIds
    /\ RrfK \in Nat /\ Pool \in Nat

VARIABLES
    qpc,          \* "search", "fuse", "rerank", "pack", "answered"
    query,        \* [embedding, matching, rerank, topK]
    dense, sparse,
    ranked,       \* the fused, later the reranked candidates
    answered      \* the response: hits and diagnostics

qvars == <<qpc, query, dense, sparse, ranked, answered>>

NoAnswer == [hits |-> <<>>, overlap |-> 0, truncated |-> FALSE]

RetrievalInit ==
    /\ qpc = "search"
    /\ query \in [embedding : BOOLEAN, matching : SUBSET ChunkIds, rerank : BOOLEAN,
                  topK : 0..Cardinality(ChunkIds)]
    /\ dense = <<>> /\ sparse = <<>> /\ ranked = <<>>
    /\ answered = NoAnswer

\* Every order of a set.
Orders(set) == {o \in [1..Cardinality(set) -> set] : IsInjective(o)}

Truncate(s, n) == SubSeq(s, 1, Min({n, Len(s)}))

\* InMemoryKb::hybrid_search: dense only for a query with an embedding, sparse
\* over the chunks with a term of the query.
Search ==
    /\ qpc = "search"
    /\ \E d \in Orders(IF query.embedding THEN Embedded ELSE {}), s \in Orders(query.matching) :
         dense' = Truncate(d, Pool) /\ sparse' = Truncate(s, Pool)
    /\ qpc' = "fuse"
    /\ UNCHANGED <<query, ranked, answered>>

\* A common multiple of the denominators, so that scores are integers.
Product[n \in 0..Pool] == IF n = 0 THEN 1 ELSE (RrfK + n) * Product[n - 1]
Unit == Product[Pool]

\* Mutant: the second ranking's score replaces the first's.
ScoreLast(c) ==
    LET r == IF Contains(sparse, c) THEN sparse ELSE dense
    IN Unit \div (RrfK + CHOOSE k \in DOMAIN r : r[k] = c)

\* 1 / (k + rank), for each ranking the chunk is in.
Score(c) ==
    LET part(r) == IF Contains(r, c) THEN Unit \div (RrfK + CHOOSE k \in DOMAIN r : r[k] = c)
                   ELSE 0
    IN part(dense) + part(sparse)

\* reciprocal_rank_fusion: equal scores come in any order.
Fuse ==
    /\ qpc = "fuse"
    /\ \E o \in Orders(ToSet(dense) \cup ToSet(sparse)) :
         /\ \A i, j \in DOMAIN o : i < j => Score(o[i]) >= Score(o[j])
         /\ ranked' = Truncate(o, Pool)
    /\ qpc' = "rerank"
    /\ UNCHANGED <<query, dense, sparse, answered>>

\* The reranker returns the candidates' indices in an order of its own.
Rerank ==
    /\ qpc = "rerank"
    /\ \/ query.rerank /\ ranked' \in Orders(ToSet(ranked))
       \/ ~query.rerank /\ UNCHANGED ranked
    /\ qpc' = "pack"
    /\ UNCHANGED <<query, dense, sparse, answered>>

\* rank_overlap
RankOverlap == Cardinality(ToSet(dense) \cap ToSet(sparse))

Pack ==
    /\ qpc = "pack"
    /\ answered' = [hits |-> Truncate(ranked, query.topK), overlap |-> RankOverlap,
                    truncated |-> Len(ranked) > query.topK]
    /\ qpc' = "answered"
    /\ UNCHANGED <<query, dense, sparse, ranked>>

RetrievalDone == qpc = "answered" /\ UNCHANGED qvars

RetrievalNext == Search \/ Fuse \/ Rerank \/ Pack \/ RetrievalDone

RetrievalSpec == RetrievalInit /\ [][RetrievalNext]_qvars

-----------------------------------------------------------------------------

Rank(r, c) == IF Contains(r, c) THEN CHOOSE k \in DOMAIN r : r[k] = c ELSE Len(r) + 1

\* Consensus wins: a chunk that is at least as good as another in both
\* rankings and better in one is placed before it by the fusion, and is never
\* cut off while the other stays (rag/lib.rs:291-322).
ConsensusWins ==
    qpc = "rerank" =>
      \A c \in ToSet(dense) \cup ToSet(sparse), d \in ToSet(ranked) :
         /\ Rank(dense, c) <= Rank(dense, d) /\ Rank(sparse, c) <= Rank(sparse, d)
         /\ Rank(dense, c) < Rank(dense, d) \/ Rank(sparse, c) < Rank(sparse, d)
         => Contains(ranked, c) /\ Rank(ranked, c) < Rank(ranked, d)
=============================================================================
