---------------------------- MODULE HybridSearch ----------------------------
(***************************************************************************)
(* One uncached search of the HybridRetriever (retrieval/hybrid.py): the   *)
(* channels a request asks for and the deployment's policy allows, the     *)
(* fusion of their rankings, the re-ranking and the diversification.       *)
(*                                                                         *)
(* What models rank is free: a dense ranking is any list of points of the  *)
(* store, a lexical one any list of points, a re-ranking any order.  Index *)
(* runs and removals go on meanwhile: each read finds the store in any of  *)
(* its states, and the lexical channel ranks a corpus of its own, which    *)
(* may still hold what no store does.  The vectors the diversification     *)
(* compares are given by RelevanceOf and LikenessOf.  Channels that run in *)
(* parallel deliver in the order of the queries, so their interleaving     *)
(* leaves no trace.                                                        *)
(***************************************************************************)
EXTENDS Integers, SequencesExt, FiniteSetsExt

CONSTANTS
    Points,      \* the chunks of the store and of the BM25 corpus
    Stores,      \* what the store may hold when it is read
    IdOf,        \* the chunk_id of each; sources may share one
    SourceOf,    \* the source of each
    RelevanceOf, \* the similarity of query and point, of ten
    LikenessOf,  \* the similarity of two points, of ten
    Policies,    \* a mode for each flag: off, ui, thinking, fast
    Filters,     \* sets of sources; {} filters nothing
    Ks,          \* the numbers of results asked for
    KCand,       \* how many candidates a channel may deliver
    Store,       \* chroma or qdrant
    Scale,       \* a common denominator of the weights
    Nothing

FlagNames == {"bm25", "multiquery", "hyde", "rerank", "mmr"}
POLICY_MODES == {"off", "ui", "thinking", "fast"}

ASSUME HybridAssumption ==
    /\ IsFiniteSet(Points) /\ Stores \subseteq SUBSET Points
    /\ DOMAIN IdOf = Points /\ DOMAIN SourceOf = Points
    /\ RelevanceOf \in [Points -> 0..10]
    /\ LikenessOf \in [Points \X Points -> 0..10]
    /\ Policies \subseteq [FlagNames -> POLICY_MODES]
    /\ KCand \in Nat \ {0} /\ Ks \subseteq Nat \ {0}
    /\ Store \in {"chroma", "qdrant"}
    /\ Scale \in Nat \ {0}
    /\ \A position \in 1..KCand : \E w \in 1..Scale : Scale = w * (60 + position)

VARIABLES
    stage,   \* what comes next
    flags,   \* the channels of this search
    where,   \* its filter
    k,       \* how many results it wants
    lists,   \* the channels' rankings, until they are fused
    cands,   \* the candidates, best first
    pool,    \* history: the candidates before the diversification
    stored,  \* the points of the store when it looks their vectors up
    alone,   \* history: only one channel has delivered
    found    \* history: how many candidates there were

hybridVars == <<stage, flags, where, k, lists, cands, pool, stored, alone, found>>

\* FlagsPolicy.apply: the policy has the last word, ui leaves it to the user.
Resolve(asked, policy, mode) ==
    {f \in FlagNames : \/ policy[f] = "fast"
                       \/ policy[f] = "thinking" /\ mode = "thinking"
                       \/ policy[f] = "ui" /\ f \in asked}

\* Mutation of Matches: only the dense channel filters.
MatchesAll(p, filter) == TRUE

Matches(p, filter) == filter = {} \/ SourceOf[p] \in filter

Rankings(set) == UNION {SetToSeqs(s) : s \in SUBSET set}

Cut(s, n) == SubSeq(s, 1, IF n < Len(s) THEN n ELSE Len(s))

HybridInit ==
    /\ stage = "dense"
    /\ \E asked \in SUBSET FlagNames, policy \in Policies, mode \in {"fast", "thinking"} :
         flags = Resolve(asked, policy, mode)
    /\ where \in Filters
    /\ k \in Ks
    /\ lists = <<>> /\ cands = <<>> /\ alone = FALSE /\ found = 0
    /\ pool = Nothing /\ stored = {}

-----------------------------------------------------------------------------
(* 1: variants of the query *)

\* The hypothesis goes along with the query; without a model the query stays.
Hypotheses == IF "hyde" \in flags THEN {"hypothesis", "query"} ELSE {"query"}

\* New wordings, none without a model.
Wordings == IF "multiquery" \in flags THEN {<<"wording">>, <<>>} ELSE {<<>>}

Variants == {<<h>> \o w : h \in Hypotheses, w \in Wordings}

-----------------------------------------------------------------------------
(* 2, 3: the rankings of the channels *)

\* The store returns the nearest points its own filter lets through.
Filtered(store) == {p \in store : where = {} \/ SourceOf[p] \in where}
Nearest(store) == {s \in Rankings(Filtered(store)) :
                     Len(s) = Min({KCand, Cardinality(Filtered(store))})}

DenseChannel ==
    /\ stage = "dense"
    /\ \E queries \in Variants :
         lists' \in [1..Len(queries) -> UNION {Nearest(store) : store \in Stores}]
    /\ stage' = IF "bm25" \in flags THEN "lexical" ELSE "fuse"
    /\ UNCHANGED <<flags, where, k, cands, pool, stored, alone, found>>

\* The elements of s that are in set, in their order.
Sift(s, set) ==
    LET kept[n \in 0..Len(s)] ==
          IF n = 0 THEN <<>>
          ELSE IF s[n] \in set THEN Append(kept[n - 1], s[n]) ELSE kept[n - 1]
    IN  kept[Len(s)]

\* [c for c in s if match(c)]
Matching(s) == Sift(s, {p \in Points : Matches(p, where)})

\* BM25 ranks the whole corpus; the filter comes after the cut.
LexicalChannel ==
    /\ stage = "lexical"
    /\ \E s \in Rankings(Points) : lists' = Append(lists, Matching(Cut(s, KCand)))
    /\ stage' = "fuse"
    /\ UNCHANGED <<flags, where, k, cands, pool, stored, alone, found>>

-----------------------------------------------------------------------------
(* 4: reciprocal rank fusion, by chunk_id *)

Ids(s) == [i \in DOMAIN s |-> IdOf[s[i]]]

\* 1 / (60 + position), over the common denominator.
\* Mutation of Weight: the worst position counts most.
WeightUpwards(position) == 60 + position

Weight(position) == Scale \div (60 + position)

Sum(f) == FoldFunction(+, 0, f)
Share(l, id) == [i \in DOMAIN lists[l] |-> IF IdOf[lists[l][i]] = id THEN Weight(i) ELSE 0]
Score(id) == Sum([l \in DOMAIN lists |-> Sum(Share(l, id))])

\* by_id keeps the first point delivered with an id.
All == FlattenSeq(lists)
FirstSeen(id) == Min({i \in DOMAIN All : IdOf[All[i]] = id})
Holder(id) == All[FirstSeen(id)]

\* sorted() is stable, and the scores were entered as the ids came up.
Before(a, b) == \/ Score(a) > Score(b)
                \/ Score(a) = Score(b) /\ FirstSeen(a) < FirstSeen(b)

SortedIds ==
    CHOOSE s \in SetToSeqs(Range(Ids(All))) : \A i, j \in DOMAIN s : i < j => Before(s[i], s[j])

\* A single ranking stays as it is.
Fused ==
    IF Len(lists) > 1
    THEN LET ids == SortedIds IN [i \in DOMAIN ids |-> Holder(ids[i])]
    ELSE [i \in DOMAIN lists[1] |-> Holder(IdOf[lists[1][i]])]

Fuse ==
    /\ stage = "fuse"
    /\ cands' = Cut(Fused, KCand)
    /\ alone' = (Len(lists) = 1)
    /\ found' = IF Len(lists) = 1 THEN Len(All) ELSE Cardinality(Range(Ids(All)))
    /\ stage' = IF "rerank" \in flags THEN "rerank" ELSE "mmr"
    /\ UNCHANGED <<flags, where, k, lists, pool, stored>>

-----------------------------------------------------------------------------
(* 5: re-ranking *)

\* How many candidates the re-ranking keeps: a stock for what follows.
Kept == IF "mmr" \in flags THEN 4 * k ELSE k

\* top_k_by_score: the scores may bring any order about.
TopK(n) == {Cut([i \in DOMAIN order |-> cands[order[i]]], n) : order \in SetToSeqs(DOMAIN cands)}

Rerank ==
    /\ stage = "rerank"
    /\ cands' \in TopK(Kept)
    /\ lists' = <<>> /\ stage' = "mmr"
    /\ UNCHANGED <<flags, where, k, pool, stored, alone, found>>

-----------------------------------------------------------------------------
(* 6: maximal marginal relevance *)

\* A point is stored under its source and its chunk_id.  Chroma looks the
\* vectors up by the chunk_id among the metadata, and of two points with
\* one keeps the last; Qdrant by the key made of the chunk_id alone.
StoreKey(p) == <<SourceOf[p], IdOf[p]>>
LookedUp(id) == IF Store = "chroma" THEN {q \in stored : IdOf[q] = id}
                                    ELSE {q \in stored : StoreKey(q) = <<id>>}

\* Mutation of Pairs: the first candidate without a vector ends them.
PairsUpToGap ==
    Cut(pool, Min({i \in DOMAIN pool : LookedUp(IdOf[pool[i]]) = {}} \cup {Len(pool) + 1}) - 1)

\* The candidates a vector is found for, in their order.
Pairs == Sift(pool, {p \in Points : LookedUp(IdOf[p]) # {}})
PairIds == {IdOf[p] : p \in Range(Pairs)}
Vectors == {v \in [PairIds -> stored] : \A id \in PairIds : v[id] \in LookedUp(id)}

\* Mutation of Worth: the likeness counts for a candidate.
WorthAlike(i, vec, chosen) ==
    7 * RelevanceOf[vec[i]] + 3 * Max({LikenessOf[vec[i], vec[j]] : j \in chosen} \cup {0})

\* 7/10 relevance less 3/10 of the likeness to the nearest selected one.
Worth(i, vec, chosen) ==
    7 * RelevanceOf[vec[i]] - 3 * Max({LikenessOf[vec[i], vec[j]] : j \in chosen} \cup {0})

Best(rest, vec, chosen) ==
    Min({i \in rest : \A j \in rest : Worth(i, vec, chosen) >= Worth(j, vec, chosen)})

\* The indices selected of vec, in order, at most k.
Mmr(vec) ==
    LET chosen[n \in 0..Min({k, Len(vec)})] ==
          IF n = 0 THEN <<>>
          ELSE LET s == chosen[n - 1]
               IN  Append(s, Best(DOMAIN vec \ Range(s), vec, Range(s)))
    IN  chosen[Min({k, Len(vec)})]

Diversify ==
    /\ stage = "mmr" /\ "mmr" \in flags
    /\ pool' = Cut(cands, 4 * k)
    /\ stored' \in Stores
    /\ lists' = <<>> /\ stage' = "select"
    /\ UNCHANGED <<flags, where, k, cands, alone, found>>

\* Candidates without a vector are dropped, unless none has one.
Select ==
    /\ stage = "select"
    /\ IF Pairs = <<>>
       THEN cands' = Cut(pool, k)
       ELSE \E v \in Vectors :
              LET vec == [i \in DOMAIN Pairs |-> v[IdOf[Pairs[i]]]]
                  chosen == Mmr(vec)
              IN  cands' = [i \in DOMAIN chosen |-> Pairs[chosen[i]]]
    /\ lists' = <<>> /\ stage' = "done"
    /\ UNCHANGED <<flags, where, k, pool, stored, alone, found>>

KeepFirst ==
    /\ stage = "mmr" /\ "mmr" \notin flags
    /\ cands' = Cut(cands, k)
    /\ lists' = <<>> /\ stage' = "done"
    /\ UNCHANGED <<flags, where, k, pool, stored, alone, found>>

-----------------------------------------------------------------------------
HybridNext ==
    \/ DenseChannel \/ LexicalChannel \/ Fuse \/ Rerank
    \/ Diversify \/ Select \/ KeepFirst

HybridSpec == HybridInit /\ [][HybridNext]_hybridVars

-----------------------------------------------------------------------------
\* Whatever channel brought it, a result passes the filter, though the
\* lexical one ranks everything and a chunk_id may name two points
\* (hybrid.py:120, 133).
FilterHolds ==
    stage = "done" => where = {} \/ \A i \in DOMAIN cands : SourceOf[cands[i]] \in where

Ahead(s, p, q) ==
    \E i \in DOMAIN s : IdOf[s[i]] = IdOf[p] /\ (\A j \in DOMAIN s : IdOf[s[j]] = IdOf[q] => i < j)

Doubled(id) == \E l \in DOMAIN lists : Cardinality({i \in DOMAIN lists[l] : IdOf[lists[l][i]] = id}) > 1

\* Where every channel ranks one chunk before another, so does the fusion,
\* and the other is not a candidate without it; unless the other's chunk_id
\* names two points of a ranking, which count together (hybrid.py:36, 140).
AgreementWins ==
    stage \in {"rerank", "mmr"} /\ lists # <<>> =>
      \A p, q \in Range(All) :
        /\ ~Doubled(IdOf[q])
        /\ \A l \in DOMAIN lists : Ahead(lists[l], p, q)
        /\ \E i \in DOMAIN cands : IdOf[cands[i]] = IdOf[q]
        => Ahead(cands, p, q)

Shared(p) == \E q \in Points \ {p} : IdOf[q] = IdOf[p]

\* The search returns as many results as were asked for, if the channels
\* deliver that many chunks, and none twice, except where a single ranking
\* holds two sources' points of one chunk_id.  It falls short of that only
\* where it diversifies, then misses no candidate whose chunk is in the
\* store, and is never empty (hybrid.py:144, 145, 163, 175, 182).
NothingLost ==
    stage = "done" =>
      LET due == Min({k, KCand, found})
      IN  /\ \/ Len(cands) = due
             \/ /\ "mmr" \in flags /\ Len(cands) \in 1..due
                /\ Range(pool) \cap stored \subseteq Range(cands)
          /\ \/ IsInjective(Ids(cands))
             \/ alone /\ \E i \in DOMAIN cands : Shared(cands[i])

Gain(p, chosen) ==
    7 * RelevanceOf[p] - 3 * Max({LikenessOf[p, q] : q \in chosen} \cup {0})

\* The candidates' ids of which the store holds a point.
Known == {id \in {IdOf[p] : p \in Range(pool)} : \E q \in stored : IdOf[q] = id}

\* The user who asks for diversity gets it: each result is of a chunk in the
\* store, if any candidate is, and worth most of what is left, given those
\* before it, if every chunk_id is taken for one of the points it names
\* (hybrid.py:173-179, chroma.py:76).
DiversifiesWhenAsked ==
    stage = "done" /\ "mmr" \in flags /\ Known # {} =>
      \E v \in [Known -> stored] :
        /\ \A id \in Known : IdOf[v[id]] = id
        /\ \A i \in DOMAIN cands :
             LET before == {v[IdOf[cands[j]]] : j \in 1..(i - 1)}
                 left == {v[id] : id \in Known} \ before
             IN  /\ IdOf[cands[i]] \in Known
                 /\ \A p \in left : Gain(v[IdOf[cands[i]]], before) >= Gain(p, before)

=============================================================================
