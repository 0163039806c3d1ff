------------------------------ MODULE Answers ------------------------------
(***************************************************************************)
(* How a question becomes an answer: backend/app/rag/pipeline.py, with the *)
(* analyser, the hybrid retrieval (vectorstore/faiss_store.py,             *)
(* services/retrieval_service.py), the model gateway                       *)
(* (rag/orchestrator.py), the verifier and the decision of                 *)
(* services/chat_service.py to keep the answer.                            *)
(*                                                                         *)
(* One question at a time: the pipeline shares nothing with another one    *)
(* but the index, which is as this question finds it.  What the two        *)
(* searches return, what the cross-encoder and the language model say and  *)
(* which lookups fail is any choice, and so is which text a filter stops.  *)
(* Scores and confidences are in thousandths.  Left out: the texts, the    *)
(* prompt, the choice of the model and vLLM, which is called once, the     *)
(* log and the version of the answer, the follow-up suggestions, and that  *)
(* a search finding the vector index corrupted empties it.                 *)
(***************************************************************************)
EXTENDS Integers, FiniteSets, Sequences, SequencesExt, FiniteSetsExt

CONSTANTS
    Chunk,          \* the chunks of the index
    QueryType,      \* analysis.query_type: "comparative", "factual", ...
    Score,          \* bound: what the cross-encoder may give a chunk
    dense_top_k, bm25_top_k, rerank_top_n,     \* of the configuration
    fetch_factor,   \* how many times dense_top_k FAISS is asked for
    MAX_RETRIES,    \* calls of the model before it is given up
    MaxParts,       \* bound: parts of a compound question (3 in the code)
    MaxClaims       \* bound: claims found in an answer

VARIABLES
    stage,   \* where the question is
    q,       \* its QueryAnalysis
    asked,   \* what the retrieval found, while it is at it
    chunks,  \* the chunks retrieved, best first, with their scores
    left,    \* parts of a compound question still to answer; 0 for a single one
    parts,   \* of those answered: how many with evidence, their least confidence
    attempt, \* calls of the model made
    result,  \* the ChatResult
    cached   \* what this question put into the answer cache

vars == <<stage, q, asked, chunks, left, parts, attempt, result, cached>>

Nothing == <<>>
NoParts == [answered |-> 0, confidence |-> 1000]

-----------------------------------------------------------------------------
(* QueryAnalyzer.analyze, as far as the pipeline looks at it                 *)

Analyses ==
    {a \in [domain : {"hr", "elsewhere", "greeting"}, english : BOOLEAN,
            ambiguous : BOOLEAN, type : QueryType,
            complexity : {"simple", "moderate", "complex"},
            topic : {"plain", "sensitive", "calculation"}, parts : 1..MaxParts] :
        /\ a.ambiguous => a.domain = "hr"
        /\ a.parts > 1 => a.complexity # "simple"
        \* what the pipeline does not look at again is not told apart
        /\ ~(a.domain = "hr" /\ a.english /\ ~a.ambiguous) =>
              /\ a.parts = 1 /\ a.topic = "plain" /\ a.complexity = "simple"
              /\ a.type = CHOOSE t \in QueryType : TRUE}

\* requires_multi_retrieval, with more than one sub-query.
Compound(a) == a.parts > 1 /\ a.complexity \in {"moderate", "complex"}

\* analysis_confidence, of a question that is not ambiguous.
Certainty(a) ==
    LET sure == CASE a.topic = "sensitive" -> 900
                  [] a.topic = "calculation" -> 850
                  [] OTHER -> IF a.type \in {"comparative", "procedural"}
                              THEN 850 ELSE 800
    IN  IF a.complexity = "complex" THEN (sure * 9) \div 10 ELSE sure

-----------------------------------------------------------------------------
(* Retrieval                                                                 *)

Take(s, n) == SubSeq(s, 1, Min({n, Len(s)}))

\* Those of a list that the role may read, in its order.
Filtered(s, readable) ==
    LET kept[n \in 0..Len(s)] ==
            IF n = 0 THEN <<>>
            ELSE IF s[n] \in readable THEN Append(kept[n - 1], s[n]) ELSE kept[n - 1]
    IN  kept[Len(s)]

\* VectorStore.search: the nearest, then those the reader's role may read.  (After
\* an error, or for a vector of another dimension, it returns nothing.)
Search(order, readable) ==
    Take(Filtered(Take(order, fetch_factor * dense_top_k), readable), dense_top_k)

\* BM25Retriever.retrieve: those of the chunks, best first, that have a positive
\* score, of these those that the role may read, and the first of them.
Keywords_CutsFirst(order, positive, readable) ==
    Filtered(Take(Take(order, positive), bm25_top_k), readable)
Keywords(order, positive, readable) ==
    Take(Filtered(Take(order, positive), readable), bm25_top_k)

\* sorted: the members of S, each after those that are above it.
Sorted(S, above) ==
    [i \in 1..Cardinality(S) |->
        CHOOSE c \in S : Cardinality({d \in S : <<d, c>> \in above}) = i - 1]

\* reciprocal_rank_fusion, k = 60, weights 0.6 and 0.4.
Share(weight, found, c) ==
    IF c \in Range(found)
    THEN (weight * 1000000) \div (60 + CHOOSE i \in DOMAIN found : found[i] = c)
    ELSE 0
Fused(dense, bm25, c) == Share(6, dense, c) + Share(4, bm25, c)

\* Equal ones as they come: those of the first list, then those of the other.
Fusion(dense, bm25) ==
    LET found       == dense \o bm25
        place(c)    == Min({i \in DOMAIN found : found[i] = c})
        score(c)    == Fused(dense, bm25, c)
        above(c, d) == \/ score(c) > score(d)
                       \/ score(c) = score(d) /\ place(c) < place(d)
    IN  Sorted(Range(found), {e \in Range(found) \X Range(found) : above(e[1], e[2])})

\* Reranker.rerank when the cross-encoder could not be loaded: the first as they
\* come, with the scores of the fusion (at most 1/61).
Unranked(fusion) ==
    [i \in 1..Min({rerank_top_n, Len(fusion)}) |->
        [id |-> fusion[i],
         score |-> Fused(asked.dense, asked.bm25, fusion[i]) \div 10000]]

\* Otherwise: by the scores of the cross-encoder, equal ones as they come.
Ranked(fusion, score) ==
    LET place(c)    == CHOOSE i \in DOMAIN fusion : fusion[i] = c
        above(c, d) == \/ score[c] > score[d]
                       \/ score[c] = score[d] /\ place(c) < place(d)
        sorted      == Sorted(Range(fusion), {e \in Range(fusion) \X Range(fusion) :
                                                  above(e[1], e[2])})
    IN  [i \in 1..Min({rerank_top_n, Len(fusion)}) |->
            [id |-> sorted[i], score |-> score[sorted[i]]]]

-----------------------------------------------------------------------------
(* AnswerVerifier.verify: of an answer with so many claims, so many of them  *)
(* supported by a chunk, and so many sources cited                           *)

Average(C) == FoldLeft(LAMBDA sum, c : sum + c.score, 0, C) \div Len(C)

Grounding(claims, supported, citations) ==
    IF claims = 0 THEN 1000
    ELSE Max({(1000 * supported) \div claims,
              Min({1000, (1000 * citations) \div claims})})

Weighed(a, c) ==
    LET adjusted == CASE a.topic = "sensitive" -> Min({c, 850})
                      [] a.topic = "calculation" -> (95 * c) \div 100
                      [] OTHER -> c
    IN  (adjusted * (700 + (3 * Certainty(a)) \div 10)) \div 1000

Confidence(a, C, claims, supported, citations) ==
    LET mean == (Average(C) * Grounding(claims, supported, citations)) \div 1000
        strong == C[1].score > 500 /\ (claims = 0 \/ 2 * supported > claims)
    IN  Weighed(a, IF strong THEN Max({mean, 500}) ELSE mean)

\* Citations are the sources the model names or, when it names none, those of the
\* first three chunks: as many as the chunks have, but never none.
Verdicts(a, C) ==
    UNION {{[supported |-> supported,
             confidence |-> Confidence(a, C, claims, supported, citations)] :
               supported \in 0..claims, citations \in 1..Len(C)} :
           claims \in 0..MaxClaims}

-----------------------------------------------------------------------------
(* The steps of RAGPipeline.query                                            *)

Init ==
    /\ stage = "idle" /\ q = Nothing /\ asked = Nothing /\ chunks = <<>>
    /\ left = 0 /\ parts = NoParts /\ attempt = 0
    /\ result = Nothing /\ cached = Nothing

\* POST /chat/query
Ask ==
    /\ stage = "idle"
    /\ q' \in Analyses
    /\ stage' = "asked" /\ left' = 0 /\ parts' = NoParts
    /\ asked' = Nothing /\ chunks' = <<>> /\ attempt' = 0
    /\ result' = Nothing /\ cached' = Nothing

\* pre_guard and the checks before it: what is empty, too long or looks like an
\* attack gets no further.
Refuse ==
    /\ stage = "asked" /\ stage' = "idle" /\ q' = Nothing
    /\ UNCHANGED <<asked, chunks, left, parts, attempt, result, cached>>

Result(kind, confidence, support) ==
    [kind |-> kind, confidence |-> confidence, support |-> support, replaced |-> FALSE]

Done(next) ==
    /\ stage' = next /\ chunks' = <<>> /\ asked' = Nothing /\ attempt' = 0
    /\ UNCHANGED <<q, left, parts, cached>>
Answered(kind, confidence, support) ==
    result' = Result(kind, confidence, support) /\ Done("answered")

\* Questions of another domain are told where to go; greetings are greeted.
Redirect ==
    /\ stage = "asked" /\ q.domain # "hr"
    /\ Answered(IF q.domain = "greeting" THEN "greeting" ELSE "redirect", 1000, 0)

\* The best of the active corrections, when it is near enough, or else the best of
\* the FAQs; a lookup that fails matches nothing.
Correction == Answered("correction", 1000, 0)
Faq        == Answered("faq", 1000, 0)
Curated    == stage = "asked" /\ q.domain = "hr" /\ (Correction \/ Faq)

\* None does: other languages are refused, vague questions asked back.
Foreign ==
    /\ stage = "asked" /\ q.domain = "hr" /\ ~q.english
    /\ Answered("language_unsupported", 1000, 0)
Clarify ==
    /\ stage = "asked" /\ q.domain = "hr" /\ q.english /\ q.ambiguous
    /\ Answered("clarification", 1000, 0)

\* The others go to the documents, a compound question part by part.
Begin ==
    /\ stage = "asked" /\ q.domain = "hr" /\ q.english /\ ~q.ambiguous
    /\ stage' = "search"
    /\ left' = IF Compound(q) THEN q.parts ELSE 0
    /\ UNCHANGED <<q, asked, chunks, parts, attempt, result, cached>>

\* The two searches and their fusion.
Retrieve ==
    /\ stage = "search"
    /\ \E nearest, order \in SetToSeqs(Chunk), positive \in 0..Cardinality(Chunk),
          readable \in SUBSET Chunk :
          \E dense \in {Search(nearest, readable), <<>>} :
             LET bm25 == Keywords(order, positive, readable)
             IN  asked' = [dense |-> dense, bm25 |-> bm25, readable |-> readable,
                           scored |-> Range(Take(order, positive)),
                           fusion |-> Fusion(dense, bm25)]
    /\ stage' = "fused"
    /\ UNCHANGED <<q, chunks, left, parts, attempt, result, cached>>

\* The cross-encoder, or the order of the fusion when it is not there.
Rerank ==
    /\ stage = "fused"
    /\ \/ chunks' = Unranked(asked.fusion)
       \/ \E score \in [Range(asked.fusion) -> Score] :
             chunks' = Ranked(asked.fusion, score)
    /\ stage' = "retrieved" /\ asked' = Nothing
    /\ UNCHANGED <<q, left, parts, attempt, result, cached>>

\* An exception on the way: no chunks.
RetrieveFails ==
    /\ stage \in {"search", "fused"}
    /\ chunks' = <<>> /\ stage' = "retrieved" /\ asked' = Nothing
    /\ UNCHANGED <<q, left, parts, attempt, result, cached>>

\* The next part of a compound question, or the end of it.
Onward ==
    /\ left' = left - 1
    /\ stage' = IF left = 1 THEN "merge" ELSE "search"
    /\ chunks' = <<>> /\ attempt' = 0
    /\ UNCHANGED <<q, asked, result, cached>>

NoChunks ==
    /\ stage = "retrieved" /\ chunks = <<>>
    /\ left = 0 /\ Answered(q.type, 0, 0)
NoPart ==
    /\ stage = "retrieved" /\ chunks = <<>>
    /\ left > 0 /\ Onward /\ UNCHANGED parts

\* ModelGateway: a call that cannot connect or times out is repeated.
Generate ==
    /\ stage = "retrieved" /\ chunks # <<>>
    /\ attempt' = attempt + 1
    /\ stage' \in {"generated", IF attempt + 1 < MAX_RETRIES THEN "retrieved" ELSE "failed"}
    /\ UNCHANGED <<q, asked, chunks, left, parts, result, cached>>

\* Any other answer than a good one, or the last call: the answer is an apology.
Failing == stage = "failed" \/ (stage = "retrieved" /\ chunks # <<>>)
GenerateFails == Failing /\ left = 0 /\ Answered(q.type, 0, 0)
PartFails     == Failing /\ left > 0 /\ Onward /\ UNCHANGED parts

\* verify and handle_ungrounded: that blocks only what has no citation, and what
\* was made from chunks always has one.
Verify ==
    /\ stage = "generated" /\ left = 0
    /\ \E v \in Verdicts(q, chunks) : result' = Result(q.type, v.confidence, v.supported)
    /\ Done("verified")
VerifyPart ==
    /\ stage = "generated" /\ left > 0 /\ Onward
    /\ \E v \in Verdicts(q, chunks) :
          parts' = [answered |-> parts.answered + 1,
                    confidence |-> Min({parts.confidence, v.confidence})]

\* sanitize_response and post_guard put a refusal in the place of a text they
\* stop; its confidence stays what the verifier gave the text.
Sanitized(r) == {r, [r EXCEPT !.replaced = TRUE]}
Guarded(r)   == {r, [r EXCEPT !.replaced = TRUE]}

Finish ==
    /\ stage = "verified"
    /\ \E r \in Sanitized(result) : result' \in Guarded(r)
    /\ Done("answered")

\* _answer_compound_query: the parts as one answer, of the least of their
\* confidences; parts without an answer leave that alone. post_guard is not asked.
Merge ==
    /\ stage = "merge"
    /\ result' \in Sanitized(Result("compound", parts.confidence, parts.answered))
    /\ Done("answered")

\* An exception in it: the question is taken as a single one.
CompoundFails ==
    /\ left > 0 \/ stage = "merge"
    /\ stage' = "search" /\ left' = 0 /\ parts' = NoParts
    /\ asked' = Nothing /\ chunks' = <<>> /\ attempt' = 0
    /\ UNCHANGED <<q, result, cached>>

\* handle_query keeps the answer when it is confident enough.
Kept == /\ result.confidence >= 400
        /\ result.kind \notin {"clarification", "redirect", "greeting"}
Deliver ==
    /\ stage = "answered" /\ stage' = "idle"
    /\ cached' = IF Kept THEN result ELSE Nothing
    /\ q' = Nothing /\ left' = 0 /\ parts' = NoParts /\ result' = Nothing
    /\ UNCHANGED <<asked, chunks, attempt>>

Next ==
    \/ Ask \/ Refuse \/ Redirect \/ Curated \/ Foreign \/ Clarify \/ Begin
    \/ Retrieve \/ Rerank \/ RetrieveFails \/ NoChunks \/ NoPart
    \/ Generate \/ GenerateFails \/ PartFails \/ Verify \/ VerifyPart
    \/ Finish \/ Merge \/ CompoundFails \/ Deliver

Spec == Init /\ [][Next]_vars

-----------------------------------------------------------------------------
(* Properties                                                                *)

TypeOK ==
    /\ stage \in {"idle", "asked", "search", "fused", "retrieved", "generated",
                  "failed", "merge", "verified", "answered"}
    /\ left \in 0..MaxParts /\ attempt \in 0..MAX_RETRIES
    /\ parts \in [answered : 0..MaxParts, confidence : 0..1000]
    /\ \A i \in DOMAIN chunks : chunks[i].score \in 0..1000
    /\ stage = "answered" => result.confidence \in 0..1000
    /\ cached # Nothing => cached.confidence \in 400..1000

\* Whoever may read a chunk with a positive keyword score is not left without
\* chunks, whatever the chunks before it that they may not read, and even when the
\* vector search fails: the keyword search filters before it cuts, where FAISS
\* fetches only three times as much as is asked for and then filters.  (To share a
\* word with the question is not enough: BM25Okapi gives a word that half of the
\* chunks contain no weight.)  And what is found may be read.
ReadableIsFound ==
    stage = "fused" =>
        /\ asked.scored \cap asked.readable # {} => asked.fusion # <<>>
        /\ Range(asked.fusion) \subseteq asked.readable

\* What handle_query keeps for the next who ask is "only for grounded responses"
\* (chat_service.py): an answer from documents is what was verified, and a compound
\* one has a part that was made from a document.  VIOLATED: a compound answer starts
\* with a confidence of 1.0, which parts without an answer do not lower, and a
\* refusal that replaces an answer has that answer's confidence.
OnlyGroundedIsCached ==
    cached # Nothing =>
        /\ ~cached.replaced
        /\ cached.kind = "compound" => cached.support > 0
=============================================================================
