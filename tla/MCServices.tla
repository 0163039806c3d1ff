----------------------------- MODULE MCServices -----------------------------
(***************************************************************************)
(* One instance of nine modules whose components share no state: a         *)
(* behaviour is one of Tenants, AIRouter, Conversations, AnswerCache,      *)
(* Learning, BackgroundTasks, Answers, Chunking or RateLimits, whichever   *)
(* "part" says, and the others stay as they are in it.  A product of them  *)
(* would show no more.  Tenants is two parts: the copies of configurations *)
(* and the HRMS snapshots share the table of tenants, which changes in     *)
(* both, but neither reads the other.                                      *)
(*                                                                         *)
(* Two sets of two model values, One and Other, stand for every set whose  *)
(* members are alike, so that their permutations serve all the parts.      *)
(***************************************************************************)
EXTENDS Integers, FiniteSets, TLC

CONSTANTS
    Worker, One, Other,
    Celery, Slug, Reserved, None, Limit, max_retries,              \* Tenants
    Limits, MaxUsage,                                              \* AIRouter
    Session, Stream, MAX_TURNS_PER_SESSION,                        \* Conversations
    Doc, SameName, MaxEdition, MaxMemory,                          \* AnswerCache
    min_feedback_count, MaxFeedback, MaxCorrections, MaxVersions, MaxItems,
    MAX_TASK_HISTORY, MaxRestarts,                                 \* BackgroundTasks
    Chunk, QueryType, Score, dense_top_k, bm25_top_k, rerank_top_n,
    fetch_factor, MAX_RETRIES, MaxParts, MaxClaims,                \* Answers
    size, overlap, MIN_CHUNK_WORDS, Length, MaxSections, MaxSentences, \* Chunking
    GLOBAL_RATE_WINDOW, LOGIN_WINDOW_SECONDS, FAILED_WINDOW,       \* RateLimits
    REGISTRATION_WINDOW_SECONDS, USER_QUERY_RATE_WINDOW, UPLOAD_RATE_WINDOW,
    QUERY_WINDOW, DAY, ACCOUNT_LOCKOUT_SECONDS,
    GLOBAL_RATE_LIMIT, MAX_LOGIN_ATTEMPTS_PER_IP, MAX_FAILED_PER_ACCOUNT,
    MAX_REGISTRATIONS_PER_IP, USER_QUERY_RATE_LIMIT, UPLOAD_RATE_LIMIT,
    queries_per_hour, uploads_per_day, Account

(* What the sets and the bounds of the code are like, for every instance:     *)
(* the default tenant has a slug, questions, providers and workers are finite, *)
(* a usage limit is a count and 0 stands for none, corrections and the task   *)
(* history are limited by counts, a session may hold a turn, a failed login   *)
(* is remembered for as long as it can lock (an hour, 15 minutes), and the    *)
(* overlap has room for what is too short for a chunk (50 words and more, 15).*)
(* The index is finite and the searches return up to so many chunks (20).     *)
ASSUME SlugAssumption == "default" \in Slug
ASSUME FiniteAssumption == IsFiniteSet(One) /\ IsFiniteSet(Other) /\ IsFiniteSet(Worker)
ASSUME LimitsAssumption == Limits \subseteq Nat
ASSUME CorrectionsAssumption == MaxCorrections \in Nat
ASSUME HistoryAssumption == MAX_TASK_HISTORY \in Nat
ASSUME TurnsAssumption == MAX_TURNS_PER_SESSION \in Nat \ {0}
ASSUME LockoutAssumption ==
    /\ MAX_FAILED_PER_ACCOUNT \in Nat \ {0}
    /\ ACCOUNT_LOCKOUT_SECONDS \in Nat \ {0}
    /\ FAILED_WINDOW \in Nat /\ ACCOUNT_LOCKOUT_SECONDS <= FAILED_WINDOW
ASSUME OverlapAssumption ==
    /\ MIN_CHUNK_WORDS \in Nat /\ overlap \in Nat /\ MIN_CHUNK_WORDS <= overlap + 1
    /\ Length \subseteq Nat /\ MaxSections \in Nat /\ MaxSentences \in Nat
ASSUME SearchAssumption ==
    /\ IsFiniteSet(Chunk)
    /\ fetch_factor \in Nat /\ dense_top_k \in Nat /\ bm25_top_k \in Nat \ {0}

VARIABLES
    part,
    tenant, cache, req, queue, adapter, snapshot, had, doubtful,
    row, mode, call, rreq, changed,
    owner, issued, turns, creq, stream,
    doc, kcache, memory, up, connected, missed, kreq,
    feedback, correction, versions, lqueue, made, lreq,
    status, table, home, flag, job, silent, overdue, cancel, killed,
    stage, q, asked, chunks, left, parts, attempt, result, cached,
    page, pieces,
    log, lock, wrong

T == INSTANCE Tenants WITH Provider <- Other
R == INSTANCE AIRouter WITH Provider <- Other, Caller <- One, req <- rreq
C == INSTANCE Conversations WITH Worker <- Other, User <- One, req <- creq
K == INSTANCE AnswerCache WITH Query <- One, cache <- kcache, req <- kreq
E == INSTANCE Learning WITH Query <- One, Similar <- One \X One, Text <- Other,
                            queue <- lqueue, req <- lreq
B == INSTANCE BackgroundTasks WITH Task <- One
A == INSTANCE Answers
P == INSTANCE Chunking WITH chunks <- pieces
L == INSTANCE RateLimits WITH Ip <- One, Tenant <- {"default"}

tvars == <<tenant, cache, req, queue, adapter, snapshot, had, doubtful>>
rvars == <<row, mode, call, rreq, changed>>
cvars == <<owner, issued, turns, creq, stream>>
kvars == <<doc, kcache, memory, up, connected, missed, kreq>>
evars == <<feedback, correction, versions, lqueue, made, lreq>>
bvars == <<status, table, home, flag, job, silent, overdue, cancel, killed>>
avars == <<stage, q, asked, chunks, left, parts, attempt, result, cached>>
pvars == <<page, pieces>>
lvars == <<log, lock, wrong>>

MCInit ==
    /\ part \in {"configs", "snapshots", "router", "chat", "cache", "learning", "background", "answers",
                "chunking", "limits"}
    /\ T!Init /\ R!Init /\ C!Init /\ K!Init /\ E!Init /\ B!Init /\ A!Init /\ P!Init /\ L!Init
MCNext ==
    /\ UNCHANGED part
    /\ \/ /\ \/ part = "configs" /\ T!Next /\ UNCHANGED T!hrms
             \/ part = "snapshots" /\ T!Next /\ UNCHANGED T!copies
          /\ UNCHANGED <<rvars, cvars, kvars, evars, bvars, avars, pvars, lvars>>
       \/ /\ part = "router" /\ R!Next
          /\ UNCHANGED <<tvars, cvars, kvars, evars, bvars, avars, pvars, lvars>>
       \/ /\ part = "chat" /\ C!Next
          /\ UNCHANGED <<tvars, rvars, kvars, evars, bvars, avars, pvars, lvars>>
       \/ /\ part = "cache" /\ K!Next
          /\ UNCHANGED <<tvars, rvars, cvars, evars, bvars, avars, pvars, lvars>>
       \/ /\ part = "learning" /\ E!Next
          /\ UNCHANGED <<tvars, rvars, cvars, kvars, bvars, avars, pvars, lvars>>
       \/ /\ part = "background" /\ B!Next
          /\ UNCHANGED <<tvars, rvars, cvars, kvars, evars, avars, pvars, lvars>>
       \/ /\ part = "answers" /\ A!Next
          /\ UNCHANGED <<tvars, rvars, cvars, kvars, evars, bvars, pvars, lvars>>
       \/ /\ part = "chunking" /\ P!Next
          /\ UNCHANGED <<tvars, rvars, cvars, kvars, evars, bvars, avars, lvars>>
       \/ /\ part = "limits" /\ L!Next
          /\ UNCHANGED <<tvars, rvars, cvars, kvars, evars, bvars, avars, pvars>>
MCSpec ==
    MCInit /\ [][MCNext]_<<part, tvars, rvars, cvars, kvars, evars, bvars, avars, pvars, lvars>>

(* The properties, under the names they have in their modules.             *)
CachedConfigIsCurrent == T!CachedConfigIsCurrent
SnapshotIsTheTenants  == T!SnapshotIsTheTenants
OverrunIsBounded      == R!OverrunIsBounded
TurnsAreCapped        == C!TurnsAreCapped
DeletedIsNotServed    == K!DeletedIsNotServed
EditsAreRecoverable   == E!EditsAreRecoverable
JobsLeaveAVerdict     == B!JobsLeaveAVerdict
ReadableIsFound       == A!ReadableIsFound
LostPiecesAreShort    == P!LostPiecesAreShort
GuessesAreBounded     == L!GuessesAreBounded

Alike == Permutations(One) \cup Permutations(Other)
=============================================================================
