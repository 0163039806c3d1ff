---------------------------- MODULE AnswerCache ----------------------------
(***************************************************************************)
(* The answers kept for questions that are asked again:                    *)
(* backend/app/core/semantic_cache.py, filled and read by                  *)
(* services/chat_service.py, invalidated by api/document_routes.py.        *)
(*                                                                         *)
(* An entry lives in Redis, so every worker and the Celery workers see it, *)
(* or in the memory of the worker that could not reach Redis.  It is found *)
(* by the exact question only: the one caller passes no embedding.  The    *)
(* documents are here as far as an answer may cite them: the title it      *)
(* cites, and which edition of the document was indexed.                   *)
(*                                                                         *)
(* Left out: the tenants (every caller uses the default one), the answer's *)
(* text, which entry of a full memory is the oldest (any goes), and        *)
(* warm_tenant_cache, which fills entries of other tenants' keys from a    *)
(* table nothing writes.  What becomes of the index in the other workers   *)
(* is DocumentIndex.tla's business.                                        *)
(***************************************************************************)
EXTENDS Integers, FiniteSets, Functions

CONSTANTS
    Worker,      \* uvicorn worker processes
    Query,       \* questions
    Doc,         \* documents, as the administrators think of them
    SameName,    \* those of them whose title contains the name of their file
    MaxEdition,  \* bound: times one document is uploaded
    MaxMemory    \* entries a worker keeps in its memory (500)

VARIABLES
    doc,        \* each document: in the index or not, its edition, how it went
    cache,      \* sc:hash:{question} in Redis: what the answer kept for it cites
    memory,     \* _memory_cache of each worker
    up,         \* whether Redis can be reached
    connected,  \* the workers that have a _redis_client; they never give it up
    missed,     \* history: documents whose last invalidation Redis did not hear
    req         \* what each worker is doing

vars == <<doc, cache, memory, up, connected, missed, req>>

Idle == [pc |-> "idle"]
Cited == {[doc |-> d, edition |-> e] : d \in Doc, e \in 1..MaxEdition}
IsCache(f) == DOMAIN f \subseteq Query /\ \A q \in DOMAIN f : f[q] \subseteq Cited

TypeOK ==
    /\ doc \in [Doc -> [state : {"absent", "indexed", "deleted", "purged"},
                        edition : 0..MaxEdition]]
    /\ IsCache(cache)
    /\ \A w \in Worker : IsCache(memory[w]) /\ Cardinality(DOMAIN memory[w]) <= MaxMemory
    /\ up \in BOOLEAN /\ connected \subseteq Worker /\ missed \subseteq Doc
    /\ \A w \in Worker : req[w].pc \in {"idle", "answer", "put", "invalidate"}

Init ==
    /\ doc = [d \in Doc |-> [state |-> "absent", edition |-> 0]]
    /\ cache = [q \in {} |-> {}]
    /\ memory = [w \in Worker |-> [q \in {} |-> {}]]
    /\ up = TRUE /\ connected = {} /\ missed = {}
    /\ req = [w \in Worker |-> Idle]

-----------------------------------------------------------------------------
(* The two places of an entry. A worker without a client tries to connect on *)
(* every call; one with a client uses it, whether Redis answers or not.      *)

Client(w) == w \in connected \/ up
Connect(w) == connected' = IF up THEN connected \cup {w} ELSE connected

\* What a question is looked up in.
Served(w) == IF Client(w) THEN cache ELSE memory[w]

With(entries, q, cites) ==
    [p \in DOMAIN entries \cup {q} |-> IF p = q THEN cites ELSE entries[p]]
Without(entries, S) == Restrict(entries, DOMAIN entries \ S)

-----------------------------------------------------------------------------
(* ChatService.handle_query                                                  *)

\* A first question of a session is looked up; without an entry it goes to the
\* pipeline, as every other question does.
Ask(w, q, first) ==
    /\ req[w].pc = "idle"
    /\ IF first THEN /\ Connect(w) /\ (Client(w) => up)
                     /\ q \notin DOMAIN Served(w)
       ELSE UNCHANGED connected
    /\ req' = [req EXCEPT ![w] = [pc |-> "answer", query |-> q]]
    /\ UNCHANGED <<doc, cache, memory, up, missed>>

\* With one it is answered at once; a client that does not reach Redis raises.
Hit(w, q) ==
    /\ req[w].pc = "idle"
    /\ (Client(w) /\ ~up) \/ q \in DOMAIN Served(w)
    /\ Connect(w)
    /\ UNCHANGED <<doc, cache, memory, up, missed, req>>

Citable == {[doc |-> d, edition |-> doc[d].edition] :
                d \in {d \in Doc : doc[d].state = "indexed"}}

\* The pipeline's answer cites documents of the index, or none of them: those of
\* corrections, FAQs, languages.
Answer(w) ==
    /\ req[w].pc = "answer"
    /\ \E C \in SUBSET Citable :
          req' = [req EXCEPT ![w] = [pc |-> "put", query |-> @.query, cites |-> C]]
    /\ UNCHANGED <<doc, cache, memory, up, connected, missed>>

\* put_cache, for an answer of some confidence and of the kinds that are kept: in
\* Redis or, when it cannot be reached, in memory, where a full one makes room.
Remember(w, q, cites) ==
    \/ /\ Cardinality(DOMAIN memory[w]) < MaxMemory
       /\ memory' = [memory EXCEPT ![w] = With(@, q, cites)]
    \/ /\ Cardinality(DOMAIN memory[w]) >= MaxMemory
       /\ \E oldest \in DOMAIN memory[w] :
             memory' = [memory EXCEPT ![w] = With(Without(@, {oldest}), q, cites)]
Put(w) ==
    LET r == req[w] IN
    /\ r.pc = "put" /\ Connect(w)
    /\ IF up THEN cache' = With(cache, r.query, r.cites) /\ UNCHANGED memory
       ELSE Remember(w, r.query, r.cites) /\ UNCHANGED cache
    /\ req' = [req EXCEPT ![w] = Idle]
    /\ UNCHANGED <<doc, up, missed>>

\* The others are only returned.
Forgo(w) ==
    /\ req[w].pc \in {"answer", "put"}
    /\ req' = [req EXCEPT ![w] = Idle]
    /\ UNCHANGED <<doc, cache, memory, up, connected, missed>>

-----------------------------------------------------------------------------
(* Documents change; then the answers that cite them are looked for.         *)
(* invalidate_on_document_change takes what the caller gives it for a part   *)
(* of the title a citation carries.                                          *)

\* What each handler gives it.
Given_FileName(how) == "name"
Given(how) == IF how = "delete" THEN "title" ELSE "name"

Matches(d, given) == given = "title" \/ d \in SameName

Change(w, d, how, state, edition) ==
    /\ req[w].pc = "idle"
    /\ doc' = [doc EXCEPT ![d] = [state |-> state, edition |-> edition]]
    /\ req' = [req EXCEPT ![w] = [pc |-> "invalidate", doc |-> d, given |-> Given(how)]]
    /\ UNCHANGED <<cache, memory, up, connected, missed>>

\* upload_document, of a new document or over the one it replaces.
Upload(w, d) ==
    /\ doc[d].edition < MaxEdition
    /\ Change(w, d, "upload", "indexed", doc[d].edition + 1)

Delete(w, d) ==
    /\ doc[d].state = "indexed"
    /\ Change(w, d, "delete", "deleted", doc[d].edition)

BatchDelete(w, d) ==
    /\ doc[d].state = "indexed"
    /\ Change(w, d, "batch", "purged", doc[d].edition)

\* A client that does not reach Redis is a warning in the log.
Citing(entries, d, given) ==
    {q \in DOMAIN entries : Matches(d, given) /\ \E c \in entries[q] : c.doc = d}
Invalidate(w) ==
    LET r == req[w] IN
    /\ r.pc = "invalidate" /\ Connect(w)
    /\ \/ /\ Client(w) /\ up
          /\ cache' = Without(cache, Citing(cache, r.doc, r.given))
          /\ missed' = missed \ {r.doc}
          /\ UNCHANGED memory
       \/ /\ Client(w) /\ ~up
          /\ missed' = missed \cup {r.doc}
          /\ UNCHANGED <<cache, memory>>
       \/ /\ ~Client(w)
          /\ memory' = [memory EXCEPT ![w] = Without(@, Citing(@, r.doc, r.given))]
          /\ UNCHANGED <<cache, missed>>
    /\ req' = [req EXCEPT ![w] = Idle]
    /\ UNCHANGED <<doc, up>>

-----------------------------------------------------------------------------
(* The cache on its own                                                      *)

\* POST /admin/cache/clear
Clear(w) ==
    /\ req[w].pc = "idle" /\ Connect(w)
    /\ IF up THEN cache' = Without(cache, DOMAIN cache) /\ UNCHANGED memory
       ELSE memory' = [memory EXCEPT ![w] = Without(@, DOMAIN @)] /\ UNCHANGED cache
    /\ UNCHANGED <<doc, up, missed, req>>

\* CACHE_TTL_SECONDS, in Redis and in memory.
Expire(q) ==
    /\ q \in DOMAIN cache
    /\ cache' = Without(cache, {q})
    /\ UNCHANGED <<doc, memory, up, connected, missed, req>>
Forget(w, q) ==
    /\ q \in DOMAIN memory[w]
    /\ memory' = [memory EXCEPT ![w] = Without(@, {q})]
    /\ UNCHANGED <<doc, cache, up, connected, missed, req>>

\* Redis goes away, or is back.
Turn ==
    /\ up' = ~up
    /\ UNCHANGED <<doc, cache, memory, connected, missed, req>>

-----------------------------------------------------------------------------
Next ==
    \/ \E w \in Worker :
          \/ \E q \in Query :
                Hit(w, q) \/ Forget(w, q) \/ \E first \in BOOLEAN : Ask(w, q, first)
          \/ Answer(w) \/ Put(w) \/ Forgo(w)
          \/ \E d \in Doc : Upload(w, d) \/ Delete(w, d) \/ BatchDelete(w, d)
          \/ Invalidate(w) \/ Clear(w)
    \/ \E q \in Query : Expire(q)
    \/ Turn

Spec == Init /\ [][Next]_vars

-----------------------------------------------------------------------------
(* Properties                                                                *)

\* No handler is between the change of the document and its invalidation, and
\* Redis heard of that.
Settled(d) ==
    /\ d \notin missed
    /\ \A w \in Worker : ~(req[w].pc = "invalidate" /\ req[w].doc = d)

(* An answer that cites a document is not served once that document was      *)
(* deleted with DELETE /documents/{id}, whether it was kept in Redis or in a *)
(* worker's memory and whether Redis came or went meanwhile, unless Redis    *)
(* could not be reached for that very invalidation. True of one worker; with *)
(* a second one an answer that was being computed meanwhile is kept after    *)
(* the invalidation, for CACHE_TTL_SECONDS.                                  *)
DeletedIsNotServed ==
    \A w \in Worker : \A q \in DOMAIN Served(w) :
        \A c \in Served(w)[q] : Settled(c.doc) => doc[c.doc].state # "deleted"

(* document_routes.py, upload and batch_delete: "Invalidate cached           *)
(* answers that cited this document (content may have changed)". An answer   *)
(* served cites the documents as they are. Not so: these two handlers look   *)
(* for the name of the file among the citations, which carry titles.         *)
ServedIsCurrent ==
    \A w \in Worker : \A q \in DOMAIN Served(w) :
        \A c \in Served(w)[q] : Settled(c.doc) =>
            doc[c.doc] = [state |-> "indexed", edition |-> c.edition]
=============================================================================
