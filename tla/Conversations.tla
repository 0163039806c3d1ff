--------------------------- MODULE Conversations ---------------------------
(***************************************************************************)
(* Chat sessions and their turns: backend/app/database/session_store.py,   *)
(* as api/chat_routes.py and services/chat_service.py use it, and the      *)
(* erasures of api/user_routes.py and api/admin_routes.py.                 *)
(*                                                                         *)
(* A question is answered inside its handler.  A streamed answer outlives  *)
(* its handler: between two of its tokens the worker serves other requests,*)
(* and its turn is stored when the stream ends, completed or not; and once *)
(* more when a completed one fails before the client has its last event.   *)
(*                                                                         *)
(* Left out: the text of a turn, times (turns are in the order in which    *)
(* they were stored), the rate limit and the filters before the handler    *)
(* touches the session, feedback, escalations and saved prompts, which are *)
(* single inserts.  What the answer says is Answers.tla's business.        *)
(***************************************************************************)
EXTENDS Integers, Sequences, FiniteSets

CONSTANTS
    Worker,             \* uvicorn worker processes
    User,
    Session,            \* session ids; each is given once
    Stream,             \* answers that are streamed at a time
    MAX_TURNS_PER_SESSION

VARIABLES
    owner,    \* table sessions: whose session it is
    issued,   \* session ids given so far, to whom
    turns,    \* table turns, by session: whether a question or an answer
    req,      \* what each worker is doing
    stream    \* the streamed answers

vars == <<owner, issued, turns, req, stream>>

Nothing == [pc |-> "idle"]
Live    == DOMAIN owner                       \* the rows of sessions
Turn    == {"user", "assistant"}              \* turns.role

-----------------------------------------------------------------------------
(* SessionStore.add_turn: count, make room, insert. The session's row is not *)
(* looked at; updating last_active of a row that is gone does nothing.       *)

Kept == (MAX_TURNS_PER_SESSION * 8) \div 10

Full_OffByOne(n) == n > MAX_TURNS_PER_SESSION
Full(n) == n >= MAX_TURNS_PER_SESSION

\* The transaction, given the number of turns counted before it began.
Added(ts, counted, t) ==
    LET trim == IF Full(counted) THEN counted - Kept ELSE 0
    IN  Append(SubSeq(ts, trim + 1, Len(ts)), t)

-----------------------------------------------------------------------------
TypeOK ==
    /\ issued \in [Session -> User \cup {"none"}]
    /\ Live \subseteq Session /\ \A s \in Live : owner[s] = issued[s]
    /\ \A s \in Session : \A i \in DOMAIN turns[s] : turns[s][i] \in Turn
    /\ \A w \in Worker : req[w].pc \in {"idle", "open", "count", "insert"}
    /\ \A x \in Stream : stream[x].pc \in {"idle", "flowing", "sent"}

Init ==
    /\ owner = [s \in {} |-> "none"]
    /\ issued = [s \in Session |-> "none"]
    /\ turns = [s \in Session |-> <<>>]
    /\ req = [w \in Worker |-> Nothing]
    /\ stream = [x \in Stream |-> Nothing]

Without(S) == [s \in Live \ S |-> owner[s]]
Emptied(S) == [s \in Session |-> IF s \in S THEN <<>> ELSE turns[s]]

\* _verify_session_owner: no row and another's row are both refused.
Owns(u, s) == s \in Live /\ owner[s] = u

-----------------------------------------------------------------------------
(* POST /chat/query and /chat/query/stream                                   *)

\* The owner of the session named is checked, when one is named.
Checked(w, u, s, streamed) ==
    /\ req[w].pc = "idle"
    /\ req' = [req EXCEPT ![w] = [pc |-> "open", user |-> u, session |-> s,
                                  streamed |-> streamed]]
    /\ s # "new" => Owns(u, s)
    /\ UNCHANGED <<owner, issued, turns, stream>>
Ask(w, u, s)         == Checked(w, u, s, FALSE)
AskStreamed(w, u, s) == Checked(w, u, s, TRUE)

\* get_session, or create_session when none was named or it is gone by now.
Open(w) ==
    LET r == req[w] IN
    /\ r.pc = "open"
    /\ \E s \in Session :
          /\ IF r.session \in Live
             THEN s = r.session /\ UNCHANGED <<owner, issued>>
             ELSE /\ issued[s] = "none"
                  /\ issued' = [issued EXCEPT ![s] = r.user]
                  /\ owner' = [t \in Live \cup {s} |-> IF t = s THEN r.user ELSE owner[t]]
          /\ req' = [req EXCEPT ![w] = [pc |-> "count", session |-> s,
                                        streamed |-> r.streamed, role |-> "user"]]
    /\ UNCHANGED <<turns, stream>>

\* The pipeline failed, or there is nothing to stream: nothing is stored.
Unanswered(w) ==
    /\ req[w].pc = "count" /\ req[w].role = "user"
    /\ req' = [req EXCEPT ![w] = Nothing]
    /\ UNCHANGED <<owner, issued, turns, stream>>

CountTurns(w) ==
    /\ req[w].pc = "count"
    /\ req' = [req EXCEPT ![w] = [pc |-> "insert", session |-> @.session,
                                  streamed |-> @.streamed, role |-> @.role,
                                  counted |-> Len(turns[@.session])]]
    /\ UNCHANGED <<owner, issued, turns, stream>>

\* After the question comes the answer, at once or when its stream ends.
InsertTurn(w) ==
    LET r == req[w] IN
    /\ r.pc = "insert"
    /\ turns' = [turns EXCEPT ![r.session] = Added(@, r.counted, r.role)]
    /\ \/ /\ r.role = "user" /\ ~r.streamed
          /\ req' = [req EXCEPT ![w] = [pc |-> "count", session |-> r.session,
                                        streamed |-> FALSE, role |-> "assistant"]]
          /\ UNCHANGED stream
       \/ /\ r.role = "user" /\ r.streamed
          /\ \E x \in Stream :
                /\ stream[x].pc = "idle"
                /\ stream' = [stream EXCEPT ![x] = [pc |-> "flowing", worker |-> w,
                                                    session |-> r.session]]
          /\ req' = [req EXCEPT ![w] = Nothing]
       \/ /\ r.role = "assistant"
          /\ req' = [req EXCEPT ![w] = Nothing] /\ UNCHANGED stream
    /\ UNCHANGED <<owner, issued>>

-----------------------------------------------------------------------------
(* token_generator(), resumed by the worker between two requests             *)

\* The text goes to the turns of its session.
Stores(w, x) ==
    /\ req[w].pc = "idle" /\ stream[x].worker = w
    /\ req' = [req EXCEPT ![w] = [pc |-> "count", session |-> stream[x].session,
                                  streamed |-> TRUE, role |-> "assistant"]]
    /\ UNCHANGED <<owner, issued, turns>>

\* Completed: the turn is stored, and the last event has still to be made and sent.
StreamEnds(w, x) ==
    /\ stream[x].pc = "flowing" /\ Stores(w, x)
    /\ stream' = [stream EXCEPT ![x].pc = "sent"]

\* Timed out, failed, or abandoned by the client, with some text: the turn is stored,
\* for the second time if that happens after the first.
StreamFails(w, x) ==
    /\ stream[x].pc \in {"flowing", "sent"} /\ Stores(w, x)
    /\ stream' = [stream EXCEPT ![x] = Nothing]

\* It ended before the first token, all was sent, or its worker died.
StreamBreaks(x) ==
    /\ stream[x].pc \in {"flowing", "sent"}
    /\ stream' = [stream EXCEPT ![x] = Nothing]
    /\ UNCHANGED <<owner, issued, turns, req>>

-----------------------------------------------------------------------------
(* Deletions: the turns and the rows of the sessions chosen, in one          *)
(* transaction                                                               *)

Erase(S) ==
    /\ turns' = Emptied(S)
    /\ owner' = Without(S)
    /\ UNCHANGED <<issued, req, stream>>

\* DELETE /chat/sessions/{id}
DeleteSession(w, u, s) ==
    /\ req[w].pc = "idle" /\ Owns(u, s)
    /\ Erase({s})

\* DELETE /user/data: every session of the user.
EraseUser(w, u) ==
    /\ req[w].pc = "idle"
    /\ Erase({s \in Live : owner[s] = u})

\* cleanup_stale_sessions and gdpr_cleanup: the sessions that were idle too long.
Cleanup(w, S) ==
    /\ req[w].pc = "idle"
    /\ S # {} /\ S \subseteq Live
    /\ Erase(S)

-----------------------------------------------------------------------------
Next ==
    \/ \E w \in Worker, u \in User :
          \/ \E s \in Session \cup {"new"} : Ask(w, u, s) \/ AskStreamed(w, u, s)
          \/ \E s \in Session : DeleteSession(w, u, s)
          \/ EraseUser(w, u)
    \/ \E w \in Worker :
          \/ Open(w) \/ Unanswered(w) \/ CountTurns(w) \/ InsertTurn(w)
          \/ \E x \in Stream : StreamEnds(w, x) \/ StreamFails(w, x)
          \/ \E S \in SUBSET Session : Cleanup(w, S)
    \/ \E x \in Stream : StreamBreaks(x)

Spec == Init /\ [][Next]_vars

-----------------------------------------------------------------------------
(* Properties                                                                *)

(* A session never holds more turns than its limit and the turns the other   *)
(* workers were storing at that time, though each counts before it inserts.  *)
TurnsAreCapped ==
    \A s \in Session :
        Len(turns[s]) <= MAX_TURNS_PER_SESSION + Cardinality(Worker) - 1

(* chat_routes.py, delete_session: "Delete a chat session and all its turns".*)
(* Nothing of a session is left once its row is gone. Not so: an answer that *)
(* was being streamed, or stored by another worker, is inserted afterwards,  *)
(* and as no row names its session any more no clean-up ever finds it.       *)
DeletedLeavesNothing == \A s \in Session \ Live : turns[s] = <<>>
=============================================================================
