----------------------------- MODULE AIRouter ------------------------------
(***************************************************************************)
(* Which model answers: the internal one (Ollama or vLLM) and the external *)
(* providers an administrator configured, with their usage limits and the  *)
(* fall-back from one to the other.                                        *)
(* backend/app/services/ai_router.py and api/ai_config_routes.py.          *)
(*                                                                         *)
(* Several questions are answered at a time, each by a generate() that     *)
(* reads the mode, the providers and the answer in steps of its own while  *)
(* administrators change the tables.                                       *)
(*                                                                         *)
(* Left out: keys, URLs and model names, priorities (any order is allowed),*)
(* tokens and latencies, the rows of ai_usage_logs, a count that a locked  *)
(* database refuses (it is lost), streaming (internal only, no fall-back), *)
(* the test of a provider, which counts nothing.                           *)
(***************************************************************************)
EXTENDS Integers, Sequences, FiniteSets, SequencesExt

CONSTANTS
    Caller,    \* questions that are answered at a time
    Worker,    \* uvicorn worker processes, for the administrators' requests
    Provider,  \* SUPPORTED_PROVIDERS
    Limits,    \* values of usage_limit, 0 for unlimited
    MaxUsage   \* bound: calls counted for one provider

Internal == "internal"

VARIABLES
    row,      \* table ai_providers, by name and the worker that inserted it:
              \* no constraint keeps two from inserting the same name
    mode,     \* table ai_settings: the active provider, or Internal
    call,     \* generate(), as far as each caller has got
    req,      \* set_ai_mode and create_provider, as far as each worker has got
    changed   \* providers whose limit was changed since they were made

vars == <<row, mode, call, req, changed>>

Idle  == [pc |-> "idle"]
Rows  == DOMAIN row
Row   == [active : BOOLEAN, usage : 0..MaxUsage, limit : Limits]
Steps == {"idle", "internal", "list", "primary", "external", "log", "fallback",
          "answered", "failed"}

TypeOK ==
    /\ Rows \subseteq Provider \X Worker /\ \A p \in Rows : row[p] \in Row
    /\ mode \in Provider \cup {Internal}
    /\ \A k \in Caller : /\ call[k].pc \in Steps
                         /\ \A i \in DOMAIN call[k].todo : call[k].todo[i] \in Provider
    /\ DOMAIN req = Worker
    /\ changed \subseteq Provider

Init ==
    /\ row = [p \in {} |-> Idle] /\ mode = Internal
    /\ call = [k \in Caller |-> [pc |-> "idle", todo |-> <<>>, first |-> Internal]]
    /\ req = [w \in Worker |-> Idle]
    /\ changed = {}

-----------------------------------------------------------------------------
(* generate() *)

\* get_active_providers: those below their limit, in the order the administrator gave.
BelowLimit_OffByOne(r) == row[r].limit = 0 \/ row[r].usage <= row[r].limit
BelowLimit(r) == row[r].limit = 0 \/ row[r].usage < row[r].limit
Usable   == {r \in Rows : row[r].active /\ BelowLimit(r)}
Name(r)  == r[1]
Callable == {Name(r) : r \in Usable}

Go(k, pc, todo) == call' = [call EXCEPT ![k].pc = pc, ![k].todo = todo]
Keep == UNCHANGED <<row, mode, req, changed>>

\* get_ai_mode: what comes first; the internal model when that cannot be read.
Begin(k) ==
    /\ call[k].pc = "idle"
    /\ \E m \in {mode, Internal} :
          call' = [call EXCEPT ![k] = [pc |-> IF m = Internal THEN "internal" ELSE "primary",
                                       todo |-> <<>>, first |-> m]]
    /\ Keep
\* _generate_internal_primary: the internal model answers, or the list is read.
InternalFirst(k) ==
    /\ call[k].pc = "internal"
    /\ Go(k, "answered", <<>>) \/ Go(k, "list", <<>>)
    /\ Keep
\* A list that cannot be read is empty, here and below.
List(k) ==
    /\ call[k].pc = "list"
    /\ \/ Go(k, "failed", <<>>)
       \/ Usable # {} /\ \E s \in SetToSeqs(Usable) :
             Go(k, "external", [i \in DOMAIN s |-> Name(s[i])])
    /\ Keep
\* _generate_external_primary: the selected provider, if it may still be used.
Primary(k) ==
    /\ call[k].pc = "primary"
    /\ \/ call[k].first \in Callable /\ Go(k, "external", <<call[k].first>>)
       \/ Go(k, "fallback", <<>>)
    /\ Keep
\* call_external_provider: an answer, to be counted ...
External(k) ==
    /\ call[k].pc = "external"
    /\ Go(k, "log", call[k].todo)
    /\ Keep
\* ... or an exception, and the next one of the list.
AfterLast(k) == IF call[k].first = Internal THEN "failed" ELSE "fallback"
ExternalFails(k) ==
    /\ call[k].pc = "external"
    /\ IF Len(call[k].todo) > 1 THEN Go(k, "external", Tail(call[k].todo)) ELSE Go(k, AfterLast(k), <<>>)
    /\ Keep
\* _log_usage: the counters of the rows of that name that are there and active.
Log(k) ==
    LET p == Head(call[k].todo)
    IN  /\ call[k].pc = "log"
        /\ \A r \in Rows : Name(r) = p => row[r].usage < MaxUsage
        /\ row' = [r \in Rows |-> IF Name(r) = p /\ row[r].active
                                  THEN [row[r] EXCEPT !.usage = @ + 1] ELSE row[r]]
        /\ Go(k, "answered", <<>>)
        /\ UNCHANGED <<mode, req, changed>>
\* The internal model after the selected provider.
Fallback(k) ==
    /\ call[k].pc = "fallback"
    /\ Go(k, "answered", <<>>) \/ Go(k, "failed", <<>>)
    /\ Keep
Return(k) ==
    /\ call[k].pc \in {"answered", "failed"}
    /\ call' = [call EXCEPT ![k] = [pc |-> "idle", todo |-> <<>>, first |-> Internal]]
    /\ Keep

-----------------------------------------------------------------------------
(* /ai-config, for administrators *)

Named(p) == {r \in Rows : Name(r) = p}

\* POST /ai-config/providers: looked for in one transaction, inserted in the next.
CreateCheck(w, p) ==
    /\ req[w] = Idle /\ Named(p) = {}
    /\ req' = [req EXCEPT ![w] = [pc |-> "create", name |-> p]]
    /\ UNCHANGED <<row, mode, call, changed>>
CreateWrite(w, active, limit) ==
    /\ req[w].pc = "create"
    /\ row' = [r \in Rows \cup {<<req[w].name, w>>} |->
                  IF r \in Rows THEN row[r]
                  ELSE [active |-> active, usage |-> 0, limit |-> limit]]
    /\ req' = [req EXCEPT ![w] = Idle]
    /\ UNCHANGED <<mode, call, changed>>
\* The others are for all rows of a name.
UpdateStatus(p, active) ==
    /\ Named(p) # {}
    /\ row' = [r \in Rows |-> IF Name(r) = p THEN [row[r] EXCEPT !.active = active] ELSE row[r]]
    /\ UNCHANGED <<mode, call, req, changed>>
UpdateLimit(p, limit) ==
    /\ Named(p) # {}
    /\ row' = [r \in Rows |-> IF Name(r) = p THEN [row[r] EXCEPT !.limit = limit] ELSE row[r]]
    /\ changed' = changed \cup {p}
    /\ UNCHANGED <<mode, call, req>>
\* The mode may go on naming a provider that is gone.
DeleteProvider(p) ==
    /\ Named(p) # {}
    /\ row' = [r \in Rows \ Named(p) |-> row[r]]
    /\ changed' = changed \ {p}
    /\ UNCHANGED <<mode, call, req>>
\* POST /ai-config/mode: checked on one connection, written on the next.
SetModeCheck(w, m) ==
    /\ req[w] = Idle
    /\ m = Internal \/ \E r \in Named(m) : row[r].active
    /\ req' = [req EXCEPT ![w] = [pc |-> "mode", mode |-> m]]
    /\ UNCHANGED <<row, mode, call, changed>>
SetModeWrite(w) ==
    /\ req[w].pc = "mode"
    /\ mode' = req[w].mode
    /\ req' = [req EXCEPT ![w] = Idle]
    /\ UNCHANGED <<row, call, changed>>

Next ==
    \/ \E k \in Caller : Begin(k) \/ InternalFirst(k) \/ List(k) \/ Primary(k) \/ External(k)
                         \/ ExternalFails(k) \/ Log(k) \/ Fallback(k) \/ Return(k)
    \/ \E p \in Provider :
          \/ \E active \in BOOLEAN : UpdateStatus(p, active)
          \/ \E limit \in Limits : UpdateLimit(p, limit)
          \/ DeleteProvider(p)
    \/ \E w \in Worker :
          \/ \E p \in Provider : CreateCheck(w, p)
          \/ \E active \in BOOLEAN, limit \in Limits : CreateWrite(w, active, limit)
          \/ \E m \in Provider \cup {Internal} : SetModeCheck(w, m)
          \/ SetModeWrite(w)

Spec == Init /\ [][Next]_vars

-----------------------------------------------------------------------------
(* Properties *)

(* A usage limit is overrun by the questions that were being answered when   *)
(* it was reached, and by no more: the limit is read before the call and the *)
(* counter is raised after it, whatever is deactivated, deleted and made     *)
(* anew in between.  A limit changed under a running counter is excepted,    *)
(* and so are counts a locked database refused and a name that two workers   *)
(* inserted at once: a call by one of its rows is counted on both.           *)
OverrunIsBounded ==
    \A r \in Rows :
        /\ Name(r) \notin changed /\ Named(Name(r)) = {r}
        /\ row[r].limit > 0
        => row[r].usage < row[r].limit + Cardinality(Caller)
=============================================================================
