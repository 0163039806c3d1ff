------------------------------ MODULE Learning -----------------------------
(***************************************************************************)
(* How HR corrects the chatbot: feedback on its answers, the queue of      *)
(* questions that keep failing, the corrections HR writes, and the         *)
(* versions of a correction.                                               *)
(* backend/app/api/cfls_routes.py and services/cls_service.py.             *)
(*                                                                         *)
(* Every handler is several transactions: it looks its row up in one and   *)
(* writes in later ones.                                                   *)
(*                                                                         *)
(* Left out: tenants, keywords (they are versioned with the text), notes   *)
(* and names, the statistics, the notification of a new feedback, how a    *)
(* question is matched with a correction (Answers.tla), the 200 rows a     *)
(* refresh reads at most.                                                  *)
(***************************************************************************)
EXTENDS Integers, Sequences, FiniteSets, SequencesExt

CONSTANTS
    Worker,           \* uvicorn worker processes
    Query,            \* questions, in the form they are grouped by
    Similar,          \* pairs of them whose _similarity is above 0.6
    Text,             \* texts of a correction, "keep" not among them
    min_feedback_count,
    MaxFeedback, MaxCorrections, MaxVersions, MaxItems   \* bounds on the rows

VARIABLES
    feedback,    \* table feedback_logs, the negative ones, oldest first
    correction,  \* table knowledge_corrections, by id
    versions,    \* table knowledge_correction_versions, by correction
    queue,       \* table learning_queue, by id
    made,        \* corrections inserted so far
    req          \* what each worker is doing

vars == <<feedback, correction, versions, queue, made, req>>

Idle   == [pc |-> "idle"]
Rows   == DOMAIN correction
Active == {correction[c].pattern : c \in {c \in Rows : correction[c].active}}
Open   == {queue[i].pattern : i \in {i \in DOMAIN queue : queue[i].status = "pending"}}

TypeOK ==
    /\ \A i \in DOMAIN feedback :
          feedback[i] \in [query : Query,
                           status : {"pending", "reviewed", "approved", "rejected"}]
    /\ Rows \subseteq 1..made /\ made <= MaxCorrections
    /\ \A c \in Rows : correction[c] \in [pattern : Query, text : Text, active : BOOLEAN]
    /\ \A c \in 1..MaxCorrections : \A i \in DOMAIN versions[c] :
          versions[c][i] \in [number : 1..MaxVersions, text : Text]
    /\ \A i \in DOMAIN queue :
          queue[i] \in [pattern : Query, status : {"pending", "converted", "dismissed"}]
    /\ DOMAIN req = Worker

Init ==
    /\ feedback = <<>> /\ queue = <<>> /\ made = 0
    /\ correction = [c \in {} |-> Idle]
    /\ versions = [c \in 1..MaxCorrections |-> <<>>]
    /\ req = [w \in Worker |-> Idle]

Moves(w, r) == req' = [req EXCEPT ![w] = r]
Returns(w)  == Moves(w, Idle)

-----------------------------------------------------------------------------
(* Feedback                                                                  *)

Submit(w, q) ==
    /\ req[w].pc = "idle" /\ Len(feedback) < MaxFeedback
    /\ feedback' = Append(feedback, [query |-> q, status |-> "pending"])
    /\ UNCHANGED <<correction, versions, queue, made, req>>

Review(w, f, status) ==
    /\ req[w].pc = "idle" /\ f \in DOMAIN feedback
    /\ feedback' = [feedback EXCEPT ![f].status = status]
    /\ UNCHANGED <<correction, versions, queue, made, req>>

-----------------------------------------------------------------------------
(* Corrections                                                               *)

Inserted(q, t) ==
    /\ made < MaxCorrections
    /\ made' = made + 1
    /\ correction' = [c \in Rows \cup {made + 1} |->
          IF c = made + 1 THEN [pattern |-> q, text |-> t, active |-> TRUE]
          ELSE correction[c]]

\* create_correction, out of a feedback (f > 0) or not.
Create(w, q, t, f) ==
    /\ req[w].pc = "idle"
    /\ Inserted(q, t)
    /\ feedback' = [i \in DOMAIN feedback |->
          IF i = f THEN [feedback[i] EXCEPT !.status = "approved"] ELSE feedback[i]]
    /\ UNCHANGED <<versions, queue, req>>

\* update_correction: the row exists; then a version is saved, then it changes in
\* what the request names.
Update(w, c, t, active) ==
    /\ req[w].pc = "idle" /\ c \in Rows
    /\ Moves(w, [pc |-> "save", id |-> c, text |-> t, active |-> active])
    /\ UNCHANGED <<feedback, correction, versions, queue, made>>

\* rollback_correction: the version exists; from there on as above, only that a
\* rollback leaves is_active alone ("keep").
Rollback(w, c, number) ==
    /\ req[w].pc = "idle"
    /\ \E i \in DOMAIN versions[c] :
          /\ versions[c][i].number = number
          /\ Moves(w, [pc |-> "save", id |-> c, text |-> versions[c][i].text,
                       active |-> "keep"])
    /\ UNCHANGED <<feedback, correction, versions, queue, made>>

Highest(vs) == LET ns == {vs[i].number : i \in DOMAIN vs}
               IN  IF ns = {} THEN 0 ELSE CHOOSE n \in ns : \A m \in ns : m <= n

\* save_version reads the correction and its highest version number. Of a
\* correction that is gone by now it saves nothing.
SaveRead_Given(w) ==
    LET r == req[w] IN
    /\ r.pc = "save"
    /\ Moves(w, IF r.id \in Rows
                THEN [pc |-> "insert", then |-> r,
                      row |-> [number |-> Highest(versions[r.id]) + 1, text |-> r.text]]
                ELSE [r EXCEPT !.pc = "write"])
    /\ UNCHANGED <<feedback, correction, versions, queue, made>>
SaveRead(w) ==
    LET r == req[w] IN
    /\ r.pc = "save"
    /\ Moves(w, IF r.id \in Rows
                THEN [pc |-> "insert", then |-> r,
                      row |-> [number |-> Highest(versions[r.id]) + 1,
                               text |-> correction[r.id].text]]
                ELSE [r EXCEPT !.pc = "write"])
    /\ UNCHANGED <<feedback, correction, versions, queue, made>>

SaveInsert(w) ==
    LET r == req[w] IN
    /\ r.pc = "insert" /\ Len(versions[r.then.id]) < MaxVersions
    /\ versions' = [versions EXCEPT ![r.then.id] = Append(@, r.row)]
    /\ Moves(w, [r.then EXCEPT !.pc = "write"])
    /\ UNCHANGED <<feedback, correction, queue, made>>

\* The UPDATE, whatever has become of the row since.
Write(w) ==
    LET r == req[w] IN
    /\ r.pc = "write"
    /\ correction' = [c \in Rows |->
          IF c # r.id THEN correction[c]
          ELSE [correction[c] EXCEPT
                   !.text   = IF r.text = "keep" THEN @ ELSE r.text,
                   !.active = IF r.active = "keep" THEN @ ELSE r.active = "on"]]
    /\ Returns(w)
    /\ UNCHANGED <<feedback, versions, queue, made>>

Delete(w, c) ==
    /\ req[w].pc = "idle" /\ c \in Rows
    /\ correction' = [d \in Rows \ {c} |-> correction[d]]
    /\ UNCHANGED <<feedback, versions, queue, made, req>>

-----------------------------------------------------------------------------
(* The learning queue                                                        *)

\* Each question joins the first group it is similar to, newest question first;
\* a group goes by the question that opened it.
Grouped(groups, q) ==
    LET near == {i \in DOMAIN groups : <<q, groups[i].pattern>> \in Similar}
    IN  IF near = {} THEN Append(groups, [pattern |-> q, size |-> 1])
        ELSE [groups EXCEPT ![CHOOSE i \in near : \A j \in near : i <= j].size = @ + 1]

Unanswered == SelectSeq(Reverse(feedback), LAMBDA f : f.status \in {"pending", "reviewed"})
Groups == FoldLeft(Grouped, <<>>, [i \in DOMAIN Unanswered |-> Unanswered[i].query])

\* The patterns a refresh passes over.
Known == Active \cup Open

\* refresh_learning_queue reads in one transaction and inserts in another.
RefreshRead(w) ==
    /\ req[w].pc = "idle" /\ Unanswered # <<>>
    /\ Moves(w, [pc |-> "refresh",
                 todo |-> SelectSeq(Groups, LAMBDA g : /\ g.size >= min_feedback_count
                                                       /\ g.pattern \notin Known)])
    /\ UNCHANGED <<feedback, correction, versions, queue, made>>

RefreshInsert(w) ==
    LET todo == req[w].todo IN
    /\ req[w].pc = "refresh" /\ Len(queue) + Len(todo) <= MaxItems
    /\ queue' = queue \o [i \in DOMAIN todo |->
                             [pattern |-> todo[i].pattern, status |-> "pending"]]
    /\ Returns(w)
    /\ UNCHANGED <<feedback, correction, versions, made>>

\* convert_queue_to_correction: whatever the item's status is.
ConvertRead(w, i, t) ==
    /\ req[w].pc = "idle" /\ i \in DOMAIN queue
    /\ Moves(w, [pc |-> "convert", item |-> i, text |-> t])
    /\ UNCHANGED <<feedback, correction, versions, queue, made>>

ConvertInsert(w) ==
    /\ req[w].pc = "convert"
    /\ Inserted(queue[req[w].item].pattern, req[w].text)
    /\ Moves(w, [pc |-> "mark", item |-> req[w].item])
    /\ UNCHANGED <<feedback, versions, queue>>

ConvertMark(w) ==
    /\ req[w].pc = "mark"
    /\ queue' = [queue EXCEPT ![req[w].item].status = "converted"]
    /\ Returns(w)
    /\ UNCHANGED <<feedback, correction, versions, made>>

Dismiss(w, i) ==
    /\ req[w].pc = "idle" /\ i \in DOMAIN queue
    /\ queue' = [queue EXCEPT ![i].status = "dismissed"]
    /\ UNCHANGED <<feedback, correction, versions, made, req>>

-----------------------------------------------------------------------------
Next ==
    \E w \in Worker :
        \/ \E q \in Query : Submit(w, q)
        \/ \E f \in 1..MaxFeedback, s \in {"reviewed", "approved", "rejected"} :
              Review(w, f, s)
        \/ \E q \in Query, t \in Text, f \in 0..MaxFeedback : Create(w, q, t, f)
        \/ \E c \in 1..MaxCorrections :
              \/ \E t \in Text \cup {"keep"}, a \in {"on", "off", "keep"} :
                    Update(w, c, t, a)
              \/ \E n \in 1..MaxVersions : Rollback(w, c, n)
              \/ Delete(w, c)
        \/ SaveRead(w) \/ SaveInsert(w) \/ Write(w)
        \/ RefreshRead(w) \/ RefreshInsert(w)
        \/ \E i \in 1..MaxItems : Dismiss(w, i) \/ \E t \in Text : ConvertRead(w, i, t)
        \/ ConvertInsert(w) \/ ConvertMark(w)

Spec == Init /\ [][Next]_vars

-----------------------------------------------------------------------------
(* Properties                                                                *)

(* cls_service.py: "every correction edit creates a version snapshot". The   *)
(* text an edit or a rollback replaces can be rolled back to. True of one    *)
(* worker; of two that edit the same correction, both may save the same text *)
(* and the one that is written first is in no version.                       *)
EditsAreRecoverable ==
    [][\A c \in Rows \cap DOMAIN correction' :
          correction'[c].text # correction[c].text
              => \E i \in DOMAIN versions[c] : versions[c][i].text = correction[c].text
      ]_vars
=============================================================================
