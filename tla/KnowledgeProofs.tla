--------------------------- MODULE KnowledgeProofs --------------------------
(***************************************************************************)
(* Proofs about Learning, BackgroundTasks, AnswerCache, Chunking and       *)
(* Answers.                                                                *)
(*                                                                         *)
(* EInv knows of an edit under way that the text it replaces is in the     *)
(* version about to be, or just, stored.  Verdicts needs the shape of a    *)
(* job's program, a verdict last but one (Pending), whatever the job is.   *)
(* KInv says of every citation kept anywhere that its document is not      *)
(* deleted, or its invalidation still to come (Good).                      *)
(*                                                                         *)
(* Chunking and Answers compute with loops.  What a loop gives is proved   *)
(* by induction over its rounds: Inductive is the rule, and each loop has  *)
(* an operator that says what it holds after the first n rounds (Counts,   *)
(* PacksTo, SectionsTo, ...), a lemma that this exists, and an invariant   *)
(* (PackInv, SectionInv).  PackInv is the heart of it: the open chunk is a *)
(* run that ends where the loop is, and what comes before it is in a chunk.*)
(***************************************************************************)
EXTENDS MCServices, Sequences, SequenceTheorems, FiniteSetTheorems, WellFoundedInduction, TLAPS

OneWorker == \A v, w \in Worker : v = w

-----------------------------------------------------------------------------
(* Learning *)

(* An edit that has not saved the text it replaces yet.                      *)
Edit(r) ==
    /\ r = [pc |-> "save", id |-> r.id, text |-> r.text, active |-> r.active]
    /\ r.id \in 1 .. MaxCorrections
Saved(c) == \E i \in DOMAIN versions[c] : versions[c][i].text = correction[c].text

EditOf(r) ==
    /\ r.pc = "save" => Edit(r)
    /\ r.pc = "insert" => Edit(r.then)
    /\ r.pc = "insert" /\ r.then.id \in E!Rows => r.row.text = correction[r.then.id].text
    /\ r.pc = "write" /\ r.id \in E!Rows => Saved(r.id)

EInv ==
    /\ made \in Nat /\ made <= MaxCorrections /\ E!Rows \subseteq 1 .. made
    /\ DOMAIN versions = 1 .. MaxCorrections
    /\ \A c \in 1 .. MaxCorrections : \E S : versions[c] \in Seq(S)
    /\ DOMAIN lreq = Worker /\ \A w \in Worker : EditOf(lreq[w])

Recoverable ==
    \A c \in E!Rows \cap DOMAIN correction' :
        correction'[c].text # correction[c].text => Saved(c)

(* The invariant holds when the program starts.                              *)
LEMMA LearningInit == E!Init => EInv
  <1> SUFFICES ASSUME E!Init PROVE EInv
    OBVIOUS
  <1>1. /\ made = 0 /\ E!Rows = {}
        /\ versions = [c \in 1 .. MaxCorrections |-> <<>>] /\ lreq = [w \in Worker |-> [pc |-> "idle"]]
    BY DEF E!Init, E!Rows, E!Idle
  <1>2. \A c \in 1 .. MaxCorrections : versions[c] \in Seq({})
    BY <1>1
  <1>3. \A c \in 1 .. MaxCorrections : \E S : versions[c] \in Seq(S)
    BY <1>2, Zenon
  <1>4. \A w \in Worker : EditOf(lreq[w])
    BY <1>1 DEF EditOf
  <1> QED
    BY <1>1, <1>3, <1>4, CorrectionsAssumption DEF EInv

(* The worker goes on to something else than storing an edit.                *)
LEMMA MovesKeep ==
    ASSUME OneWorker, EInv, NEW w \in Worker, NEW r, lreq' = [lreq EXCEPT ![w] = r],
           r.pc \notin {"insert", "write"}, r.pc = "save" => Edit(r),
           UNCHANGED <<correction, versions, made>>
    PROVE  EInv' /\ Recoverable
  <1>1. DOMAIN lreq' = Worker /\ lreq'[w] = r /\ \A v \in Worker : v = w
    BY DEF EInv, OneWorker
  <1>2. EditOf(r)'
    BY DEF EditOf, Edit
  <1>3. \A v \in Worker : EditOf(lreq[v])'
    BY <1>1, <1>2 DEF EditOf
  <1>4. EInv'
    BY <1>1, <1>3 DEF EInv, E!Rows
  <1>5. Recoverable
    BY DEF Recoverable, E!Rows
  <1> QED
    BY <1>4, <1>5

(* The worker starts or ends a request: nothing of the corrections changes.  *)
LEMMA StaysKeep ==
    ASSUME EInv, UNCHANGED <<correction, versions, made, lreq>>
    PROVE  EInv' /\ Recoverable
  BY DEF EInv, Recoverable, E!Rows, EditOf, Saved

(* A new correction has no text to lose.                                     *)
LEMMA InsertedKeeps ==
    ASSUME OneWorker, EInv, NEW w \in Worker, NEW topic, NEW t, E!Inserted(topic, t), UNCHANGED versions,
           DOMAIN lreq' = Worker, lreq'[w].pc \notin {"save", "insert", "write"}
    PROVE  EInv' /\ Recoverable
  <1>1. /\ made < MaxCorrections /\ made' = made + 1
        /\ correction' = [c \in E!Rows \cup {made + 1} |->
              IF c = made + 1 THEN [pattern |-> topic, text |-> t, active |-> TRUE] ELSE correction[c]]
    BY DEF E!Inserted
  <1>2. E!Rows' = E!Rows \cup {made + 1} /\ made + 1 \notin E!Rows
    BY <1>1 DEF E!Rows, EInv
  <1>3. \A c \in E!Rows : correction'[c] = correction[c]
    BY <1>1, <1>2
  <1>4. \A v \in Worker : lreq'[v].pc \notin {"save", "insert", "write"}
    BY DEF OneWorker
  <1>5. \A v \in Worker : EditOf(lreq[v])'
    BY <1>4 DEF EditOf
  <1>6. EInv'
    BY <1>1, <1>2, <1>5, CorrectionsAssumption DEF EInv
  <1>7. Recoverable
    BY <1>3 DEF Recoverable
  <1> QED
    BY <1>6, <1>7

LEMMA DeleteKeeps ==
    ASSUME OneWorker, EInv, NEW w \in Worker, NEW c, E!Delete(w, c)
    PROVE  EInv' /\ Recoverable
  <1>1. /\ correction' = [d \in E!Rows \ {c} |-> correction[d]]
        /\ lreq[w].pc = "idle" /\ UNCHANGED <<versions, made, lreq>>
    BY DEF E!Delete
  <1>2. E!Rows' = E!Rows \ {c} /\ \A d \in E!Rows' : correction'[d] = correction[d]
    BY <1>1 DEF E!Rows
  <1>3. \A v \in Worker : EditOf(lreq[v])'
    BY <1>1 DEF EditOf, OneWorker
  <1>4. EInv'
    BY <1>1, <1>2, <1>3 DEF EInv
  <1> QED
    BY <1>2, <1>4 DEF Recoverable, E!Rows

LEMMA UpdateKeeps ==
    ASSUME OneWorker, EInv, NEW w \in Worker, NEW c \in 1 .. MaxCorrections, NEW t, NEW active,
           lreq' = [lreq EXCEPT ![w] = [pc |-> "save", id |-> c, text |-> t, active |-> active]],
           UNCHANGED <<correction, versions, made>>
    PROVE  EInv' /\ Recoverable
  <1>1. PICK r : r = [pc |-> "save", id |-> c, text |-> t, active |-> active]
    OBVIOUS
  <1>2. r.pc = "save" /\ Edit(r)
    BY <1>1 DEF Edit
  <1> QED
    BY <1>1, <1>2, MovesKeep

LEMMA SaveReadKeeps ==
    ASSUME OneWorker, EInv, NEW w \in Worker, E!SaveRead(w)
    PROVE  EInv' /\ Recoverable
  <1>1. PICK edit : edit = lreq[w]
    OBVIOUS
  <1>2. edit.pc = "save" /\ Edit(edit) /\ UNCHANGED <<correction, versions, made>>
    BY <1>1 DEF EInv, EditOf, E!SaveRead
  <1>3. PICK r : /\ lreq' = [lreq EXCEPT ![w] = r]
                 /\ \/ /\ edit.id \in E!Rows /\ r.pc = "insert" /\ r.then = edit
                       /\ r.row.text = correction[edit.id].text
                    \/ edit.id \notin E!Rows /\ r = [edit EXCEPT !.pc = "write"]
    <2>1. CASE edit.id \in E!Rows
      <3>1. PICK r : r = [pc |-> "insert", then |-> edit,
                          row |-> [number |-> E!Highest(versions[edit.id]) + 1,
                                   text |-> correction[edit.id].text]]
        OBVIOUS
      <3>2. lreq' = [lreq EXCEPT ![w] = r]
        BY <1>1, <2>1, <3>1, Zenon DEF E!SaveRead, E!Moves
      <3>3. r.pc = "insert" /\ r.then = edit /\ r.row.text = correction[edit.id].text
        BY <3>1
      <3> QED
        BY <2>1, <3>2, <3>3
    <2>2. CASE edit.id \notin E!Rows
      <3>1. lreq' = [lreq EXCEPT ![w] = [edit EXCEPT !.pc = "write"]]
        BY <1>1, <2>2, Zenon DEF E!SaveRead, E!Moves
      <3> QED
        BY <2>2, <3>1, Zenon
    <2> QED
      BY <2>1, <2>2
  <1>4. DOMAIN lreq' = Worker /\ lreq'[w] = r /\ \A v \in Worker : v = w
    BY <1>3 DEF EInv, OneWorker
  <1>5. EditOf(r)'
    <2>1. CASE edit.id \in E!Rows /\ r.pc = "insert" /\ r.then = edit /\ r.row.text = correction[edit.id].text
      BY <1>2, <2>1 DEF EditOf, Edit
    <2>2. CASE edit.id \notin E!Rows /\ r = [edit EXCEPT !.pc = "write"]
      <3>1. \A a, b, c : edit = [pc |-> "save", id |-> a, text |-> b, active |-> c] =>
               r.pc = "write" /\ r.id = a
        BY <2>2
      <3>2. r.pc = "write" /\ r.id = edit.id
        BY <1>2, <3>1 DEF Edit
      <3> QED
        BY <1>2, <2>2, <3>2 DEF EditOf, E!Rows
    <2> QED
      BY <1>3, <2>1, <2>2
  <1>6. \A v \in Worker : EditOf(lreq[v])'
    BY <1>4, <1>5 DEF EditOf
  <1>7. EInv'
    BY <1>2, <1>4, <1>6 DEF EInv, E!Rows
  <1> QED
    BY <1>2, <1>7 DEF Recoverable, E!Rows

(* The version that is stored is of the text about to be replaced.           *)
LEMMA SaveInsertKeeps ==
    ASSUME OneWorker, EInv, NEW w \in Worker, E!SaveInsert(w)
    PROVE  EInv' /\ Recoverable
  <1>1. PICK edit, new : edit = lreq[w].then /\ new = lreq[w].row
    OBVIOUS
  <1>2. /\ lreq[w].pc = "insert" /\ Edit(edit) /\ UNCHANGED <<correction, made>>
        /\ edit.id \in E!Rows => new.text = correction[edit.id].text
    BY <1>1 DEF EInv, EditOf, E!SaveInsert
  <1>3. PICK c \in 1 .. MaxCorrections : c = edit.id
    BY <1>2 DEF Edit
  <1>4. versions' = [versions EXCEPT ![c] = Append(@, new)]
    BY <1>1, <1>3 DEF E!SaveInsert
  <1>5. PICK r : r = [edit EXCEPT !.pc = "write"]
    OBVIOUS
  <1>6. \A b, d : edit = [pc |-> "save", id |-> c, text |-> b, active |-> d] => r.pc = "write" /\ r.id = c
    BY <1>5
  <1>7. r.pc = "write" /\ r.id = c
    BY <1>2, <1>3, <1>6 DEF Edit
  <1>8. lreq' = [lreq EXCEPT ![w] = r]
    BY <1>1, <1>5, Zenon DEF E!SaveInsert, E!Moves
  <1>9. DOMAIN lreq' = Worker /\ lreq'[w] = r /\ \A v \in Worker : v = w
    BY <1>8 DEF EInv, OneWorker
  <1>10. PICK S : versions[c] \in Seq(S)
    BY DEF EInv
  <1>11. PICK texts : texts = S \cup {new}
    OBVIOUS
  <1>12. versions[c] \in Seq(texts) /\ new \in texts
    BY <1>10, <1>11
  <1>13. PICK longer : longer = Append(versions[c], new)
    OBVIOUS
  <1>14. /\ longer \in Seq(texts) /\ Len(versions[c]) + 1 \in DOMAIN longer
         /\ longer[Len(versions[c]) + 1] = new
    BY <1>12, <1>13
  <1>15. /\ DOMAIN versions' = 1 .. MaxCorrections /\ versions'[c] = longer
         /\ \A d \in (1 .. MaxCorrections) \ {c} : versions'[d] = versions[d]
    BY <1>4, <1>13 DEF EInv
  <1>16. \A d \in 1 .. MaxCorrections : \E U : versions'[d] \in Seq(U)
    <2> SUFFICES ASSUME NEW d \in 1 .. MaxCorrections PROVE \E U : versions'[d] \in Seq(U)
      OBVIOUS
    <2>1. CASE d = c
      BY <1>14, <1>15, <2>1, Zenon
    <2>2. CASE d # c
      BY <1>15, <2>2 DEF EInv
    <2> QED
      BY <2>1, <2>2
  <1>17. c \in E!Rows => Saved(c)'
    BY <1>2, <1>3, <1>14, <1>15 DEF Saved
  <1>18. EditOf(r)'
    BY <1>2, <1>7, <1>17 DEF EditOf, E!Rows, Saved
  <1>19. \A v \in Worker : EditOf(lreq[v])'
    BY <1>9, <1>18 DEF EditOf, Saved
  <1>20. EInv'
    BY <1>2, <1>9, <1>15, <1>16, <1>19 DEF EInv, E!Rows
  <1> QED
    BY <1>2, <1>20 DEF Recoverable, E!Rows

(* The edit is written, and the text it replaces is in a version.            *)
LEMMA WriteKeeps ==
    ASSUME OneWorker, EInv, NEW w \in Worker, E!Write(w)
    PROVE  EInv' /\ Recoverable
  <1>1. PICK c : c = lreq[w].id
    OBVIOUS
  <1>2. lreq[w].pc = "write" /\ (c \in E!Rows => Saved(c)) /\ UNCHANGED <<versions, made>>
    BY <1>1 DEF EInv, EditOf, E!Write
  <1>3. lreq' = [lreq EXCEPT ![w] = E!Idle]
    BY DEF E!Write, E!Returns, E!Moves
  <1>4. E!Rows' = E!Rows /\ \A d \in E!Rows \ {c} : correction'[d] = correction[d]
    BY <1>1 DEF E!Write, E!Rows
  <1>5. DOMAIN lreq' = Worker /\ \A v \in Worker : lreq'[v].pc = "idle"
    BY <1>3 DEF EInv, OneWorker, E!Idle
  <1>6. EInv'
    BY <1>2, <1>4, <1>5 DEF EInv, EditOf
  <1>7. Recoverable
    BY <1>2, <1>4 DEF Recoverable
  <1> QED
    BY <1>6, <1>7

(* The steps that neither edit a correction nor save a version.              *)
LEMMA OthersKeep ==
    ASSUME OneWorker, EInv, NEW w \in Worker,
           \/ E!RefreshRead(w) \/ E!RefreshInsert(w) \/ E!ConvertMark(w)
           \/ \E i, t : E!ConvertRead(w, i, t)
    PROVE  EInv' /\ Recoverable
  <1>1. \E r : /\ lreq' = [lreq EXCEPT ![w] = r] /\ r.pc \in {"refresh", "convert", "idle"}
    <2>1. CASE E!RefreshRead(w)
      <3>1. PICK todo : lreq' = [lreq EXCEPT ![w] = [pc |-> "refresh", todo |-> todo]]
        BY <2>1, Zenon DEF E!RefreshRead, E!Moves
      <3>2. PICK r : r = [pc |-> "refresh", todo |-> todo]
        OBVIOUS
      <3>3. r.pc = "refresh"
        BY <3>2
      <3> QED
        BY <3>1, <3>2, <3>3
    <2>2. CASE \E i, t : E!ConvertRead(w, i, t)
      <3>1. PICK i, t : lreq' = [lreq EXCEPT ![w] = [pc |-> "convert", item |-> i, text |-> t]]
        BY <2>2, Zenon DEF E!ConvertRead, E!Moves
      <3>2. PICK r : r = [pc |-> "convert", item |-> i, text |-> t]
        OBVIOUS
      <3>3. r.pc = "convert"
        BY <3>2
      <3> QED
        BY <3>1, <3>2, <3>3
    <2>3. CASE E!RefreshInsert(w) \/ E!ConvertMark(w)
      <3>1. lreq' = [lreq EXCEPT ![w] = E!Idle]
        BY <2>3, Zenon DEF E!RefreshInsert, E!ConvertMark, E!Returns, E!Moves
      <3>2. E!Idle.pc = "idle"
        BY DEF E!Idle
      <3> QED
        BY <3>1, <3>2
    <2> QED
      BY <2>1, <2>2, <2>3
  <1>2. UNCHANGED <<correction, versions, made>>
    BY Zenon DEF E!RefreshRead, E!RefreshInsert, E!ConvertMark, E!ConvertRead
  <1> QED
    BY <1>1, <1>2, MovesKeep

(* Every step of Learning keeps the invariant and the promise.               *)
LEMMA LearningStep ==
    ASSUME OneWorker, EInv, [E!Next]_(E!vars)
    PROVE  EInv' /\ Recoverable
  <1>1. CASE UNCHANGED E!vars
    BY <1>1, StaysKeep DEF E!vars
  <1>2. ASSUME NEW w \in Worker,
               \/ \E topic \in One : E!Submit(w, topic)
               \/ \E f \in 1 .. MaxFeedback, s \in {"reviewed", "approved", "rejected"} : E!Review(w, f, s)
               \/ \E i \in 1 .. MaxItems : E!Dismiss(w, i)
        PROVE  EInv' /\ Recoverable
    BY <1>2, StaysKeep DEF E!Submit, E!Review, E!Dismiss
  <1>3. ASSUME NEW w \in Worker, NEW topic, NEW t, NEW f, E!Create(w, topic, t, f)
        PROVE  EInv' /\ Recoverable
    BY <1>3, InsertedKeeps DEF E!Create, EInv
  <1>4. ASSUME NEW w \in Worker, NEW c \in 1 .. MaxCorrections, NEW t, NEW a, E!Update(w, c, t, a)
        PROVE  EInv' /\ Recoverable
    BY <1>4, UpdateKeeps DEF E!Update, E!Moves
  <1>5. ASSUME NEW w \in Worker, NEW c \in 1 .. MaxCorrections, NEW n, E!Rollback(w, c, n)
        PROVE  EInv' /\ Recoverable
    <2>1. PICK t : lreq' = [lreq EXCEPT ![w] = [pc |-> "save", id |-> c, text |-> t, active |-> "keep"]]
      BY <1>5, Zenon DEF E!Rollback, E!Moves
    <2>2. UNCHANGED <<correction, versions, made>>
      BY <1>5 DEF E!Rollback
    <2> QED
      BY <2>1, <2>2, UpdateKeeps
  <1>6. ASSUME NEW w \in Worker, NEW c, E!Delete(w, c)
        PROVE  EInv' /\ Recoverable
    BY <1>6, DeleteKeeps
  <1>7. ASSUME NEW w \in Worker, E!SaveRead(w) \/ E!SaveInsert(w) \/ E!Write(w)
        PROVE  EInv' /\ Recoverable
    BY <1>7, SaveReadKeeps, SaveInsertKeeps, WriteKeeps
  <1>8. ASSUME NEW w \in Worker,
               \/ E!RefreshRead(w) \/ E!RefreshInsert(w) \/ E!ConvertMark(w)
               \/ \E i, t : E!ConvertRead(w, i, t)
        PROVE  EInv' /\ Recoverable
    BY <1>8, OthersKeep
  <1>9. ASSUME NEW w \in Worker, E!ConvertInsert(w)
        PROVE  EInv' /\ Recoverable
    <2>1. PICK i : lreq' = [lreq EXCEPT ![w] = [pc |-> "mark", item |-> i]]
      BY <1>9, Zenon DEF E!ConvertInsert, E!Moves
    <2>2. DOMAIN lreq' = Worker /\ lreq'[w].pc = "mark"
      BY <2>1 DEF EInv
    <2>3. UNCHANGED versions /\ \E topic, t : E!Inserted(topic, t)
      BY <1>9, Zenon DEF E!ConvertInsert
    <2> QED
      BY <2>2, <2>3, InsertedKeeps
  <1> QED
    BY <1>1, <1>2, <1>3, <1>4, <1>5, <1>6, <1>7, <1>8, <1>9, Zenon DEF E!Next

(* With one worker process, the text an edit or a rollback replaces is in    *)
(* one of the versions of its correction.                                    *)
THEOREM EditsStayRecoverable == OneWorker => (E!Spec => EditsAreRecoverable)
  <1> SUFFICES ASSUME OneWorker PROVE E!Spec => EditsAreRecoverable
    OBVIOUS
  <1>1. E!Init => EInv
    BY LearningInit
  <1>2. EInv /\ [E!Next]_(E!vars) => EInv'
    BY LearningStep
  <1>3. EInv /\ [E!Next]_(E!vars) =>
           [\A c \in E!Rows \cap DOMAIN correction' :
               correction'[c].text # correction[c].text
                  => \E i \in DOMAIN versions[c] : versions[c][i].text = correction[c].text]_(E!vars)
    BY LearningStep DEF Recoverable, Saved
  <1> QED
    BY <1>1, <1>2, <1>3, PTL DEF E!Spec, EditsAreRecoverable, E!EditsAreRecoverable

-----------------------------------------------------------------------------
(* Background tasks *)

(* A job that will still write a verdict, one that will write nothing more,  *)
(* and one that writes nothing after a verdict.                              *)
Due(j)   == \E i \in DOMAIN j : j[i] \in B!Terminal
Quiet(j) == \A i \in DOMAIN j : j[i] \notin B!Status
Ends(j)  == \A i, k \in DOMAIN j : i < k /\ j[i] \in B!Terminal => j[k] \notin B!Status

BTypes ==
    /\ DOMAIN status = One /\ table \in Seq(One)
    /\ job \in [One -> Seq(B!Steps)]
    /\ \A t \in One : Ends(job[t]) /\ (t \notin silent => Due(job[t]) \/ Quiet(job[t]))
    /\ \A t \in B!Rows : status[t] # "none"
Verdicts ==
    \A t \in B!Rows \ (killed \cup silent) : Due(job[t]) \/ status[t] \in B!Terminal

(* The rows of background_tasks are the tasks in the table.                  *)
LEMMA RowsOf == B!Rows = {table[i] : i \in DOMAIN table}
  BY DEF B!Rows, B!ToSet

(* The invariants hold when the program starts.                              *)
LEMMA BackgroundInit == B!Init => BTypes /\ Verdicts
  <1> SUFFICES ASSUME B!Init PROVE BTypes /\ Verdicts
    OBVIOUS
  <1>1. B!Rows = {}
    BY RowsOf DEF B!Init
  <1> QED
    BY <1>1 DEF B!Init, BTypes, Verdicts, Ends, Quiet

(* What a job has left after its next step.                                  *)
LEMMA JobTail ==
    ASSUME NEW j \in Seq(B!Steps), j # <<>>, Ends(j)
    PROVE  /\ Tail(j) \in Seq(B!Steps) /\ Ends(Tail(j)) /\ Head(j) \in B!Steps
           /\ Head(j) \in B!Terminal => Quiet(Tail(j))
           /\ Head(j) \notin B!Terminal /\ Due(j) => Due(Tail(j))
           /\ Quiet(j) => Quiet(Tail(j)) /\ Head(j) \notin B!Status
  <1>1. /\ Len(j) \in Nat \ {0} /\ DOMAIN j = 1 .. Len(j) /\ Head(j) = j[1] /\ 1 \in DOMAIN j
        /\ Tail(j) \in Seq(B!Steps) /\ DOMAIN Tail(j) = 1 .. Len(j) - 1
    OBVIOUS
  <1>2. \A i \in DOMAIN Tail(j) : i + 1 \in DOMAIN j /\ 1 < i + 1 /\ Tail(j)[i] = j[i + 1]
    BY <1>1
  <1>3. \A k \in DOMAIN j : k = 1 \/ (k - 1 \in DOMAIN Tail(j) /\ Tail(j)[k - 1] = j[k])
    BY <1>1, <1>2
  <1>4. Ends(Tail(j))
    BY <1>1, <1>2 DEF Ends
  <1>5. Head(j) \in B!Terminal => Quiet(Tail(j))
    BY <1>1, <1>2 DEF Ends, Quiet
  <1>6. Head(j) \notin B!Terminal /\ Due(j) => Due(Tail(j))
    BY <1>1, <1>3 DEF Due
  <1>7. Quiet(j) => Quiet(Tail(j)) /\ Head(j) \notin B!Status
    BY <1>1, <1>2 DEF Quiet
  <1> QED
    BY <1>1, <1>4, <1>5, <1>6, <1>7

(* A short job that has nothing to do but to write a verdict, and the program *)
(* of every kind: only the unknown one may end without.                      *)
LEMMA Starts ==
    /\ \A v \in B!Terminal : LET j == <<v, "release">>
                             IN  j \in Seq(B!Steps) /\ Ends(j) /\ Due(j)
    /\ \A kind \in B!Kind : LET j == B!Programs[kind]
                            IN  j \in Seq(B!Steps) /\ Ends(j) /\ (kind # "unknown" => Due(j))
  <1>1. ASSUME NEW v \in B!Terminal
        PROVE  LET j == <<v, "release">> IN j \in Seq(B!Steps) /\ Ends(j) /\ Due(j)
    BY DEF B!Steps, B!Terminal, B!Status, Ends, Due
  <1>2. B!Kind = {"index", "audit", "analytics", "unknown"}
    BY DEF B!Kind, B!Programs
  <1> DEFINE index     == <<"running", "check", "work", "running", "check", "work",
                            "completed", "release", "work">>
             audit     == <<"running", "check", "work", "running", "work", "completed", "release">>
             analytics == <<"running", "check", "work", "completed", "release">>
             unknown   == <<"running", "check", "work">>
  <1>3. /\ B!Programs["index"] = index /\ B!Programs["audit"] = audit
        /\ B!Programs["analytics"] = analytics /\ B!Programs["unknown"] = unknown
    BY DEF B!Programs
  <1>4. /\ index \in Seq(B!Steps) /\ audit \in Seq(B!Steps)
        /\ analytics \in Seq(B!Steps) /\ unknown \in Seq(B!Steps)
    BY DEF B!Steps, B!Terminal
  <1>5. Due(index) /\ Due(audit) /\ Due(analytics)
    <2>1. 7 \in DOMAIN index /\ index[7] = "completed"
      OBVIOUS
    <2>2. 6 \in DOMAIN audit /\ audit[6] = "completed"
      OBVIOUS
    <2>3. 4 \in DOMAIN analytics /\ analytics[4] = "completed"
      OBVIOUS
    <2> HIDE DEF index, audit, analytics
    <2> QED
      BY <2>1, <2>2, <2>3 DEF Due, B!Terminal
  <1>6. Ends(index)
    <2>1. DOMAIN index = 1 .. 9 /\ \A i \in 1 .. 6 : index[i] \notin B!Terminal
      BY DEF B!Terminal
    <2>2. index[8] = "release" /\ index[9] = "work" /\ index[7] = "completed"
      OBVIOUS
    <2> HIDE DEF index
    <2> QED
      BY <2>1, <2>2 DEF Ends, B!Status, B!Terminal
  <1>7. Ends(audit)
    <2>1. DOMAIN audit = 1 .. 7 /\ \A i \in 1 .. 5 : audit[i] \notin B!Terminal
      BY DEF B!Terminal
    <2>2. audit[7] = "release" /\ audit[6] = "completed"
      OBVIOUS
    <2> HIDE DEF audit
    <2> QED
      BY <2>1, <2>2 DEF Ends, B!Status, B!Terminal
  <1>8. Ends(analytics)
    <2>1. DOMAIN analytics = 1 .. 5 /\ \A i \in 1 .. 3 : analytics[i] \notin B!Terminal
      BY DEF B!Terminal
    <2>2. analytics[5] = "release" /\ analytics[4] = "completed"
      OBVIOUS
    <2> HIDE DEF analytics
    <2> QED
      BY <2>1, <2>2 DEF Ends, B!Status, B!Terminal
  <1>9. Ends(unknown)
    <2>1. DOMAIN unknown = 1 .. 3 /\ \A i \in 1 .. 3 : unknown[i] \notin B!Terminal
      BY DEF B!Terminal
    <2> HIDE DEF unknown
    <2> QED
      BY <2>1 DEF Ends
  <1> HIDE DEF index, audit, analytics, unknown
  <1> QED
    BY <1>1, <1>2, <1>3, <1>4, <1>5, <1>6, <1>7, <1>8, <1>9

(* A job moves on: a verdict is still due, or it has been written and stays. *)
LEMMA JobKeeps ==
    ASSUME BTypes, Verdicts, NEW t \in One, NEW j \in Seq(B!Steps), Ends(j),
           job' = [job EXCEPT ![t] = j], UNCHANGED <<table, killed>>,
           status' = status \/ \E s \in B!Status : B!SetStatus(t, s),
           \A u \in One \ {t} : u \in silent' <=> u \in silent,
           \/ Due(j) \/ t \in silent'
           \/ Quiet(j) /\ (t \in B!Rows \ killed => status'[t] \in B!Terminal)
    PROVE  BTypes' /\ Verdicts'
  <1>1. B!Rows' = B!Rows /\ B!Rows \subseteq One
    BY RowsOf DEF B!Rows, BTypes
  <1>2. /\ job' \in [One -> Seq(B!Steps)] /\ job'[t] = j
        /\ \A u \in One \ {t} : job'[u] = job[u]
    BY DEF BTypes
  <1>3. /\ DOMAIN status' = One
        /\ \A u \in One \ {t} : status'[u] = status[u]
        /\ status'[t] = "none" => status[t] = "none"
    BY DEF BTypes, B!SetStatus, B!Status, B!Terminal
  <1>4. BTypes'
    BY <1>1, <1>2, <1>3 DEF BTypes
  <1>5. Verdicts'
    BY <1>1, <1>2, <1>3 DEF Verdicts
  <1> QED
    BY <1>4, <1>5

(* A new task has everything before it, or no verdict to give.               *)
LEMMA CreateTaskKeeps ==
    ASSUME BTypes, Verdicts, NEW w, NEW t \in One, NEW kind \in B!Kind,
           NEW inserted \in BOOLEAN, NEW pruned \in BOOLEAN,
           B!CreateTask(w, t, kind, inserted, pruned)
    PROVE  BTypes' /\ Verdicts'
  <1>1. PICK rows : rows = IF inserted THEN Append(table, t) ELSE table
    OBVIOUS
  <1>2. /\ table' = IF pruned /\ Len(rows) > MAX_TASK_HISTORY THEN B!Pruned(rows) ELSE rows
        /\ status' = [u \in One |-> IF u \notin B!Rows' THEN "none"
                                    ELSE IF u = t THEN "pending" ELSE status[u]]
        /\ job' = [job EXCEPT ![t] = B!Programs[kind]] /\ killed' = killed
        /\ silent' = IF kind = "unknown" THEN silent \cup {t} ELSE silent
    BY <1>1 DEF B!CreateTask, B!Rows
  <1>3. rows \in Seq(One) /\ \A i \in DOMAIN rows : rows[i] \in B!Rows \cup {t}
    BY <1>1, RowsOf DEF BTypes
  <1>4. table' \in Seq(One) /\ \A i \in DOMAIN table' : table'[i] \in B!Rows \cup {t}
    <2>1. CASE pruned /\ Len(rows) > MAX_TASK_HISTORY
      <3>1. PICK from \in Nat \ {0} : from = Len(rows) - MAX_TASK_HISTORY + 1
        <4>1. Len(rows) - MAX_TASK_HISTORY + 1 \in Nat \ {0}
          BY <1>3, <2>1, HistoryAssumption
        <4> QED
          BY <4>1
      <3>2. table' = SubSeq(rows, from, Len(rows))
        BY <1>2, <2>1, <3>1 DEF B!Pruned
      <3>3. /\ table' \in Seq(One)
            /\ \A i \in DOMAIN table' : table'[i] = rows[from + i - 1] /\ from + i - 1 \in DOMAIN rows
        BY <1>3, <3>1, <3>2
      <3> QED
        BY <1>3, <3>3
    <2>2. CASE ~(pruned /\ Len(rows) > MAX_TASK_HISTORY)
      BY <1>2, <1>3, <2>2
    <2> QED
      BY <2>1, <2>2
  <1>5. B!Rows' \subseteq B!Rows \cup {t}
    BY <1>4 DEF B!Rows, B!ToSet
  <1>6. PICK program \in Seq(B!Steps) : /\ program = B!Programs[kind] /\ Ends(program)
                                        /\ kind # "unknown" => Due(program)
    BY Starts
  <1>7. /\ job' \in [One -> Seq(B!Steps)] /\ job'[t] = program
        /\ \A u \in One \ {t} : job'[u] = job[u]
    BY <1>2, <1>6 DEF BTypes
  <1>8. /\ \A u \in One : u \in silent => u \in silent'
        /\ \A u \in One \ {t} : u \in silent' => u \in silent
        /\ Due(program) \/ t \in silent'
    BY <1>2, <1>6
  <1>9. B!Rows \subseteq One
    BY RowsOf DEF BTypes
  <1>10. /\ DOMAIN status' = One
         /\ \A u \in B!Rows' : status'[u] # "none" /\ (u # t => status'[u] = status[u])
    BY <1>2, <1>5, <1>9 DEF BTypes
  <1>11. BTypes'
    BY <1>4, <1>6, <1>7, <1>8, <1>10 DEF BTypes
  <1>12. Verdicts'
    BY <1>2, <1>5, <1>7, <1>8, <1>9, <1>10 DEF Verdicts
  <1> QED
    BY <1>11, <1>12

(* Every step of a job, the refused writes among them.                       *)
LEMMA JobStepKeeps ==
    ASSUME BTypes, Verdicts, NEW t \in One, B!JobStep(t)
    PROVE  BTypes' /\ Verdicts'
  <1>1. PICK j \in Seq(B!Steps) : j = job[t]
    BY DEF BTypes
  <1>2. /\ UNCHANGED <<table, killed>> /\ j # <<>>
        /\ \A u \in One \ {t} : u \in silent' <=> u \in silent
    BY <1>1 DEF B!JobStep, B!JobUpdate, B!JobUpdateFails, B!JobCheck, B!JobWork, B!JobRaises,
                B!JobRelease
  <1>3. Ends(j) /\ (t \notin silent => Due(j) \/ Quiet(j))
    BY <1>1 DEF BTypes
  <1>4. t \in B!Rows \ (killed \cup silent) => Due(j) \/ status[t] \in B!Terminal
    BY <1>1 DEF Verdicts
  <1>5. PICK rest \in Seq(B!Steps) :
           /\ rest = Tail(j) /\ Ends(rest)
           /\ Head(j) \in B!Terminal => Quiet(rest)
           /\ Head(j) \notin B!Terminal /\ Due(j) => Due(rest)
           /\ Quiet(j) => Quiet(rest) /\ Head(j) \notin B!Status
    BY <1>2, <1>3, JobTail
  <1>6. CASE B!JobUpdate(t)
    <2>1. PICK s \in B!Status : s = Head(j)
      BY <1>1, <1>6 DEF B!JobUpdate
    <2>2. /\ B!SetStatus(t, s) /\ job' = [job EXCEPT ![t] = rest]
          /\ silent' = IF s \in B!Terminal THEN silent \ {t} ELSE silent
      BY <1>1, <1>5, <1>6, <2>1 DEF B!JobUpdate
    <2>3. t \in B!Rows => status'[t] = s
      BY <2>2 DEF B!SetStatus, BTypes
    <2>4. \/ Due(rest) \/ t \in silent'
          \/ Quiet(rest) /\ (t \in B!Rows \ killed => status'[t] \in B!Terminal)
      BY <1>3, <1>5, <2>1, <2>2, <2>3
    <2> QED
      BY <1>2, <1>5, <2>2, <2>4, JobKeeps
  <1>7. CASE B!JobUpdateFails(t)
    <2>1. /\ Head(j) \in B!Status /\ status' = status /\ job' = [job EXCEPT ![t] = rest]
          /\ silent' = IF Head(j) \in B!Terminal THEN silent \cup {t} ELSE silent
      BY <1>1, <1>5, <1>7 DEF B!JobUpdateFails
    <2>2. Due(rest) \/ t \in silent'
      BY <1>3, <1>5, <2>1
    <2> QED
      BY <1>2, <1>5, <2>1, <2>2, JobKeeps
  <1>8. CASE B!JobCheck(t) \/ B!JobWork(t) \/ B!JobRaises(t) \/ B!JobRelease(t)
    <2>1. /\ status' = status /\ silent' = silent /\ Head(j) \in {"check", "work", "release"}
          /\ job' \in {[job EXCEPT ![t] = rest], [job EXCEPT ![t] = <<"cancelled", "release">>],
                       [job EXCEPT ![t] = <<"failed", "release">>]}
      BY <1>1, <1>5, <1>8 DEF B!JobCheck, B!JobWork, B!JobRaises, B!JobRelease, B!Handled
    <2>2. /\ Head(j) \notin B!Terminal
          /\ "cancelled" \in B!Terminal /\ "failed" \in B!Terminal
      BY <2>1 DEF B!Terminal
    <2>3. CASE job' = [job EXCEPT ![t] = rest]
      <3>1. \/ Due(rest) \/ t \in silent'
            \/ Quiet(rest) /\ (t \in B!Rows \ killed => status'[t] \in B!Terminal)
        BY <1>3, <1>4, <1>5, <2>1, <2>2
      <3> QED
        BY <1>2, <1>5, <2>1, <2>3, <3>1, JobKeeps
    <2>4. CASE job' # [job EXCEPT ![t] = rest]
      <3>1. PICK i \in Seq(B!Steps) : Ends(i) /\ Due(i) /\ job' = [job EXCEPT ![t] = i]
        BY <2>1, <2>2, <2>4, Starts
      <3> QED
        BY <1>2, <2>1, <3>1, JobKeeps
    <2> QED
      BY <2>3, <2>4
  <1> QED
    BY <1>6, <1>7, <1>8 DEF B!JobStep

(* The steps that touch no job, and no verdict but to write one.             *)
LEMMA StatusKeeps ==
    ASSUME BTypes, Verdicts, UNCHANGED <<table, job, killed, silent>>, DOMAIN status' = One,
           \A t \in One : status'[t] = status[t] \/ status'[t] \in B!Terminal
    PROVE  BTypes' /\ Verdicts'
  <1>1. B!Rows' = B!Rows /\ B!Rows \subseteq One
    BY RowsOf DEF B!Rows, BTypes
  <1>2. BTypes'
    BY <1>1 DEF BTypes, B!Terminal
  <1> QED
    BY <1>1, <1>2 DEF Verdicts

LEMMA CancelKeeps ==
    ASSUME BTypes, Verdicts, NEW w,
           \/ B!CancelFlag(w) \/ B!CancelUpdate(w) \/ B!CancelRelease(w) \/ \E t : B!CancelRead(w, t)
    PROVE  BTypes' /\ Verdicts'
  <1>1. UNCHANGED <<table, job, killed, silent>>
    BY DEF B!CancelFlag, B!CancelUpdate, B!CancelRelease, B!CancelRead
  <1>2. \/ status' = status
        \/ \E t : B!SetStatus(t, "cancelled")
    BY DEF B!CancelFlag, B!CancelUpdate, B!CancelRelease, B!CancelRead
  <1>3. DOMAIN status' = One /\ \A t \in One : status'[t] = status[t] \/ status'[t] \in B!Terminal
    BY <1>2 DEF BTypes, B!SetStatus, B!Terminal
  <1> QED
    BY <1>1, <1>3, StatusKeeps

LEMMA CleanupKeeps ==
    ASSUME BTypes, Verdicts, B!CleanupStale \/ \E t : B!Age(t)
    PROVE  BTypes' /\ Verdicts'
  <1>1. UNCHANGED <<table, job, killed, silent>>
    BY DEF B!CleanupStale, B!Age
  <1>2. DOMAIN status' = One /\ \A t \in One : status'[t] = status[t] \/ status'[t] \in B!Terminal
    BY DEF B!CleanupStale, B!Age, BTypes, B!Terminal
  <1> QED
    BY <1>1, <1>2, StatusKeeps

LEMMA RestartKeeps ==
    ASSUME BTypes, Verdicts, NEW w, B!Restart(w)
    PROVE  BTypes' /\ Verdicts'
  <1> DEFINE mine == {t \in One : home[t] = w}
  <1>1. /\ UNCHANGED <<table, status, silent>> /\ killed' = killed \cup {t \in mine : job[t] # <<>>}
        /\ job' = [t \in One |-> IF t \in mine THEN <<>> ELSE job[t]]
    BY DEF B!Restart
  <1>2. B!Rows' = B!Rows /\ B!Rows \subseteq One
    BY <1>1, RowsOf DEF B!Rows, BTypes
  <1>3. <<>> \in Seq(B!Steps) /\ Ends(<<>>) /\ Quiet(<<>>)
    BY DEF Ends, Quiet
  <1>4. job' \in [One -> Seq(B!Steps)] /\ \A t \in One : job'[t] = job[t] \/ (t \in mine /\ job'[t] = <<>>)
    BY <1>1, <1>3 DEF BTypes
  <1>5. BTypes'
    BY <1>1, <1>2, <1>3, <1>4 DEF BTypes
  <1>6. \A t \in B!Rows \ killed' : job'[t] = job[t]
    BY <1>1, <1>2, <1>4
  <1>7. Verdicts'
    BY <1>1, <1>2, <1>6 DEF Verdicts
  <1> QED
    BY <1>5, <1>7

(* Every step of BackgroundTasks keeps the verdicts.                         *)
LEMMA BackgroundStep ==
    ASSUME BTypes, Verdicts, [B!Next]_(B!vars)
    PROVE  BTypes' /\ Verdicts'
  <1>1. CASE \E w \in Worker, t \in One :
                \/ B!CancelRead(w, t)
                \/ \E kind \in B!Kind, inserted, pruned \in BOOLEAN :
                      B!CreateTask(w, t, kind, inserted, pruned)
    BY <1>1, CancelKeeps, CreateTaskKeeps
  <1>2. CASE \E w \in Worker : \/ B!CancelFlag(w) \/ B!CancelUpdate(w) \/ B!CancelRelease(w)
                               \/ B!Restart(w)
    BY <1>2, CancelKeeps, RestartKeeps
  <1>3. CASE \E t \in One : B!JobStep(t) \/ B!Age(t)
    BY <1>3, JobStepKeeps, CleanupKeeps
  <1>4. CASE B!CleanupStale
    BY <1>4, CleanupKeeps
  <1>5. CASE UNCHANGED B!vars
    BY <1>5, StatusKeeps DEF B!vars, BTypes
  <1> QED
    BY <1>1, <1>2, <1>3, <1>4, <1>5 DEF B!Next

(* However many processes there are, whatever is refused or raised on the    *)
(* way, a job that has come to its end has left a verdict, unless its process *)
(* died, the write of that verdict was refused or its report has no name the *)
(* code knows.                                                               *)
THEOREM JobsAlwaysLeaveAVerdict == B!Spec => []JobsLeaveAVerdict
  <1> DEFINE Inv == BTypes /\ Verdicts
  <1>1. B!Init => Inv
    BY BackgroundInit
  <1>2. Inv /\ [B!Next]_(B!vars) => Inv'
    BY BackgroundStep
  <1>3. Inv => JobsLeaveAVerdict
    BY DEF Verdicts, Due, JobsLeaveAVerdict, B!JobsLeaveAVerdict
  <1> QED
    BY <1>1, <1>2, <1>3, PTL DEF B!Spec

-----------------------------------------------------------------------------
(* The answer cache *)

(* What may be kept of a citation, and what a place may hold.                *)
Good(c) == c.doc \in Doc /\ (K!Settled(c.doc) => doc[c.doc].state # "deleted")
Clean(f) == \A p \in DOMAIN f : \A c \in f[p] : Good(c)
Fresh(cites) == \A c \in cites : c.doc \in Doc /\ doc[c.doc].state = "indexed"

KInv ==
    /\ DOMAIN doc = Doc /\ DOMAIN memory = Worker /\ DOMAIN kreq = Worker
    /\ \A w \in Worker \ connected : DOMAIN kcache = {} /\ Clean(memory[w])
    /\ Clean(kcache)
    /\ \A w \in Worker : kreq[w].pc = "put" => Fresh(kreq[w].cites)
    /\ \A w \in Worker : kreq[w].pc = "invalidate" =>
          /\ kreq[w].doc \in Doc
          /\ doc[kreq[w].doc].state = "deleted" => kreq[w].given = "title"

(* The invariant holds when the program starts.                              *)
LEMMA CacheInit == K!Init => KInv
  BY DEF K!Init, K!Idle, KInv, Clean

(* Nothing is settled by a step that ends no invalidation.                   *)
LEMMA GoodStays ==
    ASSUME UNCHANGED <<doc, missed>>,
           \A w \in Worker : kreq[w].pc = "invalidate" => kreq'[w] = kreq[w]
    PROVE  \A c : Good(c) => Good(c)'
  BY DEF Good, K!Settled

(* The places, when an entry comes or some go.                               *)
LEMMA WithClean ==
    ASSUME NEW f, NEW p, NEW cites, Clean(f), \A c \in cites : Good(c)
    PROVE  \A x \in DOMAIN K!With(f, p, cites) : \A c \in K!With(f, p, cites)[x] : Good(c)
  BY DEF K!With, Clean

(* Nothing bad comes of leaving entries out.                                 *)
LEMMA WithoutClean ==
    ASSUME NEW f, NEW S, Clean(f)
    PROVE  Clean(K!Without(f, S)) /\ DOMAIN K!Without(f, S) \subseteq DOMAIN f
  BY DEF K!Without, K!Restrict, Clean

(* The steps that leave the documents as they are and end no invalidation.   *)
LEMMA PlacesKeep ==
    ASSUME OneWorker, KInv, UNCHANGED <<doc, missed>>, DOMAIN kreq' = Worker, DOMAIN memory' = Worker,
           connected \subseteq connected',
           \A w \in Worker : kreq[w].pc = "invalidate" => kreq'[w] = kreq[w],
           \A w \in Worker : kreq'[w].pc = "invalidate" => kreq'[w] = kreq[w],
           \A w \in Worker : kreq'[w].pc = "put" => Fresh(kreq'[w].cites),
           \A p \in DOMAIN kcache' : \A c \in kcache'[p] : Good(c),
           \A w \in Worker \ connected' :
              /\ DOMAIN kcache' = {}
              /\ \A p \in DOMAIN memory'[w] : \A c \in memory'[w][p] : Good(c)
    PROVE  KInv'
  <1>1. \A c : Good(c) => Good(c)'
    BY GoodStays
  <1>2. Clean(kcache)' /\ \A w \in Worker \ connected' : Clean(memory[w])'
    BY <1>1 DEF Clean
  <1>3. \A w \in Worker : kreq'[w].pc = "put" => Fresh(kreq[w].cites)'
    BY DEF Fresh
  <1> QED
    BY <1>2, <1>3 DEF KInv

LEMMA AskKeeps ==
    ASSUME OneWorker, KInv, NEW w \in Worker, NEW p, NEW first, K!Ask(w, p, first)
    PROVE  KInv'
  <1>1. PICK r : r = [pc |-> "answer", query |-> p]
    OBVIOUS
  <1>2. /\ kreq' = [kreq EXCEPT ![w] = r] /\ r.pc = "answer" /\ kreq[w].pc = "idle"
        /\ UNCHANGED <<doc, kcache, memory, missed>>
    BY <1>1 DEF K!Ask
  <1>3. connected \subseteq connected'
    BY DEF K!Ask, K!Connect
  <1>4. /\ DOMAIN kreq' = Worker /\ kreq'[w] = r /\ \A v \in Worker : v = w
    BY <1>2 DEF KInv, OneWorker
  <1> QED
    BY <1>2, <1>3, <1>4, PlacesKeep DEF KInv, Clean

LEMMA AnswerKeeps ==
    ASSUME OneWorker, KInv, NEW w \in Worker, K!Answer(w)
    PROVE  KInv'
  <1>1. PICK quoted \in SUBSET K!Citable :
           kreq' = [kreq EXCEPT ![w] = [pc |-> "put", query |-> kreq[w].query, cites |-> quoted]]
    BY DEF K!Answer, KInv
  <1>2. PICK r : r = [pc |-> "put", query |-> kreq[w].query, cites |-> quoted]
    OBVIOUS
  <1>3. kreq' = [kreq EXCEPT ![w] = r] /\ r.pc = "put" /\ r.cites = quoted
    BY <1>1, <1>2
  <1>4. Fresh(r.cites)
    BY <1>3 DEF K!Citable, Fresh
  <1>5. kreq[w].pc = "answer" /\ UNCHANGED <<doc, kcache, memory, connected, missed>>
    BY DEF K!Answer
  <1>6. /\ DOMAIN kreq' = Worker /\ kreq'[w] = r /\ \A v \in Worker : v = w
    BY <1>3 DEF KInv, OneWorker
  <1> QED
    BY <1>3, <1>4, <1>5, <1>6, PlacesKeep DEF KInv, Clean

LEMMA PutKeeps ==
    ASSUME OneWorker, KInv, NEW w \in Worker, K!Put(w)
    PROVE  KInv'
  <1>1. PICK p, cites : p = kreq[w].query /\ cites = kreq[w].cites
    OBVIOUS
  <1>2. \A c \in cites : Good(c)
    BY <1>1 DEF KInv, Fresh, Good, K!Put
  <1>3. /\ kreq' = [kreq EXCEPT ![w] = K!Idle] /\ kreq[w].pc = "put"
        /\ UNCHANGED <<doc, missed>> /\ connected \subseteq connected' /\ (up => w \in connected')
    BY DEF K!Put, K!Connect
  <1>4. DOMAIN kreq' = Worker /\ kreq'[w].pc = "idle" /\ \A v \in Worker : v = w
    BY <1>3 DEF KInv, OneWorker, K!Idle
  <1>5. CASE up
    <2>1. kcache' = K!With(kcache, p, cites) /\ UNCHANGED memory
      BY <1>1, <1>5 DEF K!Put
    <2>2. \A x \in DOMAIN kcache' : \A c \in kcache'[x] : Good(c)
      BY <1>2, <2>1, WithClean DEF KInv
    <2> QED
      BY <1>3, <1>4, <1>5, <2>1, <2>2, PlacesKeep DEF KInv
  <1>6. CASE ~up
    <2>1. UNCHANGED kcache /\ K!Remember(w, p, cites)
      BY <1>1, <1>6 DEF K!Put
    <2>2. PICK S : memory' = [memory EXCEPT ![w] = K!With(K!Without(memory[w], S), p, cites)]
                \/ memory' = [memory EXCEPT ![w] = K!With(memory[w], p, cites)]
      BY <2>1 DEF K!Remember, KInv
    <2>3. DOMAIN memory' = Worker
      BY <2>2 DEF KInv
    <2>4. ASSUME Clean(memory[w])
          PROVE  \A x \in DOMAIN memory'[w] : \A c \in memory'[w][x] : Good(c)
      <3>1. Clean(K!Without(memory[w], S))
        BY <2>4, WithoutClean
      <3>2. memory'[w] = K!With(K!Without(memory[w], S), p, cites) \/ memory'[w] = K!With(memory[w], p, cites)
        BY <2>2 DEF KInv
      <3> QED
        BY <1>2, <2>4, <3>1, <3>2, WithClean
    <2>5. \A x \in DOMAIN kcache' : \A c \in kcache'[x] : Good(c)
      BY <2>1 DEF KInv, Clean
    <2>6. \A v \in Worker \ connected' : v \in Worker \ connected /\ v = w
      BY <1>3, <1>4
    <2> QED
      BY <1>3, <1>4, <2>1, <2>3, <2>4, <2>5, <2>6, PlacesKeep DEF KInv
  <1> QED
    BY <1>5, <1>6

LEMMA ForgoKeeps ==
    ASSUME OneWorker, KInv, NEW w \in Worker, K!Forgo(w)
    PROVE  KInv'
  <1>1. /\ kreq' = [kreq EXCEPT ![w] = K!Idle] /\ kreq[w].pc # "invalidate"
        /\ UNCHANGED <<doc, kcache, memory, connected, missed>>
    BY DEF K!Forgo
  <1>2. DOMAIN kreq' = Worker /\ kreq'[w].pc = "idle" /\ \A v \in Worker : v = w
    BY <1>1 DEF KInv, OneWorker, K!Idle
  <1> QED
    BY <1>1, <1>2, PlacesKeep DEF KInv, Clean

(* Entries go, and the worker may get a client.                              *)
LEMMA FewerKeep ==
    ASSUME OneWorker, KInv, UNCHANGED <<doc, missed, kreq>>, connected \subseteq connected',
           \/ UNCHANGED kcache
           \/ \E S : kcache' = K!Without(kcache, S),
           \/ UNCHANGED memory
           \/ \E w \in Worker : \E S : memory' = [memory EXCEPT ![w] = K!Without(@, S)]
    PROVE  KInv'
  <1>1. DOMAIN kcache' \subseteq DOMAIN kcache /\ \A x \in DOMAIN kcache' : \A c \in kcache'[x] : Good(c)
    BY WithoutClean DEF KInv, Clean
  <1>2. DOMAIN memory' = Worker
    BY DEF KInv
  <1>3. \A w \in Worker \ connected' : \A p \in DOMAIN memory'[w] : \A c \in memory'[w][p] : Good(c)
    <2> SUFFICES ASSUME NEW w \in Worker \ connected' PROVE Clean(memory'[w])
      BY DEF Clean
    <2>1. Clean(memory[w])
      BY DEF KInv
    <2>2. memory'[w] = memory[w] \/ \E S : memory'[w] = K!Without(memory[w], S)
      BY DEF KInv
    <2> QED
      BY <2>1, <2>2, WithoutClean
  <1> QED
    BY <1>1, <1>2, <1>3, PlacesKeep DEF KInv

LEMMA OtherStepsKeep ==
    ASSUME OneWorker, KInv,
           \/ \E w \in Worker : \E p : K!Hit(w, p) \/ K!Forget(w, p)
           \/ \E w \in Worker : K!Clear(w)
           \/ \E p : K!Expire(p)
           \/ K!Turn \/ UNCHANGED K!vars
    PROVE  KInv'
  <1>1. UNCHANGED <<doc, missed, kreq>> /\ connected \subseteq connected'
    BY DEF K!Hit, K!Forget, K!Clear, K!Expire, K!Turn, K!vars, K!Connect
  <1>2. UNCHANGED kcache \/ \E S : kcache' = K!Without(kcache, S)
    BY DEF K!Hit, K!Forget, K!Clear, K!Expire, K!Turn, K!vars
  <1>3. UNCHANGED memory \/ \E w \in Worker : \E S : memory' = [memory EXCEPT ![w] = K!Without(@, S)]
    BY DEF K!Hit, K!Forget, K!Clear, K!Expire, K!Turn, K!vars
  <1> QED
    BY <1>1, <1>2, <1>3, FewerKeep

(* A document changes: the answers that cite it are not settled yet.         *)
LEMMA ChangeKeeps ==
    ASSUME OneWorker, KInv, NEW w \in Worker, NEW d \in Doc, NEW how, NEW state, NEW edition,
           K!Change(w, d, how, state, edition), state = "deleted" => how = "delete"
    PROVE  KInv'
  <1>1. PICK r : r = [pc |-> "invalidate", doc |-> d, given |-> K!Given(how)]
    OBVIOUS
  <1>2. kreq' = [kreq EXCEPT ![w] = r] /\ kreq[w].pc = "idle"
        /\ UNCHANGED <<kcache, memory, connected, missed>>
    BY <1>1 DEF K!Change
  <1>3. r.pc = "invalidate" /\ r.doc = d /\ r.given = K!Given(how)
    BY <1>1
  <1>4. PICK s : s = [state |-> state, edition |-> edition]
    OBVIOUS
  <1>5. doc' = [doc EXCEPT ![d] = s] /\ s.state = state
    BY <1>4 DEF K!Change
  <1>6. DOMAIN kreq' = Worker /\ kreq'[w] = r /\ \A v \in Worker : v = w
    BY <1>2 DEF KInv, OneWorker
  <1>7. DOMAIN doc' = Doc /\ doc'[d].state = state /\ \A x \in Doc \ {d} : doc'[x] = doc[x]
    BY <1>5 DEF KInv
  <1>8. \A c : Good(c) => Good(c)'
    <2> SUFFICES ASSUME NEW c, Good(c), K!Settled(c.doc)' PROVE doc'[c.doc].state # "deleted"
      BY DEF Good
    <2>1. c.doc \in Doc \ {d} /\ c.doc \notin missed
      BY <1>2, <1>3, <1>6 DEF K!Settled, Good
    <2>2. K!Settled(c.doc)
      BY <1>2, <1>6, <2>1 DEF K!Settled
    <2> QED
      BY <1>7, <2>1, <2>2 DEF Good
  <1>9. Clean(kcache)' /\ \A v \in Worker \ connected : Clean(memory[v])'
    BY <1>2, <1>8 DEF Clean, KInv
  <1>10. /\ kreq'[w].doc \in Doc
         /\ doc'[kreq'[w].doc].state = "deleted" => kreq'[w].given = "title"
    BY <1>3, <1>6, <1>7 DEF K!Given
  <1> QED
    BY <1>2, <1>3, <1>6, <1>7, <1>9, <1>10 DEF KInv

(* What an invalidation leaves of a place that is searched for citations.    *)
LEMMA SearchedIsClean ==
    ASSUME NEW f, NEW w \in Worker, Clean(f), \A v \in Worker : v = w, kreq[w].pc = "invalidate",
           doc[kreq[w].doc].state = "deleted" => kreq[w].given = "title"
    PROVE  LET g == K!Without(f, K!Citing(f, kreq[w].doc, kreq[w].given)) IN
           /\ DOMAIN g \subseteq DOMAIN f
           /\ \A x \in DOMAIN g : \A c \in g[x] :
                 c.doc \in Doc /\ (c.doc \notin missed \ {kreq[w].doc} => doc[c.doc].state # "deleted")
  <1> DEFINE cited == K!Citing(f, kreq[w].doc, kreq[w].given)
             g == K!Without(f, cited)
  <1>1. DOMAIN g = DOMAIN f \ cited /\ \A x \in DOMAIN g : g[x] = f[x]
    BY DEF K!Without, K!Restrict
  <1> SUFFICES ASSUME NEW x \in DOMAIN g, NEW c \in g[x]
               PROVE  c.doc \in Doc /\ (c.doc \notin missed \ {kreq[w].doc} => doc[c.doc].state # "deleted")
    BY <1>1
  <1>2. x \in DOMAIN f /\ x \notin cited /\ c \in f[x] /\ Good(c)
    BY <1>1 DEF Clean
  <1>3. c.doc = kreq[w].doc => doc[c.doc].state # "deleted"
    BY <1>2 DEF K!Citing, K!Matches
  <1>4. c.doc # kreq[w].doc /\ c.doc \notin missed => K!Settled(c.doc)
    BY DEF K!Settled
  <1> HIDE DEF g, cited
  <1> QED
    BY <1>2, <1>3, <1>4 DEF Good

LEMMA InvalidateKeeps ==
    ASSUME OneWorker, KInv, NEW w \in Worker, K!Invalidate(w)
    PROVE  KInv'
  <1> DEFINE d == kreq[w].doc
             Searched(f) == K!Without(f, K!Citing(f, d, kreq[w].given))
  <1>1. /\ kreq[w].pc = "invalidate" /\ kreq' = [kreq EXCEPT ![w] = K!Idle]
        /\ UNCHANGED doc /\ connected' = IF up THEN connected \cup {w} ELSE connected
    BY DEF K!Invalidate, K!Connect
  <1>2. DOMAIN kreq' = Worker /\ kreq'[w].pc = "idle" /\ \A v \in Worker : v = w
    BY <1>1 DEF KInv, OneWorker, K!Idle
  <1>3. doc[d].state = "deleted" => kreq[w].given = "title"
    BY <1>1 DEF KInv
  <1>4. \A x : K!Settled(x)' => x \notin missed'
    BY DEF K!Settled
  <1>5. \A x : x \notin missed /\ x # d => K!Settled(x)
    BY <1>2 DEF K!Settled
  <1>6. CASE K!Client(w) /\ up
    <2>1. kcache' = Searched(kcache) /\ missed' = missed \ {d} /\ UNCHANGED memory
      BY <1>6 DEF K!Invalidate
    <2>2. \A x \in DOMAIN kcache' : \A c \in kcache'[x] :
             c.doc \in Doc /\ (c.doc \notin missed' => doc[c.doc].state # "deleted")
      BY <1>1, <1>2, <1>3, <2>1, SearchedIsClean DEF KInv
    <2>3. Clean(kcache)' /\ Worker \ connected' = {}
      BY <1>1, <1>2, <1>4, <1>6, <2>2 DEF Clean, Good
    <2> QED
      BY <1>1, <1>2, <2>1, <2>3 DEF KInv
  <1>7. CASE K!Client(w) /\ ~up
    <2>1. missed' = missed \cup {d} /\ UNCHANGED <<kcache, memory>>
      BY <1>7 DEF K!Invalidate
    <2>2. \A c : Good(c) => Good(c)'
      BY <1>1, <1>4, <1>5, <2>1 DEF Good
    <2>3. Clean(kcache)' /\ Worker \ connected' = {}
      BY <1>1, <1>2, <1>7, <2>1, <2>2 DEF Clean, KInv, K!Client
    <2> QED
      BY <1>1, <1>2, <2>1, <2>3 DEF KInv
  <1>8. CASE ~K!Client(w)
    <2>1. memory' = [memory EXCEPT ![w] = Searched(memory[w])] /\ UNCHANGED <<kcache, missed>>
      BY <1>8 DEF K!Invalidate, KInv
    <2>2. w \notin connected /\ ~up
      BY <1>8 DEF K!Client
    <2>3. Clean(memory[w]) /\ DOMAIN kcache = {}
      BY <2>2 DEF KInv
    <2>4. DOMAIN memory' = Worker /\ memory'[w] = Searched(memory[w])
      BY <2>1 DEF KInv
    <2>5. \A x \in DOMAIN memory'[w] : \A c \in memory'[w][x] :
             c.doc \in Doc /\ (c.doc \notin missed \ {d} => doc[c.doc].state # "deleted")
      BY <1>1, <1>2, <1>3, <2>3, <2>4, SearchedIsClean
    <2>6. Clean(memory[w])'
      BY <1>1, <1>4, <2>1, <2>5 DEF Clean, Good
    <2>7. Clean(kcache)'
      BY <2>1, <2>3 DEF Clean
    <2> QED
      BY <1>1, <1>2, <2>1, <2>3, <2>4, <2>6, <2>7 DEF KInv
  <1> QED
    BY <1>6, <1>7, <1>8

(* Every step of AnswerCache keeps the invariant.                            *)
LEMMA CacheStep ==
    ASSUME OneWorker, KInv, [K!Next]_(K!vars)
    PROVE  KInv'
  <1>1. CASE \E w \in Worker, p \in One :
                K!Hit(w, p) \/ K!Forget(w, p) \/ \E first \in BOOLEAN : K!Ask(w, p, first)
    BY <1>1, OtherStepsKeep, AskKeeps
  <1>2. CASE \E w \in Worker : K!Answer(w) \/ K!Put(w) \/ K!Forgo(w)
    BY <1>2, AnswerKeeps, PutKeeps, ForgoKeeps
  <1>3. CASE \E w \in Worker, d \in Doc : K!Upload(w, d) \/ K!Delete(w, d) \/ K!BatchDelete(w, d)
    BY <1>3, ChangeKeeps DEF K!Upload, K!Delete, K!BatchDelete
  <1>4. CASE \E w \in Worker : K!Invalidate(w) \/ K!Clear(w)
    BY <1>4, InvalidateKeeps, OtherStepsKeep
  <1>5. CASE (\E p \in One : K!Expire(p)) \/ K!Turn \/ UNCHANGED K!vars
    BY <1>5, OtherStepsKeep
  <1> QED
    BY <1>1, <1>2, <1>3, <1>4, <1>5 DEF K!Next

(* With one worker no answer is served that cites a document deleted since,  *)
(* whatever Redis did meanwhile, once the deletion was heard of.             *)
THEOREM DeletedStaysUnserved == OneWorker => (K!Spec => []DeletedIsNotServed)
  <1> SUFFICES ASSUME OneWorker PROVE K!Spec => []DeletedIsNotServed
    OBVIOUS
  <1>1. K!Init => KInv
    BY CacheInit
  <1>2. KInv /\ [K!Next]_(K!vars) => KInv'
    BY CacheStep
  <1>3. KInv => DeletedIsNotServed
    <2>1. ASSUME KInv, NEW w \in Worker PROVE Clean(K!Served(w))
      BY <2>1 DEF KInv, K!Served, K!Client
    <2> QED
      BY <2>1 DEF Clean, Good, DeletedIsNotServed, K!DeletedIsNotServed
  <1> QED
    BY <1>1, <1>2, <1>3, PTL DEF K!Spec

-----------------------------------------------------------------------------
(* Induction *)

Less == {x \in Nat \X Nat : x[1] < x[2]}

(* A set of natural numbers has a least one.                                 *)
LEMMA Least == ASSUME NEW S \in SUBSET Nat, S # {} PROVE \E x \in S : \A y \in S : x <= y
  <1>1. IsWellFoundedOn(Less, Nat)
    BY NatLessThanWellFounded, Zenon DEF OpToRel, Less
  <1>2. PICK x \in S : \A y \in S : <<y, x>> \notin Less
    BY <1>1, WFMin
  <1>3. \A y \in S : ~ (y < x)
    BY <1>2 DEF Less
  <1> QED
    BY <1>3

(* A set with 0 and with the next of each of its numbers has them all. The   *)
(* rule is about a set, which the provers find, and not about a predicate.   *)
LEMMA Inductive ==
    ASSUME NEW S, 0 \in S, \A n \in Nat : n \in S => n + 1 \in S
    PROVE  \A n \in Nat : n \in S
  <1> SUFFICES ASSUME Nat \ S # {} PROVE FALSE
    OBVIOUS
  <1>1. PICK x \in Nat \ S : \A y \in Nat \ S : x <= y
    BY Least
  <1>2. x # 0 /\ x - 1 \in Nat
    BY <1>1
  <1>3. x - 1 \in S
    BY <1>1, <1>2
  <1> QED
    BY <1>2, <1>3

-----------------------------------------------------------------------------
(* Pages and words                                                           *)

Pos(p) == {s \in Nat \X Nat : s[1] \in DOMAIN p /\ s[2] \in DOMAIN p[s[1]].lengths}

(* A page has sections, these have sentences, and of each the words.         *)
LEMMA PageIs ==
    ASSUME NEW p \in P!Pages
    PROVE  /\ Len(p) \in Nat /\ DOMAIN p = 1 .. Len(p)
           /\ \A i \in 1 .. Len(p) : p[i].lengths \in Seq(Nat) /\ p[i].lengths # <<>>
  <1>1. PICK m \in 1 .. MaxSections : p \in [1 .. m -> P!Section]
    BY DEF P!Pages
  <1>2. m \in Nat
    BY OverlapAssumption
  <1>3. ASSUME NEW i \in 1 .. m
        PROVE  p[i].lengths \in Seq(Nat) /\ p[i].lengths # <<>>
    <2>1. p[i].lengths \in UNION {[1 .. n -> Length] : n \in 1 .. MaxSentences}
      BY <1>1 DEF P!Section
    <2>2. PICK n \in 1 .. MaxSentences : p[i].lengths \in [1 .. n -> Length]
      BY <2>1
    <2>3. n \in Nat /\ n >= 1
      BY OverlapAssumption
    <2>4. p[i].lengths \in [1 .. n -> Nat]
      BY <2>2, OverlapAssumption
    <2> QED
      BY <2>3, <2>4
  <1> QED
    BY <1>1, <1>2, <1>3

(* A sentence has a number of words.                                         *)
LEMMA WeightIs == ASSUME NEW p \in P!Pages, NEW s \in Pos(p) PROVE P!Weight(p, s) \in Nat
  BY PageIs DEF Pos, P!Weight

(* The sentences of a section, by their places.                              *)
LEMMA SentencesAre ==
    ASSUME NEW p \in P!Pages, NEW i \in 1 .. Len(p)
    PROVE  /\ P!Sentences(p, i) \in Seq(Pos(p)) /\ P!Sentences(p, i) # <<>>
           /\ DOMAIN P!Sentences(p, i) = DOMAIN p[i].lengths
           /\ \A j \in DOMAIN p[i].lengths : P!Sentences(p, i)[j] = <<i, j>>
  <1> DEFINE n == Len(p[i].lengths)
  <1>1. n \in Nat /\ DOMAIN p[i].lengths = 1 .. n /\ n # 0 /\ i \in Nat /\ i \in DOMAIN p
    BY PageIs
  <1>2. P!Sentences(p, i) = [j \in 1 .. n |-> <<i, j>>]
    BY <1>1 DEF P!Sentences
  <1>3. \A j \in 1 .. n : <<i, j>> \in Pos(p)
    BY <1>1 DEF Pos
  <1> HIDE DEF n
  <1>4. P!Sentences(p, i) \in [1 .. n -> Pos(p)]
    BY <1>2, <1>3
  <1>5. P!Sentences(p, i) \in Seq(Pos(p)) /\ Len(P!Sentences(p, i)) = n
    BY <1>1, <1>4
  <1>6. P!Sentences(p, i) # <<>>
    BY <1>1, <1>5
  <1>7. DOMAIN P!Sentences(p, i) = 1 .. n /\ \A j \in 1 .. n : P!Sentences(p, i)[j] = <<i, j>>
    BY <1>2
  <1> QED
    BY <1>1, <1>5, <1>6, <1>7

(* words counts the first n sentences.                                       *)
Counts(p, ss, words, n) ==
    words = [m \in 0 .. n |-> IF m = 0 THEN 0 ELSE words[m - 1] + P!Weight(p, ss[m])]

(* It can be computed for every n.                                           *)
LEMMA CountsExist == ASSUME NEW p, NEW ss, NEW n \in Nat PROVE \E words : Counts(p, ss, words, n)
  <1> DEFINE S == {m \in Nat : \E words : Counts(p, ss, words, m)}
  <1>1. 0 \in S
    <2>1. Counts(p, ss, [m \in 0 .. 0 |-> 0], 0)
      BY DEF Counts
    <2> QED
      BY <2>1
  <1>2. ASSUME NEW m \in Nat, m \in S
        PROVE  m + 1 \in S
    <2>1. PICK w : Counts(p, ss, w, m)
      BY <1>2
    <2> DEFINE v == [k \in 0 .. m + 1 |-> IF k = m + 1 THEN w[m] + P!Weight(p, ss[k]) ELSE w[k]]
    <2>2. ASSUME NEW k \in 0 .. m + 1
          PROVE  v[k] = IF k = 0 THEN 0 ELSE v[k - 1] + P!Weight(p, ss[k])
      <3>1. CASE k = m + 1
        BY <3>1
      <3>2. CASE k \in 0 .. m
        <4>1. w[k] = IF k = 0 THEN 0 ELSE w[k - 1] + P!Weight(p, ss[k])
          BY <2>1, <3>2 DEF Counts
        <4> QED
          BY <3>2, <4>1
      <3> QED
        BY <3>1, <3>2
    <2>3. Counts(p, ss, v, m + 1)
      BY <2>2 DEF Counts
    <2> QED
      BY <2>3
  <1>3. n \in S
    BY <1>1, <1>2, Inductive
  <1> QED
    BY <1>3

(* Words is what such a count comes to.                                      *)
LEMMA WordsAre ==
    ASSUME NEW p, NEW ss, Len(ss) \in Nat
    PROVE  \E words : Counts(p, ss, words, Len(ss)) /\ P!Words(p, ss) = words[Len(ss)]
  <1> DEFINE w == CHOOSE words : Counts(p, ss, words, Len(ss))
  <1>1. Counts(p, ss, w, Len(ss))
    BY CountsExist, Zenon
  <1>2. P!Words(p, ss) = w[Len(ss)]
    BY Zenon DEF P!Words, Counts
  <1> QED
    BY <1>1, <1>2, Zenon

Begins(ss, tt, n) == \A k \in 1 .. n : ss[k] = tt[k]

(* Of two texts that begin alike the beginnings have as many words.          *)
LEMMA CountsAgree ==
    ASSUME NEW p, NEW ss, NEW tt, NEW w, NEW v, NEW n \in Nat, NEW m \in Nat,
           Counts(p, ss, w, n), Counts(p, tt, v, m), n <= m, Begins(ss, tt, n)
    PROVE  w[n] = v[n]
  <1> DEFINE S == {k \in Nat : k <= n => w[k] = v[k]}
  <1>1. 0 \in S
    BY DEF Counts
  <1>2. ASSUME NEW k \in Nat, k \in S
        PROVE  k + 1 \in S
    <2> SUFFICES ASSUME k + 1 <= n PROVE w[k + 1] = v[k + 1]
      OBVIOUS
    <2>1. k + 1 \in 0 .. n /\ k + 1 \in 0 .. m /\ k + 1 \in 1 .. n /\ (k + 1) - 1 = k /\ k + 1 # 0
      OBVIOUS
    <2>2. w[k + 1] = w[k] + P!Weight(p, ss[k + 1])
      BY <2>1 DEF Counts
    <2>3. v[k + 1] = v[k] + P!Weight(p, tt[k + 1])
      BY <2>1 DEF Counts
    <2> QED
      BY <1>2, <2>1, <2>2, <2>3 DEF Begins
  <1>3. n \in S
    BY <1>1, <1>2, Inductive
  <1> QED
    BY <1>3

(* Nothing has no words.                                                     *)
LEMMA WordsOfNone == \A p : P!Words(p, <<>>) = 0
  <1> TAKE p
  <1>1. Len(<<>>) = 0
    OBVIOUS
  <1>2. PICK w : Counts(p, <<>>, w, 0) /\ P!Words(p, <<>>) = w[0]
    BY <1>1, WordsAre
  <1> QED
    BY <1>2 DEF Counts

(* A text with one sentence more has the words of that one more.             *)
LEMMA WordsGrow ==
    ASSUME NEW p, NEW ss, NEW tt, NEW n \in Nat, Len(ss) = n, Len(tt) = n + 1, Begins(ss, tt, n)
    PROVE  P!Words(p, tt) = P!Words(p, ss) + P!Weight(p, tt[n + 1])
  <1>1. PICK w : Counts(p, ss, w, n) /\ P!Words(p, ss) = w[n]
    BY WordsAre
  <1>2. PICK v : Counts(p, tt, v, n + 1) /\ P!Words(p, tt) = v[n + 1]
    BY WordsAre
  <1>3. n + 1 \in Nat /\ n <= n + 1
    OBVIOUS
  <1>4. w[n] = v[n]
    <2>1. Counts(p, ss, w, n) /\ Counts(p, tt, v, n + 1) /\ Begins(ss, tt, n)
      BY <1>1, <1>2
    <2>2. \A m \in Nat : Counts(p, tt, v, m) /\ n <= m => w[n] = v[n]
      BY <2>1, CountsAgree
    <2> QED
      BY <1>3, <2>1, <2>2
  <1>5. v[n + 1] = v[n] + P!Weight(p, tt[n + 1])
    BY <1>2 DEF Counts
  <1> QED
    BY <1>1, <1>2, <1>4, <1>5

(* And so has one to which it is appended.                                   *)
LEMMA WordsAppend ==
    ASSUME NEW p, NEW S, NEW ss \in Seq(S), NEW s \in S
    PROVE  P!Words(p, Append(ss, s)) = P!Words(p, ss) + P!Weight(p, s)
  <1>1. /\ Len(ss) \in Nat /\ Len(Append(ss, s)) = Len(ss) + 1
        /\ Append(ss, s)[Len(ss) + 1] = s /\ Begins(ss, Append(ss, s), Len(ss))
    BY DEF Begins
  <1> QED
    BY <1>1, WordsGrow

(* A count of words is a number.                                             *)
LEMMA WordsNat ==
    ASSUME NEW p \in P!Pages, NEW ss \in Seq(Pos(p))
    PROVE  P!Words(p, ss) \in Nat
  <1> DEFINE n == Len(ss)
  <1>1. n \in Nat /\ \A k \in 1 .. n : P!Weight(p, ss[k]) \in Nat
    BY WeightIs
  <1>2. PICK w : Counts(p, ss, w, n) /\ P!Words(p, ss) = w[n]
    BY <1>1, WordsAre
  <1> DEFINE S == {k \in Nat : k <= n => w[k] \in Nat}
  <1>3. 0 \in S
    BY <1>1, <1>2 DEF Counts
  <1>4. ASSUME NEW k \in Nat, k \in S
        PROVE  k + 1 \in S
    <2> SUFFICES ASSUME k + 1 <= n PROVE w[k + 1] \in Nat
      OBVIOUS
    <2>1. k + 1 \in 0 .. n /\ k + 1 \in 1 .. n /\ (k + 1) - 1 = k /\ k + 1 # 0 /\ k <= n
      BY <1>1
    <2>2. w[k + 1] = w[k] + P!Weight(p, ss[k + 1])
      BY <1>2, <2>1 DEF Counts
    <2> QED
      BY <1>1, <1>4, <2>1, <2>2
  <1>5. n \in S
    BY <1>1, <1>3, <1>4, Inductive
  <1> QED
    BY <1>2, <1>5

Run(ss, c, d) == SubSeq(ss, c, d)

(* A run of a text, from one place to another.                               *)
LEMMA RunIs ==
    ASSUME NEW S, NEW ss \in Seq(S), NEW c \in Nat, NEW d \in Nat, 1 <= c, c <= d + 1, d <= Len(ss)
    PROVE  /\ Run(ss, c, d) \in Seq(S) /\ Len(Run(ss, c, d)) = d - c + 1
           /\ \A k \in 1 .. d - c + 1 : Run(ss, c, d)[k] = ss[c + k - 1]
  BY SubSeqProperties DEF Run

(* A run with one sentence more has the words of that one more.              *)
LEMMA RunGrows ==
    ASSUME NEW p \in P!Pages, NEW ss \in Seq(Pos(p)), NEW c \in Nat, NEW d \in Nat,
           1 <= c, c <= d + 1, d + 1 <= Len(ss)
    PROVE  P!Words(p, Run(ss, c, d + 1)) = P!Words(p, Run(ss, c, d)) + P!Weight(p, ss[d + 1])
  <1> DEFINE n == d - c + 1
  <1>1. n \in Nat /\ n + 1 = (d + 1) - c + 1 /\ c <= (d + 1) + 1 /\ d <= Len(ss) /\ c + (n + 1) - 1 = d + 1
    OBVIOUS
  <1>2. Len(Run(ss, c, d)) = n /\ \A k \in 1 .. n : Run(ss, c, d)[k] = ss[c + k - 1]
    BY <1>1, RunIs
  <1>3. Len(Run(ss, c, d + 1)) = n + 1 /\ \A k \in 1 .. n + 1 : Run(ss, c, d + 1)[k] = ss[c + k - 1]
    <2>1. /\ Len(Run(ss, c, d + 1)) = (d + 1) - c + 1
          /\ \A k \in 1 .. (d + 1) - c + 1 : Run(ss, c, d + 1)[k] = ss[c + k - 1]
      <3>1. \A e \in Nat : c <= e + 1 /\ e <= Len(ss) =>
                 /\ Len(Run(ss, c, e)) = e - c + 1
                 /\ \A k \in 1 .. e - c + 1 : Run(ss, c, e)[k] = ss[c + k - 1]
        BY RunIs
      <3>2. d + 1 \in Nat /\ c <= (d + 1) + 1 /\ d + 1 <= Len(ss)
        OBVIOUS
      <3> QED
        BY <3>1, <3>2
    <2> QED
      BY <1>1, <2>1
  <1> HIDE DEF n
  <1>4. Begins(Run(ss, c, d), Run(ss, c, d + 1), n)
    <2>1. ASSUME NEW k \in 1 .. n
          PROVE  Run(ss, c, d)[k] = Run(ss, c, d + 1)[k]
      <3>1. k \in 1 .. n + 1
        BY <1>1
      <3> QED
        BY <1>2, <1>3, <3>1
    <2> QED
      BY <2>1 DEF Begins
  <1>5. Run(ss, c, d + 1)[n + 1] = ss[d + 1]
    BY <1>1, <1>3
  <1> QED
    BY <1>1, <1>2, <1>3, <1>4, <1>5, WordsGrow

(* A run has no fewer words than one inside it.                              *)
LEMMA RunsInside ==
    ASSUME NEW p \in P!Pages, NEW ss \in Seq(Pos(p)),
           NEW f \in Nat, NEW c \in Nat, NEW d \in Nat, NEW e \in Nat,
           1 <= f, f <= c, c <= d + 1, d <= e, e <= Len(ss)
    PROVE  P!Words(p, Run(ss, c, d)) <= P!Words(p, Run(ss, f, e))
  <1> DEFINE Cnt(a, b) == P!Words(p, Run(ss, a, b))
  <1>1. ASSUME NEW a \in Nat, NEW b \in Nat, 1 <= a, a <= b + 1, b <= Len(ss)
        PROVE  Cnt(a, b) \in Nat
    BY <1>1, RunIs, WordsNat
  <1>2. ASSUME NEW a \in Nat, NEW b \in Nat, 1 <= a, a <= b + 1, b + 1 <= Len(ss)
        PROVE  Cnt(a, b + 1) = Cnt(a, b) + P!Weight(p, ss[b + 1]) /\ P!Weight(p, ss[b + 1]) \in Nat
    BY <1>2, RunGrows, WeightIs
  <1> HIDE DEF Cnt
  <1>3. Cnt(c, d) <= Cnt(f, d)
    <2> DEFINE S == {k \in Nat : c <= k + 1 /\ k <= e => Cnt(c, k) <= Cnt(f, k)}
    <2>1. c - 1 \in Nat /\ c - 1 <= Len(ss) /\ f <= (c - 1) + 1
      OBVIOUS
    <2>2. Cnt(c, c - 1) = 0
      <3>1. Run(ss, c, c - 1) = <<>>
        BY SubSeqEmpty DEF Run
      <3> QED
        BY <3>1, WordsOfNone DEF Cnt
    <2>3. Cnt(c, c - 1) <= Cnt(f, c - 1)
      BY <1>1, <2>1, <2>2
    <2>4. 0 \in S
      BY <2>3
    <2>5. ASSUME NEW k \in Nat, k \in S
          PROVE  k + 1 \in S
      <3> SUFFICES ASSUME c <= k + 2, k + 1 <= e PROVE Cnt(c, k + 1) <= Cnt(f, k + 1)
        OBVIOUS
      <3>1. CASE k + 1 = c - 1
        BY <2>3, <3>1
      <3>2. CASE c <= k + 1
        <4>1. Cnt(c, k) <= Cnt(f, k)
          BY <2>5, <3>2
        <4>2. /\ Cnt(c, k + 1) = Cnt(c, k) + P!Weight(p, ss[k + 1])
              /\ Cnt(f, k + 1) = Cnt(f, k) + P!Weight(p, ss[k + 1])
              /\ P!Weight(p, ss[k + 1]) \in Nat
          BY <1>2, <3>2
        <4>3. Cnt(c, k) \in Nat /\ Cnt(f, k) \in Nat
          BY <1>1, <3>2
        <4> QED
          BY <4>1, <4>2, <4>3
      <3> QED
        BY <3>1, <3>2
    <2>6. d \in S
      BY <2>4, <2>5, Inductive
    <2> QED
      BY <2>6
  <1>4. Cnt(f, d) <= Cnt(f, e)
    <2> DEFINE S == {k \in Nat : d <= k /\ k <= e => Cnt(f, d) <= Cnt(f, k)}
    <2>1. 0 \in S
      BY <1>1
    <2>2. ASSUME NEW k \in Nat, k \in S
          PROVE  k + 1 \in S
      <3> SUFFICES ASSUME d <= k + 1, k + 1 <= e PROVE Cnt(f, d) <= Cnt(f, k + 1)
        OBVIOUS
      <3>1. CASE k + 1 = d
        BY <1>1, <3>1
      <3>2. CASE d <= k
        <4>1. Cnt(f, d) <= Cnt(f, k)
          BY <2>2, <3>2
        <4>0. 1 <= f /\ f <= k + 1 /\ k + 1 <= Len(ss)
          BY <3>2
        <4>2. Cnt(f, k + 1) = Cnt(f, k) + P!Weight(p, ss[k + 1]) /\ P!Weight(p, ss[k + 1]) \in Nat
          BY <1>2, <4>0
        <4>3. Cnt(f, d) \in Nat /\ Cnt(f, k) \in Nat
          BY <1>1, <3>2
        <4> QED
          BY <4>1, <4>2, <4>3
      <3> QED
        BY <3>1, <3>2
    <2>3. e \in S
      BY <2>1, <2>2, Inductive
    <2> QED
      BY <2>3
  <1>5. Cnt(c, d) \in Nat /\ Cnt(f, d) \in Nat /\ Cnt(f, e) \in Nat
    BY <1>1
  <1> QED
    BY <1>3, <1>4, <1>5 DEF Cnt

-----------------------------------------------------------------------------
(* Packing                                                                   *)

(* A chunk carries its last sentences over, and all of them when they are    *)
(* few enough.                                                               *)
LEMMA CarriedIs ==
    ASSUME NEW p \in P!Pages, NEW ss \in Seq(Pos(p))
    PROVE  \E m \in 1 .. Len(ss) + 1 :
              P!Carried(p, ss) = Run(ss, m, Len(ss)) /\ (P!Words(p, ss) <= overlap => m = 1)
  <1> DEFINE fits == {i \in 1 .. Len(ss) + 1 : P!Words(p, SubSeq(ss, i, Len(ss))) <= overlap}
             m == P!Min(fits)
  <1>1. Len(ss) \in Nat
    OBVIOUS
  <1>2. P!Words(p, SubSeq(ss, Len(ss) + 1, Len(ss))) = 0
    <2>1. Len(ss) + 1 \in Int /\ Len(ss) \in Int /\ Len(ss) < Len(ss) + 1
      BY <1>1
    <2>2. SubSeq(ss, Len(ss) + 1, Len(ss)) = <<>>
      BY <2>1, SubSeqEmpty
    <2> QED
      BY <2>2, WordsOfNone
  <1>3. Len(ss) + 1 \in fits
    BY <1>1, <1>2, OverlapAssumption
  <1>4. fits \in SUBSET Nat /\ fits # {}
    BY <1>1, <1>3
  <1>5. m = CHOOSE x \in fits : \A y \in fits : x <= y
    BY DEF P!Min
  <1> HIDE DEF fits, m
  <1>6. \E x \in fits : \A y \in fits : x <= y
    BY <1>4, Least
  <1>7. m \in fits /\ \A y \in fits : m <= y
    BY <1>5, <1>6
  <1>8. m \in 1 .. Len(ss) + 1
    BY <1>7 DEF fits
  <1>9. P!Carried(p, ss) = SubSeq(ss, m, Len(ss))
    BY DEF P!Carried, fits, m
  <1>10. ASSUME P!Words(p, ss) <= overlap
         PROVE  m = 1
    <2>1. SubSeq(ss, 1, Len(ss)) = ss
      BY SubSeqFull
    <2>2. 1 \in fits
      <3>1. P!Words(p, SubSeq(ss, 1, Len(ss))) <= overlap
        BY <1>10, <2>1
      <3> QED
        BY <1>1, <3>1 DEF fits
    <2> QED
      BY <1>1, <1>7, <1>8, <2>2
  <1> QED
    BY <1>8, <1>9, <1>10 DEF Run

Holds(out, s) == \E c \in DOMAIN out : \E k \in DOMAIN out[c] : out[c][k] = s
AllLong(p, out) == \A c \in DOMAIN out : P!LongEnough(p, out[c])

Texts(p) == Seq(Seq(Pos(p)))
Packs(p) == [out : Texts(p), open : Seq(Pos(p))]

(* The open chunk is a run that ends with the n-th sentence, and what comes  *)
(* before it is in a chunk.                                                  *)
PackInv(p, ss, acc, n) ==
    /\ acc \in Packs(p)
    /\ AllLong(p, acc.out)
    /\ \E from \in 1 .. n + 1 :
          acc.open = Run(ss, from, n) /\ \A j \in 1 .. from - 1 : Holds(acc.out, ss[j])

(* A chunk that is kept holds its sentences, and no other is lost by it.     *)
LEMMA KeptIs ==
    ASSUME NEW p, NEW out \in Texts(p), NEW ss \in Seq(Pos(p)), AllLong(p, out)
    PROVE  /\ P!Kept(p, out, ss) \in Texts(p) /\ AllLong(p, P!Kept(p, out, ss))
           /\ \A s : Holds(out, s) => Holds(P!Kept(p, out, ss), s)
           /\ P!LongEnough(p, ss) => \A k \in DOMAIN ss : Holds(P!Kept(p, out, ss), ss[k])
  <1>1. CASE P!LongEnough(p, ss)
    <2> DEFINE new == Append(out, ss)
    <2>1. P!Kept(p, out, ss) = new
      BY <1>1 DEF P!Kept
    <2>2. /\ new \in Texts(p) /\ DOMAIN out = 1 .. Len(out) /\ DOMAIN new = 1 .. Len(out) + 1
          /\ new[Len(out) + 1] = ss /\ \A i \in 1 .. Len(out) : new[i] = out[i]
          /\ Len(out) \in Nat
      BY AppendProperties DEF Texts
    <2> HIDE DEF new
    <2>3. AllLong(p, new)
      BY <1>1, <2>2 DEF AllLong
    <2>4. \A s : Holds(out, s) => Holds(new, s)
      BY <2>2 DEF Holds
    <2>5. \A k \in DOMAIN ss : Holds(new, ss[k])
      BY <2>2 DEF Holds
    <2> QED
      BY <2>1, <2>2, <2>3, <2>4, <2>5
  <1>2. CASE ~P!LongEnough(p, ss)
    BY <1>2 DEF P!Kept
  <1> QED
    BY <1>1, <1>2

(* One sentence more.                                                        *)
LEMMA PackedKeeps ==
    ASSUME NEW p \in P!Pages, NEW ss \in Seq(Pos(p)), NEW n \in Nat, n + 1 <= Len(ss),
           NEW acc, PackInv(p, ss, acc, n)
    PROVE  PackInv(p, ss, P!Packed(p, acc, ss[n + 1]), n + 1)
  <1> DEFINE s == ss[n + 1]
             new == P!Packed(p, acc, s)
  <1>1. PICK from \in 1 .. n + 1 :
           acc.open = Run(ss, from, n) /\ \A j \in 1 .. from - 1 : Holds(acc.out, ss[j])
    BY DEF PackInv
  <1>2. acc.out \in Texts(p) /\ acc.open \in Seq(Pos(p)) /\ AllLong(p, acc.out) /\ s \in Pos(p)
    BY DEF PackInv, Packs
  <1>3. ASSUME NEW f \in 1 .. n + 1
        PROVE  Append(Run(ss, f, n), s) = Run(ss, f, n + 1)
    <2>1. f \in Nat /\ n + 1 \in Nat /\ 1 <= f /\ f <= n + 1 /\ f <= (n + 1) + 1 /\ n <= Len(ss)
      OBVIOUS
    <2>2. Run(ss, f, n) \in Seq(Pos(p)) /\ Len(Run(ss, f, n)) = n - f + 1
          /\ \A k \in 1 .. n - f + 1 : Run(ss, f, n)[k] = ss[f + k - 1]
      BY <2>1, RunIs
    <2>3. /\ Run(ss, f, n + 1) \in Seq(Pos(p)) /\ Len(Run(ss, f, n + 1)) = (n + 1) - f + 1
          /\ \A k \in 1 .. (n + 1) - f + 1 : Run(ss, f, n + 1)[k] = ss[f + k - 1]
      <3>1. \A e \in Nat : f <= e + 1 /\ e <= Len(ss) =>
                 /\ Run(ss, f, e) \in Seq(Pos(p)) /\ Len(Run(ss, f, e)) = e - f + 1
                 /\ \A k \in 1 .. e - f + 1 : Run(ss, f, e)[k] = ss[f + k - 1]
        BY <2>1, RunIs
      <3> QED
        BY <2>1, <3>1
    <2> DEFINE t == Append(Run(ss, f, n), s)
    <2>4. /\ t \in Seq(Pos(p)) /\ Len(t) = n - f + 2 /\ t[n - f + 2] = s
          /\ \A k \in 1 .. n - f + 1 : t[k] = ss[f + k - 1]
      <3> DEFINE u == Run(ss, f, n)
      <3>1. u \in Seq(Pos(p)) /\ s \in Pos(p)
        BY <1>2, <2>2
      <3>2. /\ t \in Seq(Pos(p)) /\ Len(t) = Len(u) + 1 /\ t[Len(u) + 1] = s
            /\ \A k \in 1 .. Len(u) : t[k] = u[k]
        BY <3>1, AppendProperties
      <3> HIDE DEF u, s, t
      <3>3. Len(u) = n - f + 1 /\ (n - f + 1) + 1 = n - f + 2
        BY <2>1, <2>2 DEF u
      <3>4. \A k \in 1 .. n - f + 1 : u[k] = ss[f + k - 1]
        BY <2>2 DEF u
      <3> QED
        BY <3>2, <3>3, <3>4
    <2> HIDE DEF t
    <2>5. ASSUME NEW k \in 1 .. n - f + 2
          PROVE  t[k] = Run(ss, f, n + 1)[k]
      <3>1. Run(ss, f, n + 1)[k] = ss[f + k - 1]
        BY <2>3
      <3>2. CASE k \in 1 .. n - f + 1
        BY <2>4, <3>1, <3>2
      <3>3. CASE k = n - f + 2
        <4>1. f + k - 1 = n + 1
          BY <3>3
        <4> QED
          BY <2>4, <3>1, <3>3, <4>1
      <3> QED
        BY <3>2, <3>3
    <2>6. Len(t) = Len(Run(ss, f, n + 1)) /\ \A k \in 1 .. Len(t) : t[k] = Run(ss, f, n + 1)[k]
      BY <2>3, <2>4, <2>5
    <2>7. t = Run(ss, f, n + 1)
      BY <2>3, <2>4, <2>6, SeqEqual
    <2> QED
      BY <2>7 DEF t
  <1>4. CASE ~(acc.open # <<>> /\ P!Words(p, acc.open) + P!Words(p, <<s>>) > size)
    <2>1. new = [out |-> acc.out, open |-> Append(acc.open, s)]
      BY <1>4 DEF P!Packed
    <2>2. new.out = acc.out /\ new.open = Run(ss, from, n + 1) /\ new \in Packs(p)
      BY <1>1, <1>2, <1>3, <2>1, AppendProperties DEF Packs
    <2>3. from \in 1 .. (n + 1) + 1
      OBVIOUS
    <2> HIDE DEF new
    <2>4. PackInv(p, ss, new, n + 1)
      BY <1>1, <1>2, <2>2, <2>3 DEF PackInv
    <2> QED
      BY <2>4 DEF new
  <1>5. CASE acc.open # <<>> /\ P!Words(p, acc.open) + P!Words(p, <<s>>) > size
    <2>1. new = [out |-> P!Kept(p, acc.out, acc.open), open |-> Append(P!Carried(p, acc.open), s)]
      BY <1>5 DEF P!Packed
    <2>2. PICK m \in 1 .. Len(acc.open) + 1 :
             /\ P!Carried(p, acc.open) = Run(acc.open, m, Len(acc.open))
             /\ P!Words(p, acc.open) <= overlap => m = 1
      BY <1>2, CarriedIs
    <2>3. /\ Len(acc.open) = n - from + 1
          /\ \A k \in 1 .. n - from + 1 : acc.open[k] = ss[from + k - 1]
      <3>1. from \in Nat /\ 1 <= from /\ from <= n + 1 /\ n <= Len(ss)
        OBVIOUS
      <3> QED
        BY <1>1, <3>1, RunIs
    <2> DEFINE f == from + m - 1
    <2>4. f \in 1 .. n + 1 /\ f \in 1 .. (n + 1) + 1 /\ from \in Nat /\ m \in Nat
      BY <2>3
    <2>5. P!Carried(p, acc.open) = Run(ss, f, n)
      <3> DEFINE a == Run(acc.open, m, Len(acc.open))
                 b == Run(ss, f, n)
      <3>1. /\ a \in Seq(Pos(p)) /\ Len(a) = Len(acc.open) - m + 1
            /\ \A k \in 1 .. Len(acc.open) - m + 1 : a[k] = acc.open[m + k - 1]
        <4> DEFINE o == acc.open
                   z == Len(o)
        <4>1. /\ o \in Seq(Pos(p)) /\ m \in Nat /\ z \in Nat
              /\ 1 <= m /\ m <= z + 1 /\ z <= Len(o)
          BY <1>2
        <4> HIDE DEF o, z
        <4>2. /\ Run(o, m, z) \in Seq(Pos(p)) /\ Len(Run(o, m, z)) = z - m + 1
              /\ \A k \in 1 .. z - m + 1 : Run(o, m, z)[k] = o[m + k - 1]
          BY <4>1, RunIs
        <4> QED
          BY <4>2 DEF o, z
      <3>2. b \in Seq(Pos(p)) /\ Len(b) = n - f + 1 /\ \A k \in 1 .. n - f + 1 : b[k] = ss[f + k - 1]
        <4>1. f \in Nat /\ 1 <= f /\ f <= n + 1 /\ n <= Len(ss)
          BY <2>4
        <4> HIDE DEF f
        <4> QED
          BY <4>1, RunIs
      <3> HIDE DEF a, b
      <3>3. Len(a) = n - f + 1
        BY <2>3, <2>4, <3>1
      <3>4. ASSUME NEW k \in 1 .. n - f + 1
            PROVE  a[k] = b[k]
        <4>1. k \in 1 .. Len(acc.open) - m + 1 /\ m + k - 1 \in 1 .. n - from + 1
          BY <2>3, <2>4
        <4>2. from + (m + k - 1) - 1 = f + k - 1
          BY <2>4
        <4>3. a[k] = ss[from + (m + k - 1) - 1]
          BY <2>3, <3>1, <4>1
        <4> QED
          BY <3>2, <4>2, <4>3
      <3>5. a = b
        BY <3>1, <3>2, <3>3, <3>4, SeqEqual
      <3> QED
        BY <2>2, <3>5 DEF a, b
    <2>6. /\ new.out = P!Kept(p, acc.out, acc.open) /\ new.open = Append(Run(ss, f, n), s)
          /\ Run(ss, f, n) \in Seq(Pos(p))
      <3>1. f \in Nat /\ 1 <= f /\ f <= n + 1 /\ n <= Len(ss)
        BY <2>4
      <3> HIDE DEF f
      <3>2. Run(ss, f, n) \in Seq(Pos(p))
        BY <3>1, RunIs
      <3> QED
        BY <2>1, <2>5, <3>2
    <2>7. new.open = Run(ss, f, n + 1) /\ new.open \in Seq(Pos(p))
      <3>1. Append(Run(ss, f, n), s) = Run(ss, f, n + 1)
        BY <1>3, <2>4
      <3> HIDE DEF f, s, new
      <3>2. Append(Run(ss, f, n), s) \in Seq(Pos(p))
        BY <1>2, <2>6, AppendProperties
      <3> QED
        BY <2>6, <3>1, <3>2
    <2>8. /\ new.out \in Texts(p) /\ AllLong(p, new.out)
          /\ \A x : Holds(acc.out, x) => Holds(new.out, x)
          /\ P!LongEnough(p, acc.open) => \A k \in DOMAIN acc.open : Holds(new.out, acc.open[k])
      BY <1>2, <2>6, KeptIs
    <2>9. new \in Packs(p)
      BY <2>1, <2>7, <2>8 DEF Packs
    <2> HIDE DEF new
    <2>10. ASSUME NEW j \in 1 .. f - 1
           PROVE  Holds(new.out, ss[j])
      <3>1. CASE j \in 1 .. from - 1
        BY <1>1, <2>8, <3>1
      <3>2. CASE j \notin 1 .. from - 1
        <4>1. m # 1 /\ j - from + 1 \in 1 .. n - from + 1 /\ from + (j - from + 1) - 1 = j
          BY <2>3, <2>4, <3>2
        <4>2. ~(P!Words(p, acc.open) <= overlap) /\ P!Words(p, acc.open) \in Nat
          BY <1>2, <2>2, <4>1, WordsNat
        <4>3. P!LongEnough(p, acc.open)
          BY <4>2, OverlapAssumption DEF P!LongEnough
        <4>4. j - from + 1 \in DOMAIN acc.open /\ acc.open[j - from + 1] = ss[j]
          BY <1>2, <2>3, <4>1
        <4> QED
          BY <2>8, <4>3, <4>4
      <3> QED
        BY <3>1, <3>2
    <2>11. PackInv(p, ss, new, n + 1)
      BY <2>4, <2>7, <2>8, <2>9, <2>10 DEF PackInv
    <2> QED
      BY <2>11 DEF new
  <1> QED
    BY <1>4, <1>5

(* pack is what the loop over the sentences holds after the first n.         *)
PacksTo(p, ss, pack, n) ==
    pack = [m \in 0 .. n |-> IF m = 0 THEN [out |-> <<>>, open |-> <<>>]
                             ELSE P!Packed(p, pack[m - 1], ss[m])]

(* It can be computed for every n.                                           *)
LEMMA PacksExist == ASSUME NEW p, NEW ss, NEW n \in Nat PROVE \E pack : PacksTo(p, ss, pack, n)
  <1> DEFINE S == {m \in Nat : \E pack : PacksTo(p, ss, pack, m)}
             none == [out |-> <<>>, open |-> <<>>]
  <1>1. 0 \in S
    <2>1. PacksTo(p, ss, [m \in 0 .. 0 |-> none], 0)
      BY DEF PacksTo
    <2> QED
      BY <2>1
  <1>2. ASSUME NEW m \in Nat, m \in S
        PROVE  m + 1 \in S
    <2>1. PICK w : PacksTo(p, ss, w, m)
      BY <1>2
    <2> DEFINE v == [k \in 0 .. m + 1 |-> IF k = m + 1 THEN P!Packed(p, w[m], ss[k]) ELSE w[k]]
    <2>2. ASSUME NEW k \in 0 .. m + 1
          PROVE  v[k] = IF k = 0 THEN none ELSE P!Packed(p, v[k - 1], ss[k])
      <3>1. CASE k = m + 1
        BY <3>1
      <3>2. CASE k \in 0 .. m
        <4>1. w[k] = IF k = 0 THEN none ELSE P!Packed(p, w[k - 1], ss[k])
          BY <2>1, <3>2 DEF PacksTo
        <4> QED
          BY <3>2, <4>1
      <3> QED
        BY <3>1, <3>2
    <2>3. PacksTo(p, ss, v, m + 1)
      BY <2>2 DEF PacksTo
    <2> QED
      BY <2>3
  <1>3. n \in S
    BY <1>1, <1>2, Inductive
  <1> QED
    BY <1>3

(* When the loop is over, what is in no chunk is in the open one.            *)
LEMMA PackingIs ==
    ASSUME NEW p \in P!Pages, NEW ss \in Seq(Pos(p))
    PROVE  PackInv(p, ss, P!Packing(p, ss), Len(ss))
  <1> DEFINE n == Len(ss)
             pack == CHOOSE x : PacksTo(p, ss, x, n)
  <1>1. n \in Nat
    OBVIOUS
  <1>2. PacksTo(p, ss, pack, n)
    BY <1>1, PacksExist, Zenon
  <1>3. P!Packing(p, ss) = pack[n]
    BY Zenon DEF P!Packing, PacksTo
  <1> HIDE DEF pack, n
  <1> DEFINE S == {m \in Nat : m <= n => PackInv(p, ss, pack[m], m)}
  <1>4. 0 \in S
    <2> DEFINE none == [out |-> <<>>, open |-> <<>>]
    <2>1. pack[0] = none
      BY <1>1, <1>2 DEF PacksTo
    <2>2. none.out = <<>> /\ none.open = <<>> /\ DOMAIN none.out = {}
      OBVIOUS
    <2>3. none \in Packs(p) /\ AllLong(p, none.out)
      BY <2>2, EmptySeq DEF Packs, Texts, AllLong
    <2>4. Run(ss, 1, 0) = <<>>
      BY SubSeqEmpty DEF Run
    <2>5. PackInv(p, ss, none, 0)
      BY <2>2, <2>3, <2>4 DEF PackInv
    <2> QED
      BY <2>1, <2>5
  <1>5. ASSUME NEW m \in Nat, m \in S
        PROVE  m + 1 \in S
    <2> SUFFICES ASSUME m + 1 <= n PROVE PackInv(p, ss, pack[m + 1], m + 1)
      OBVIOUS
    <2>1. m + 1 \in 0 .. n /\ (m + 1) - 1 = m /\ m + 1 # 0 /\ m <= n
      BY <1>1
    <2>2. pack[m + 1] = P!Packed(p, pack[m], ss[m + 1])
      BY <1>2, <2>1 DEF PacksTo
    <2>3. PackInv(p, ss, pack[m], m) /\ m + 1 <= Len(ss)
      BY <1>5, <2>1 DEF n
    <2> QED
      BY <2>2, <2>3, PackedKeeps
  <1>6. n \in S
    BY <1>1, <1>4, <1>5, Inductive
  <1> QED
    BY <1>1, <1>3, <1>6 DEF n

(* What _fixed_chunk loses is the end of the text, and short.                *)
Rest(p, ss, out) ==
    \E from \in 1 .. Len(ss) + 1 :
        /\ \A j \in 1 .. from - 1 : Holds(out, ss[j])
        /\ from <= Len(ss) => P!Words(p, Run(ss, from, Len(ss))) < MIN_CHUNK_WORDS

(* Its chunks are long enough and the rest is short.                         *)
LEMMA FixedChunkIs ==
    ASSUME NEW p \in P!Pages, NEW ss \in Seq(Pos(p))
    PROVE  /\ P!FixedChunk(p, ss) \in Texts(p) /\ AllLong(p, P!FixedChunk(p, ss))
           /\ Rest(p, ss, P!FixedChunk(p, ss))
  <1> DEFINE n == Len(ss)
             end == P!Packing(p, ss)
  <1>1. n \in Nat /\ DOMAIN ss = 1 .. n
    OBVIOUS
  <1>2. CASE P!Words(p, ss) <= size
    <2> DEFINE out == P!Kept(p, <<>>, ss)
    <2>1. P!FixedChunk(p, ss) = out
      BY <1>2 DEF P!FixedChunk
    <2>2. <<>> \in Texts(p) /\ AllLong(p, <<>>)
      BY EmptySeq DEF Texts, AllLong
    <2>3. /\ out \in Texts(p) /\ AllLong(p, out)
          /\ P!LongEnough(p, ss) => \A k \in DOMAIN ss : Holds(out, ss[k])
      BY <2>2, KeptIs
    <2> HIDE DEF out
    <2>4. Rest(p, ss, out)
      <3>1. CASE P!LongEnough(p, ss)
        <4>1. n + 1 \in 1 .. n + 1 /\ ~(n + 1 <= n) /\ \A j \in 1 .. (n + 1) - 1 : Holds(out, ss[j])
          BY <1>1, <2>3, <3>1
        <4> QED
          BY <4>1 DEF Rest
      <3>2. CASE ~P!LongEnough(p, ss)
        <4>1. Run(ss, 1, n) = ss
          BY SubSeqFull DEF Run
        <4>2. P!Words(p, Run(ss, 1, n)) < MIN_CHUNK_WORDS
          BY <3>2, <4>1, WordsNat, OverlapAssumption DEF P!LongEnough
        <4>3. 1 \in 1 .. n + 1 /\ \A j \in 1 .. 1 - 1 : Holds(out, ss[j])
          BY <1>1
        <4> QED
          BY <4>2, <4>3 DEF Rest
      <3> QED
        BY <3>1, <3>2
    <2> QED
      BY <2>1, <2>3, <2>4
  <1>3. CASE ~(P!Words(p, ss) <= size)
    <2> DEFINE out == P!Kept(p, end.out, end.open)
    <2>1. P!FixedChunk(p, ss) = out
      BY <1>3 DEF P!FixedChunk
    <2>2. PICK from \in 1 .. n + 1 :
             end.open = Run(ss, from, n) /\ \A j \in 1 .. from - 1 : Holds(end.out, ss[j])
      BY PackingIs DEF PackInv
    <2>3. end.out \in Texts(p) /\ end.open \in Seq(Pos(p)) /\ AllLong(p, end.out)
      BY PackingIs DEF PackInv, Packs
    <2>4. /\ out \in Texts(p) /\ AllLong(p, out)
          /\ \A s : Holds(end.out, s) => Holds(out, s)
          /\ P!LongEnough(p, end.open) => \A k \in DOMAIN end.open : Holds(out, end.open[k])
      BY <2>3, KeptIs
    <2> HIDE DEF out, end
    <2>5. Rest(p, ss, out)
      <3>1. CASE P!LongEnough(p, end.open)
        <4>1. from \in Nat /\ 1 <= from /\ from <= n + 1 /\ n \in Nat /\ n <= Len(ss)
          BY <1>1
        <4>2. Len(end.open) = n - from + 1 /\ \A k \in 1 .. n - from + 1 : end.open[k] = ss[from + k - 1]
          <5> HIDE DEF n
          <5>1. Len(Run(ss, from, n)) = n - from + 1
                /\ \A k \in 1 .. n - from + 1 : Run(ss, from, n)[k] = ss[from + k - 1]
            BY <4>1, RunIs
          <5> QED
            BY <2>2, <5>1
        <4>3. ASSUME NEW j \in 1 .. n
              PROVE  Holds(out, ss[j])
          <5>1. CASE j \in 1 .. from - 1
            BY <2>2, <2>4, <5>1
          <5>2. CASE j \notin 1 .. from - 1
            <6>1. j - from + 1 \in 1 .. n - from + 1 /\ from + (j - from + 1) - 1 = j
              BY <4>1, <5>2
            <6>2. j - from + 1 \in DOMAIN end.open /\ end.open[j - from + 1] = ss[j]
              BY <2>3, <4>2, <6>1
            <6> QED
              BY <2>4, <3>1, <6>2
          <5> QED
            BY <5>1, <5>2
        <4>4. n + 1 \in 1 .. n + 1 /\ ~(n + 1 <= n) /\ \A j \in 1 .. (n + 1) - 1 : Holds(out, ss[j])
          BY <1>1, <4>3
        <4> QED
          BY <4>4 DEF Rest
      <3>2. CASE ~P!LongEnough(p, end.open)
        <4>1. P!Words(p, Run(ss, from, n)) < MIN_CHUNK_WORDS
          BY <2>2, <2>3, <3>2, WordsNat, OverlapAssumption DEF P!LongEnough
        <4> QED
          BY <2>2, <2>4, <4>1 DEF Rest
      <3> QED
        BY <3>1, <3>2
    <2> QED
      BY <2>1, <2>4, <2>5
  <1> QED
    BY <1>2, <1>3

(* So a run of it of which nothing is in a chunk is short.                   *)
LEMMA LostRunIsShort ==
    ASSUME NEW p \in P!Pages, NEW ss \in Seq(Pos(p)),
           NEW c \in 1 .. Len(ss), NEW d \in c .. Len(ss),
           \A j \in c .. d : ~Holds(P!FixedChunk(p, ss), ss[j])
    PROVE  P!Words(p, Run(ss, c, d)) < MIN_CHUNK_WORDS
  <1> DEFINE n == Len(ss)
  <1>1. PICK from \in 1 .. n + 1 :
           /\ \A j \in 1 .. from - 1 : Holds(P!FixedChunk(p, ss), ss[j])
           /\ from <= n => P!Words(p, Run(ss, from, n)) < MIN_CHUNK_WORDS
    BY FixedChunkIs DEF Rest
  <1>2. n \in Nat /\ c \in c .. d
    OBVIOUS
  <1>3. from <= c
    BY <1>1, <1>2
  <1>4. /\ from \in Nat /\ c \in Nat /\ d \in Nat /\ n \in Nat
        /\ 1 <= from /\ 1 <= c /\ c <= d + 1 /\ d <= n /\ n <= Len(ss) /\ from <= n /\ from <= n + 1
    BY <1>2, <1>3
  <1> HIDE DEF n
  <1>5. P!Words(p, Run(ss, c, d)) <= P!Words(p, Run(ss, from, n))
    BY <1>3, <1>4, RunsInside
  <1>6. P!Words(p, Run(ss, c, d)) \in Nat /\ P!Words(p, Run(ss, from, n)) \in Nat
    <2>1. Run(ss, c, d) \in Seq(Pos(p))
      BY <1>4, RunIs
    <2>2. Run(ss, from, n) \in Seq(Pos(p))
      BY <1>4, RunIs
    <2> QED
      BY <2>1, <2>2, WordsNat
  <1> QED
    BY <1>1, <1>4, <1>5, <1>6, OverlapAssumption

-----------------------------------------------------------------------------
(* Sections                                                                  *)

Piece(p)  == [heading : Seq(Pos(p)), text : Seq(Pos(p))]
Pieces(p) == Seq(Piece(p))

LongTexts(p, out) == \A x \in DOMAIN out : P!LongEnough(p, out[x].text)
Shows(out, fixed) == \A c \in DOMAIN fixed : \E x \in DOMAIN out : out[x].text = fixed[c]
Shown(out, s)     == \E x \in DOMAIN out : \E k \in DOMAIN out[x].text : out[x].text[k] = s

(* Under a heading the texts stay what they are.                             *)
LEMMA TitledIs ==
    ASSUME NEW p, NEW h \in Seq(Pos(p)), NEW fixed \in Texts(p), AllLong(p, fixed)
    PROVE  /\ P!Titled(h, fixed) \in Pieces(p) /\ LongTexts(p, P!Titled(h, fixed))
           /\ Shows(P!Titled(h, fixed), fixed)
  <1> DEFINE n == Len(fixed)
             out == P!Titled(h, fixed)
  <1>1. n \in Nat /\ DOMAIN fixed = 1 .. n /\ \A c \in 1 .. n : fixed[c] \in Seq(Pos(p))
    BY DEF Texts
  <1>2. out = [c \in 1 .. n |-> [heading |-> h, text |-> fixed[c]]]
    BY <1>1 DEF P!Titled, P!Under
  <1> HIDE DEF n, out
  <1>3. \A c \in 1 .. n : [heading |-> h, text |-> fixed[c]] \in Piece(p)
    BY <1>1 DEF Piece
  <1>4. out \in [1 .. n -> Piece(p)]
    BY <1>2, <1>3
  <1>5. out \in Pieces(p)
    BY <1>1, <1>4 DEF Pieces
  <1>6. DOMAIN out = 1 .. n /\ \A c \in 1 .. n : out[c].text = fixed[c]
    BY <1>2
  <1>7. LongTexts(p, out) /\ Shows(out, fixed)
    BY <1>1, <1>6 DEF LongTexts, Shows, AllLong
  <1> QED
    BY <1>5, <1>7 DEF out

(* Pieces that are added show what they show, and lose nothing.              *)
LEMMA AddedShow ==
    ASSUME NEW p, NEW out \in Pieces(p), NEW add \in Pieces(p), LongTexts(p, out), LongTexts(p, add)
    PROVE  /\ out \o add \in Pieces(p) /\ LongTexts(p, out \o add)
           /\ \A fixed : Shows(out, fixed) \/ Shows(add, fixed) => Shows(out \o add, fixed)
  <1> DEFINE m == Len(out)
             n == Len(add)
             all == out \o add
  <1>1. /\ all \in Pieces(p) /\ Len(all) = m + n
        /\ \A i \in 1 .. m + n : all[i] = IF i <= m THEN out[i] ELSE add[i - m]
    BY ConcatProperties DEF Pieces
  <1>2. /\ m \in Nat /\ n \in Nat /\ DOMAIN out = 1 .. m /\ DOMAIN add = 1 .. n
        /\ DOMAIN all = 1 .. m + n
    BY <1>1 DEF Pieces
  <1> HIDE DEF m, n, all
  <1>3. ASSUME NEW i \in 1 .. m
        PROVE  i \in 1 .. m + n /\ all[i] = out[i]
    BY <1>1, <1>2
  <1>4. ASSUME NEW i \in 1 .. n
        PROVE  m + i \in 1 .. m + n /\ all[m + i] = add[i]
    <2>1. m + i \in 1 .. m + n /\ ~(m + i <= m) /\ (m + i) - m = i
      BY <1>2
    <2> QED
      BY <1>1, <2>1
  <1>5. ASSUME NEW x \in 1 .. m + n
        PROVE  P!LongEnough(p, all[x].text)
    <2>1. CASE x \in 1 .. m
      BY <1>2, <1>3, <2>1 DEF LongTexts
    <2>2. CASE x - m \in 1 .. n
      <3>1. m + (x - m) = x
        BY <1>2
      <3> QED
        BY <1>2, <1>4, <2>2, <3>1 DEF LongTexts
    <2> QED
      BY <1>2, <2>1, <2>2
  <1>6. \A fixed : Shows(out, fixed) => Shows(all, fixed)
    BY <1>2, <1>3 DEF Shows
  <1>7. \A fixed : Shows(add, fixed) => Shows(all, fixed)
    BY <1>2, <1>4 DEF Shows
  <1>8. LongTexts(p, all)
    BY <1>2, <1>5 DEF LongTexts
  <1> QED
    BY <1>1, <1>6, <1>7, <1>8 DEF all

Headed(p) == [heading : Seq(Pos(p)), out : Pieces(p)]

(* After n sections those among them that are no headings are shown.         *)
SectionInv(p, acc, n) ==
    /\ acc \in Headed(p)
    /\ LongTexts(p, acc.out)
    /\ \A i \in 1 .. n : ~p[i].heading => Shows(acc.out, P!FixedChunk(p, P!Sentences(p, i)))

(* One section more.                                                         *)
LEMMA SectionKeeps ==
    ASSUME NEW p \in P!Pages, NEW n \in Nat, n + 1 <= Len(p), NEW acc, SectionInv(p, acc, n)
    PROVE  SectionInv(p, P!HeadingSection(p, acc, n + 1), n + 1)
  <1> DEFINE i == n + 1
             ss == P!Sentences(p, i)
             new == P!HeadingSection(p, acc, i)
  <1>1. i \in 1 .. Len(p) /\ \A j \in 1 .. i : j \in 1 .. n \/ j = i
    BY PageIs
  <1>2. ss \in Seq(Pos(p)) /\ ss # <<>>
    BY <1>1, SentencesAre
  <1>3. acc.heading \in Seq(Pos(p)) /\ acc.out \in Pieces(p) /\ LongTexts(p, acc.out)
    BY DEF SectionInv, Headed
  <1> HIDE DEF ss
  <1>4. CASE p[i].heading
    <2> DEFINE line == <<ss[1]>>
               body == Tail(ss)
    <2>1. line \in Seq(Pos(p)) /\ body \in Seq(Pos(p))
      <3>1. ss[1] \in Pos(p)
        BY <1>2
      <3> QED
        BY <1>2, <3>1, HeadTailProperties
    <2>2. new = [heading |-> line,
                 out |-> IF P!LongEnough(p, body) THEN Append(acc.out, P!Under(line, body)) ELSE acc.out]
      BY <1>4 DEF P!HeadingSection, ss
    <2> HIDE DEF line, body, new
    <2>3. CASE P!LongEnough(p, body)
      <3> DEFINE u == P!Under(line, body)
                 out == Append(acc.out, u)
      <3>1. u \in Piece(p) /\ u.text = body
        BY <2>1 DEF P!Under, Piece
      <3> HIDE DEF u
      <3>2. /\ out \in Pieces(p) /\ DOMAIN out = 1 .. Len(acc.out) + 1 /\ Len(acc.out) \in Nat
            /\ DOMAIN acc.out = 1 .. Len(acc.out)
            /\ out[Len(acc.out) + 1] = u /\ \A x \in 1 .. Len(acc.out) : out[x] = acc.out[x]
        BY <1>3, <3>1, AppendProperties DEF Pieces
      <3> HIDE DEF out
      <3>3. new.out = out /\ new \in Headed(p)
        <4>1. new = [heading |-> line, out |-> out]
          BY <2>2, <2>3 DEF out, u
        <4> QED
          BY <2>1, <3>2, <4>1 DEF Headed
      <3>4. LongTexts(p, out)
        BY <1>3, <2>3, <3>1, <3>2 DEF LongTexts
      <3>5. \A fixed : Shows(acc.out, fixed) => Shows(out, fixed)
        BY <3>2 DEF Shows
      <3>6. SectionInv(p, new, i)
        BY <1>1, <1>4, <3>3, <3>4, <3>5 DEF SectionInv
      <3> QED
        BY <3>6 DEF new
    <2>4. CASE ~P!LongEnough(p, body)
      <3>1. new.out = acc.out /\ new \in Headed(p)
        BY <1>3, <2>1, <2>2, <2>4 DEF Headed
      <3>2. SectionInv(p, new, i)
        BY <1>1, <1>4, <3>1 DEF SectionInv
      <3> QED
        BY <3>2 DEF new
    <2> QED
      BY <2>3, <2>4
  <1>5. CASE ~p[i].heading
    <2> DEFINE fixed == P!FixedChunk(p, ss)
               add == P!Titled(acc.heading, fixed)
    <2>1. fixed \in Texts(p) /\ AllLong(p, fixed)
      BY <1>2, FixedChunkIs
    <2> HIDE DEF fixed
    <2>2. add \in Pieces(p) /\ LongTexts(p, add) /\ Shows(add, fixed)
      BY <1>3, <2>1, TitledIs
    <2>3. new = [heading |-> acc.heading, out |-> acc.out \o add]
      BY <1>5 DEF P!HeadingSection, ss, fixed
    <2> HIDE DEF add, new
    <2>4. /\ acc.out \o add \in Pieces(p) /\ LongTexts(p, acc.out \o add)
          /\ \A f : Shows(acc.out, f) \/ Shows(add, f) => Shows(acc.out \o add, f)
      BY <1>3, <2>2, AddedShow
    <2>5. new.out = acc.out \o add /\ new \in Headed(p)
      <3> DEFINE out == acc.out \o add
      <3> HIDE DEF out
      <3>1. new = [heading |-> acc.heading, out |-> out] /\ out \in Pieces(p)
        BY <2>3, <2>4 DEF out
      <3>2. new.out = out /\ new \in Headed(p)
        BY <1>3, <3>1 DEF Headed
      <3> QED
        BY <3>2 DEF out
    <2>6. ASSUME NEW j \in 1 .. i, ~p[j].heading
          PROVE  Shows(new.out, P!FixedChunk(p, P!Sentences(p, j)))
      BY <1>1, <2>2, <2>4, <2>5, <2>6 DEF SectionInv, fixed, ss
    <2>7. SectionInv(p, new, i)
      BY <2>4, <2>5, <2>6 DEF SectionInv
    <2> QED
      BY <2>7 DEF new
  <1> QED
    BY <1>4, <1>5

(* f is what the loop over the sections holds after the first n.             *)
SectionsTo(p, f, n) ==
    f = [m \in 0 .. n |-> IF m = 0 THEN [heading |-> <<>>, out |-> <<>>] ELSE P!HeadingSection(p, f[m - 1], m)]

(* It can be computed for every n.                                           *)
LEMMA SectionsExist == ASSUME NEW p, NEW n \in Nat PROVE \E f : SectionsTo(p, f, n)
  <1> DEFINE S == {m \in Nat : \E f : SectionsTo(p, f, m)}
             none == [heading |-> <<>>, out |-> <<>>]
  <1>1. 0 \in S
    <2> DEFINE v == [m \in 0 .. 0 |-> none]
    <2>1. SectionsTo(p, v, 0)
      BY DEF SectionsTo
    <2> QED
      BY <2>1
  <1>2. ASSUME NEW m \in Nat, m \in S
        PROVE  m + 1 \in S
    <2>1. PICK w : SectionsTo(p, w, m)
      BY <1>2
    <2> DEFINE v == [k \in 0 .. m + 1 |-> IF k = m + 1 THEN P!HeadingSection(p, w[m], k) ELSE w[k]]
    <2>2. ASSUME NEW k \in 0 .. m + 1
          PROVE  v[k] = IF k = 0 THEN none ELSE P!HeadingSection(p, v[k - 1], k)
      <3>1. CASE k = m + 1
        BY <3>1
      <3>2. CASE k \in 0 .. m
        <4>1. w[k] = IF k = 0 THEN none ELSE P!HeadingSection(p, w[k - 1], k)
          BY <2>1, <3>2 DEF SectionsTo
        <4> QED
          BY <3>2, <4>1
      <3> QED
        BY <3>1, <3>2
    <2>3. SectionsTo(p, v, m + 1)
      BY <2>2 DEF SectionsTo
    <2> QED
      BY <2>3
  <1>3. n \in S
    BY <1>1, <1>2, Inductive
  <1> QED
    BY <1>3

(* After the last section each that is no heading is shown.                  *)
LEMMA SectionsAre ==
    ASSUME NEW p \in P!Pages
    PROVE  /\ P!Sections(p) \in Pieces(p) /\ LongTexts(p, P!Sections(p))
           /\ \A i \in 1 .. Len(p) :
                 ~p[i].heading => Shows(P!Sections(p), P!FixedChunk(p, P!Sentences(p, i)))
  <1> DEFINE n == Len(p)
             f == CHOOSE x : SectionsTo(p, x, n)
  <1>1. n \in Nat
    BY PageIs
  <1>2. SectionsTo(p, f, n)
    BY <1>1, SectionsExist, Zenon
  <1>3. P!Sections(p) = f[n].out
    BY Zenon DEF P!Sections, SectionsTo
  <1> HIDE DEF f, n
  <1> DEFINE S == {m \in Nat : m <= n => SectionInv(p, f[m], m)}
  <1>4. 0 \in S
    <2> DEFINE none == [heading |-> <<>>, out |-> <<>>]
    <2>1. f[0] = none
      BY <1>1, <1>2 DEF SectionsTo
    <2>2. none.out = <<>> /\ none.heading = <<>> /\ DOMAIN none.out = {}
      OBVIOUS
    <2>3. none \in Headed(p) /\ LongTexts(p, none.out)
      BY <2>2, EmptySeq DEF Headed, Pieces, LongTexts
    <2>4. SectionInv(p, none, 0)
      BY <2>3 DEF SectionInv
    <2> QED
      BY <2>1, <2>4
  <1>5. ASSUME NEW m \in Nat, m \in S
        PROVE  m + 1 \in S
    <2> SUFFICES ASSUME m + 1 <= n PROVE SectionInv(p, f[m + 1], m + 1)
      OBVIOUS
    <2>1. m + 1 \in 0 .. n /\ (m + 1) - 1 = m /\ m + 1 # 0 /\ m <= n
      BY <1>1
    <2>2. f[m + 1] = P!HeadingSection(p, f[m], m + 1)
      BY <1>2, <2>1 DEF SectionsTo
    <2>3. SectionInv(p, f[m], m) /\ m + 1 <= Len(p)
      BY <1>5, <2>1 DEF n
    <2> QED
      BY <2>2, <2>3, SectionKeeps
  <1>6. n \in S
    BY <1>1, <1>4, <1>5, Inductive
  <1> QED
    BY <1>1, <1>3, <1>6 DEF n, SectionInv, Headed

(* f[m] is the text of the first m sections.                                 *)
AllTo(p, f, n) ==
    f = [m \in 0 .. n |-> IF m = 0 THEN <<>> ELSE f[m - 1] \o P!Sentences(p, m)]

(* It can be computed for every n.                                           *)
LEMMA AllExists == ASSUME NEW p, NEW n \in Nat PROVE \E f : AllTo(p, f, n)
  <1> DEFINE S == {m \in Nat : \E f : AllTo(p, f, m)}
             none == <<>>
  <1>1. 0 \in S
    <2> DEFINE v == [m \in 0 .. 0 |-> none]
    <2>1. AllTo(p, v, 0)
      BY DEF AllTo
    <2> QED
      BY <2>1
  <1>2. ASSUME NEW m \in Nat, m \in S
        PROVE  m + 1 \in S
    <2>1. PICK w : AllTo(p, w, m)
      BY <1>2
    <2> DEFINE more == w[m] \o P!Sentences(p, m + 1)
               v == [k \in 0 .. m + 1 |-> IF k = m + 1 THEN more ELSE w[k]]
    <2>2. ASSUME NEW k \in 0 .. m + 1
          PROVE  v[k] = IF k = 0 THEN none ELSE v[k - 1] \o P!Sentences(p, k)
      <3>1. CASE k = m + 1
        <4>1. v[m] = w[m] /\ m + 1 # 0 /\ (m + 1) - 1 = m
          OBVIOUS
        <4>2. v[m + 1] = more
          <5> HIDE DEF more
          <5> QED
            OBVIOUS
        <4> HIDE DEF v
        <4>3. v[m + 1] = v[m] \o P!Sentences(p, m + 1)
          BY <4>1, <4>2, Zenon
        <4> QED
          BY <3>1, <4>1, <4>3, Zenon
      <3>2. CASE k \in 0 .. m
        <4>1. w[k] = IF k = 0 THEN none ELSE w[k - 1] \o P!Sentences(p, k)
          BY <2>1, <3>2 DEF AllTo
        <4> QED
          BY <3>2, <4>1
      <3> QED
        BY <3>1, <3>2
    <2>3. AllTo(p, v, m + 1)
      BY <2>2 DEF AllTo
    <2> QED
      BY <2>3
  <1>3. n \in S
    BY <1>1, <1>2, Inductive
  <1> QED
    BY <1>3

(* The sentences of section i, one after the other, are part of the text.    *)
Within(p, text, i) ==
    \E off \in Nat :
        /\ off + Len(p[i].lengths) <= Len(text)
        /\ \A j \in 1 .. Len(p[i].lengths) : text[off + j] = <<i, j>>

(* They are part of every longer text.                                       *)
LEMMA WithinMore ==
    ASSUME NEW p \in P!Pages, NEW text \in Seq(Pos(p)), NEW more \in Seq(Pos(p)), NEW i \in 1 .. Len(p)
    PROVE  /\ Within(p, text, i) => Within(p, text \o more, i)
           /\ more = P!Sentences(p, i) => Within(p, text \o more, i)
  <1> DEFINE all == text \o more
             z == Len(p[i].lengths)
  <1>1. /\ Len(text) \in Nat /\ Len(more) \in Nat /\ Len(all) = Len(text) + Len(more)
        /\ \A k \in 1 .. Len(text) + Len(more) :
              all[k] = IF k <= Len(text) THEN text[k] ELSE more[k - Len(text)]
    BY ConcatProperties
  <1>2. z \in Nat /\ DOMAIN p[i].lengths = 1 .. z
    BY PageIs
  <1> HIDE DEF all, z
  <1>3. ASSUME Within(p, text, i)
        PROVE  Within(p, all, i)
    <2>1. PICK off \in Nat : off + z <= Len(text) /\ \A j \in 1 .. z : text[off + j] = <<i, j>>
      BY <1>3 DEF Within, z
    <2>2. ASSUME NEW j \in 1 .. z
          PROVE  all[off + j] = <<i, j>>
      <3>1. off + j \in 1 .. Len(text) + Len(more) /\ off + j <= Len(text)
        BY <1>1, <1>2, <2>1
      <3> QED
        BY <1>1, <2>1, <3>1
    <2>3. off + z <= Len(all)
      BY <1>1, <1>2, <2>1
    <2> QED
      BY <2>2, <2>3 DEF Within, z
  <1>4. ASSUME more = P!Sentences(p, i)
        PROVE  Within(p, all, i)
    <2>1. DOMAIN more = 1 .. z /\ \A j \in 1 .. z : more[j] = <<i, j>>
      BY <1>2, <1>4, SentencesAre
    <2>2. Len(more) = z
      BY <1>2, <2>1
    <2>3. ASSUME NEW j \in 1 .. z
          PROVE  all[Len(text) + j] = <<i, j>>
      <3>1. /\ Len(text) + j \in 1 .. Len(text) + Len(more) /\ ~(Len(text) + j <= Len(text))
            /\ (Len(text) + j) - Len(text) = j
        BY <1>1, <1>2, <2>2
      <3> QED
        BY <1>1, <2>1, <3>1
    <2>4. Len(text) + z <= Len(all)
      BY <1>1, <1>2, <2>2
    <2> QED
      BY <1>1, <2>3, <2>4 DEF Within, z
  <1> QED
    BY <1>3, <1>4 DEF all

(* The text of a page has its sections in it.                                *)
LEMMA AllIs ==
    ASSUME NEW p \in P!Pages
    PROVE  P!All(p) \in Seq(Pos(p)) /\ \A i \in 1 .. Len(p) : Within(p, P!All(p), i)
  <1> DEFINE n == Len(p)
             f == CHOOSE x : AllTo(p, x, n)
  <1>1. n \in Nat
    BY PageIs
  <1>2. AllTo(p, f, n)
    BY <1>1, AllExists, Zenon
  <1>3. P!All(p) = f[n]
    BY Zenon DEF P!All, AllTo
  <1> HIDE DEF f, n
  <1> DEFINE S == {m \in Nat : m <= n => f[m] \in Seq(Pos(p)) /\ \A i \in 1 .. m : Within(p, f[m], i)}
  <1>4. 0 \in S
    <2>1. f[0] = <<>>
      BY <1>1, <1>2 DEF AllTo
    <2>2. f[0] \in Seq(Pos(p)) /\ \A i \in 1 .. 0 : Within(p, f[0], i)
      BY <2>1, EmptySeq
    <2> QED
      BY <2>2
  <1>5. ASSUME NEW m \in Nat, m \in S
        PROVE  m + 1 \in S
    <2> SUFFICES ASSUME m + 1 <= n
                 PROVE  f[m + 1] \in Seq(Pos(p)) /\ \A i \in 1 .. m + 1 : Within(p, f[m + 1], i)
      OBVIOUS
    <2> DEFINE ss == P!Sentences(p, m + 1)
               text == f[m]
    <2>1. m + 1 \in 0 .. n /\ (m + 1) - 1 = m /\ m + 1 # 0 /\ m <= n /\ m + 1 \in 1 .. Len(p)
      BY <1>1 DEF n
    <2>2. f[m + 1] = text \o ss
      BY <1>2, <2>1 DEF AllTo
    <2>3. text \in Seq(Pos(p)) /\ \A i \in 1 .. m : Within(p, text, i)
      BY <1>5, <2>1
    <2>4. ss \in Seq(Pos(p))
      BY <2>1, SentencesAre
    <2> DEFINE more == text \o ss
    <2>5. ASSUME NEW i \in 1 .. Len(p)
          PROVE  /\ Within(p, text, i) => Within(p, more, i)
                 /\ ss = P!Sentences(p, i) => Within(p, more, i)
      <3> HIDE DEF ss, text
      <3> QED
        BY <2>3, <2>4, WithinMore
    <2>6. Within(p, more, m + 1)
      <3> DEFINE i == m + 1
      <3>1. ss = P!Sentences(p, i) /\ i \in 1 .. Len(p)
        BY <2>1
      <3> HIDE DEF ss, more, text, i
      <3>2. Within(p, more, i)
        BY <2>5, <3>1
      <3> QED
        BY <3>2 DEF i
    <2>7. more \in Seq(Pos(p))
      BY <2>3, <2>4, ConcatProperties
    <2>8. \A i \in 1 .. m + 1 : i \in 1 .. Len(p) /\ (i \in 1 .. m \/ i = m + 1)
      BY <2>1, PageIs
    <2>9. ASSUME NEW i \in 1 .. m + 1
          PROVE  Within(p, more, i)
      <3> HIDE DEF ss, text, more
      <3>1. CASE i \in 1 .. m
        BY <2>3, <2>5, <2>8, <3>1
      <3>2. CASE i = m + 1
        BY <2>6, <3>2
      <3> QED
        BY <2>8, <3>1, <3>2
    <2>10. f[m + 1] = more /\ more \in Seq(Pos(p))
      BY <2>2, <2>7
    <2> HIDE DEF more
    <2> QED
      BY <2>9, <2>10
  <1>6. n \in S
    BY <1>1, <1>4, <1>5, Inductive
  <1> QED
    BY <1>1, <1>3, <1>6 DEF n

-----------------------------------------------------------------------------
(* The document                                                              *)

(* A heading adds words to its chunk.                                        *)
LEMMA HeadingAddsWords ==
    ASSUME NEW p \in P!Pages, NEW c \in Piece(p)
    PROVE  /\ P!Words(p, c.text) \in Nat /\ P!ChunkWords(p, c) \in Nat
           /\ P!ChunkWords(p, c) >= P!Words(p, c.text)
  <1> DEFINE h == c.heading
             t == c.text
             all == h \o t
             m == Len(h)
             n == Len(t)
  <1>1. h \in Seq(Pos(p)) /\ t \in Seq(Pos(p)) /\ m \in Nat /\ n \in Nat
    BY DEF Piece
  <1>2. /\ all \in Seq(Pos(p)) /\ Len(all) = m + n
        /\ \A k \in 1 .. m + n : all[k] = IF k <= m THEN h[k] ELSE t[k - m]
    BY <1>1, ConcatProperties
  <1>3. P!ChunkWords(p, c) = P!Words(p, all)
    BY DEF P!ChunkWords
  <1> HIDE DEF h, all, m, n
  <1>4. /\ 1 \in Nat /\ m + 1 \in Nat /\ m + n \in Nat
        /\ 1 <= 1 /\ 1 <= m + 1 /\ m + 1 <= (m + n) + 1 /\ m + n <= m + n /\ m + n <= Len(all)
        /\ 1 <= (m + n) + 1
    BY <1>1, <1>2
  <1>5. P!Words(p, Run(all, m + 1, m + n)) <= P!Words(p, Run(all, 1, m + n))
    BY <1>2, <1>4, RunsInside
  <1>6. Run(all, 1, m + n) = all
    BY <1>2, SubSeqFull DEF Run
  <1>7. Run(all, m + 1, m + n) = t
    <2> DEFINE r == Run(all, m + 1, m + n)
    <2>1. /\ r \in Seq(Pos(p)) /\ Len(r) = (m + n) - (m + 1) + 1
          /\ \A k \in 1 .. (m + n) - (m + 1) + 1 : r[k] = all[(m + 1) + k - 1]
      BY <1>2, <1>4, RunIs
    <2> HIDE DEF r
    <2>2. (m + n) - (m + 1) + 1 = n
      BY <1>1
    <2>3. ASSUME NEW k \in 1 .. n
          PROVE  r[k] = t[k]
      <3>1. (m + 1) + k - 1 \in 1 .. m + n /\ ~((m + 1) + k - 1 <= m) /\ ((m + 1) + k - 1) - m = k
        BY <1>1
      <3> QED
        BY <1>2, <2>1, <2>2, <3>1
    <2>4. r = t
      BY <1>1, <2>1, <2>2, <2>3, SeqEqual DEF n
    <2> QED
      BY <2>4 DEF r
  <1>8. P!Words(p, t) \in Nat /\ P!Words(p, all) \in Nat
    BY <1>1, <1>2, WordsNat
  <1> QED
    BY <1>3, <1>5, <1>6, <1>7, <1>8

(* f holds what chunk_document keeps of the first n chunks.                  *)
KeepsTo(p, raw, f, n) ==
    f = [m \in 0 .. n |->
            IF m = 0 THEN <<>>
            ELSE IF P!ChunkWords(p, raw[m]) >= MIN_CHUNK_WORDS THEN Append(f[m - 1], raw[m])
            ELSE f[m - 1]]

(* It can be computed for every n.                                           *)
LEMMA KeepsExist == ASSUME NEW p, NEW raw, NEW n \in Nat PROVE \E f : KeepsTo(p, raw, f, n)
  <1> DEFINE S == {m \in Nat : \E f : KeepsTo(p, raw, f, m)}
             Step(out, k) == IF P!ChunkWords(p, raw[k]) >= MIN_CHUNK_WORDS THEN Append(out, raw[k]) ELSE out
  <1>1. 0 \in S
    <2>1. KeepsTo(p, raw, [m \in 0 .. 0 |-> <<>>], 0)
      BY DEF KeepsTo
    <2> QED
      BY <2>1
  <1>2. ASSUME NEW m \in Nat, m \in S
        PROVE  m + 1 \in S
    <2>1. PICK w : KeepsTo(p, raw, w, m)
      BY <1>2
    <2>2. w = [k \in 0 .. m |-> IF k = 0 THEN <<>> ELSE Step(w[k - 1], k)]
      BY <2>1, Zenon DEF KeepsTo
    <2> DEFINE v == [k \in 0 .. m + 1 |-> IF k = m + 1 THEN Step(w[m], k) ELSE w[k]]
    <2> HIDE DEF Step
    <2>3. ASSUME NEW k \in 0 .. m + 1
          PROVE  v[k] = IF k = 0 THEN <<>> ELSE Step(v[k - 1], k)
      <3>1. CASE k = m + 1
        BY <3>1
      <3>2. CASE k \in 0 .. m
        <4>1. w[k] = IF k = 0 THEN <<>> ELSE Step(w[k - 1], k)
          BY <2>2, <3>2
        <4> QED
          BY <3>2, <4>1
      <3> QED
        BY <3>1, <3>2
    <2>4. v = [k \in 0 .. m + 1 |-> IF k = 0 THEN <<>> ELSE Step(v[k - 1], k)]
      BY <2>3
    <2> HIDE DEF v
    <2>5. KeepsTo(p, raw, v, m + 1)
      BY <2>4, Zenon DEF KeepsTo, Step
    <2> QED
      BY <2>5
  <1>3. n \in S
    BY <1>1, <1>2, Inductive
  <1> QED
    BY <1>3

(* A chunk whose text is long enough is kept.                                *)
LEMMA DocumentKeeps ==
    ASSUME NEW p \in P!Pages, P!HeadingChunk(p) \in Pieces(p), LongTexts(p, P!HeadingChunk(p))
    PROVE  /\ P!ChunkDocument(p) \in Pieces(p)
           /\ \A fixed : Shows(P!HeadingChunk(p), fixed) => Shows(P!ChunkDocument(p), fixed)
  <1> DEFINE raw == P!HeadingChunk(p)
             n == Len(raw)
             f == CHOOSE x : KeepsTo(p, raw, x, n)
             Has(out, x) == \E y \in DOMAIN out : out[y] = raw[x]
  <1>1. n \in Nat /\ DOMAIN raw = 1 .. n
    BY DEF Pieces
  <1>2. KeepsTo(p, raw, f, n)
    BY <1>1, KeepsExist, Zenon
  <1>3. P!ChunkDocument(p) = f[n]
    BY Zenon DEF P!ChunkDocument, KeepsTo
  <1>4. raw \in Pieces(p) /\ LongTexts(p, raw)
    OBVIOUS
  <1> HIDE DEF f, n, raw
  <1>5. ASSUME NEW x \in 1 .. n
        PROVE  raw[x] \in Piece(p) /\ P!ChunkWords(p, raw[x]) >= MIN_CHUNK_WORDS
    <2>1. raw[x] \in Piece(p) /\ P!LongEnough(p, raw[x].text)
      BY <1>1, <1>4 DEF Pieces, LongTexts
    <2> QED
      BY <2>1, HeadingAddsWords, OverlapAssumption DEF P!LongEnough
  <1> DEFINE S == {m \in Nat : m <= n => f[m] \in Pieces(p) /\ \A x \in 1 .. m : Has(f[m], x)}
  <1>6. 0 \in S
    <2>1. f[0] = <<>>
      BY <1>1, <1>2 DEF KeepsTo
    <2>2. f[0] \in Pieces(p) /\ \A x \in 1 .. 0 : Has(f[0], x)
      BY <2>1, EmptySeq DEF Pieces
    <2> QED
      BY <2>2
  <1>7. ASSUME NEW m \in Nat, m \in S
        PROVE  m + 1 \in S
    <2> SUFFICES ASSUME m + 1 <= n
                 PROVE  f[m + 1] \in Pieces(p) /\ \A x \in 1 .. m + 1 : Has(f[m + 1], x)
      OBVIOUS
    <2> DEFINE old == f[m]
               new == Append(old, raw[m + 1])
    <2>1. m + 1 \in 0 .. n /\ m + 1 \in 1 .. n /\ (m + 1) - 1 = m /\ m + 1 # 0 /\ m <= n
      BY <1>1
    <2>2. f[m + 1] = new
      BY <1>2, <1>5, <2>1 DEF KeepsTo
    <2>3. old \in Pieces(p) /\ (\A x \in 1 .. m : Has(old, x)) /\ raw[m + 1] \in Piece(p)
      BY <1>5, <1>7, <2>1
    <2> HIDE DEF old
    <2>4. /\ new \in Pieces(p) /\ DOMAIN old = 1 .. Len(old) /\ DOMAIN new = 1 .. Len(old) + 1
          /\ Len(old) \in Nat
          /\ new[Len(old) + 1] = raw[m + 1] /\ \A i \in 1 .. Len(old) : new[i] = old[i]
      BY <2>3, AppendProperties DEF Pieces
    <2> HIDE DEF new
    <2>5. ASSUME NEW x \in 1 .. m + 1
          PROVE  Has(new, x)
      <3>1. CASE x \in 1 .. m
        BY <2>3, <2>4, <3>1
      <3>2. CASE x = m + 1
        BY <2>4, <3>2
      <3> QED
        BY <3>1, <3>2
    <2> QED
      BY <2>2, <2>4, <2>5
  <1>8. n \in S
    BY <1>1, <1>6, <1>7, Inductive
  <1>9. f[n] \in Pieces(p) /\ \A x \in 1 .. n : \E y \in DOMAIN f[n] : f[n][y] = raw[x]
    BY <1>1, <1>8
  <1>10. \A fixed : Shows(raw, fixed) => Shows(f[n], fixed)
    BY <1>1, <1>9 DEF Shows
  <1> QED
    BY <1>3, <1>9, <1>10 DEF raw

(* What is shown is shown sentence by sentence.                              *)
LEMMA ShownIs == \A out, fixed, s : Shows(out, fixed) /\ Holds(fixed, s) => Shown(out, s)
  BY Zenon DEF Shows, Holds, Shown

(* The chunks of a page have sentences of it, and long texts.                *)
LEMMA HeadingChunkIs ==
    ASSUME NEW p \in P!Pages
    PROVE  P!HeadingChunk(p) \in Pieces(p) /\ LongTexts(p, P!HeadingChunk(p))
  <1>1. CASE 2 * P!Preserved(p, P!Sections(p)) < P!Words(p, P!All(p))
    <2> DEFINE fixed == P!FixedChunk(p, P!All(p))
    <2>1. P!HeadingChunk(p) = P!Titled(<<>>, fixed)
      BY <1>1 DEF P!HeadingChunk
    <2>2. fixed \in Texts(p) /\ AllLong(p, fixed)
      BY AllIs, FixedChunkIs
    <2> HIDE DEF fixed
    <2> QED
      BY <2>1, <2>2, EmptySeq, TitledIs
  <1>2. CASE ~(2 * P!Preserved(p, P!Sections(p)) < P!Words(p, P!All(p)))
    BY <1>2, SectionsAre DEF P!HeadingChunk
  <1> QED
    BY <1>1, <1>2

(* The sentences of a section that are in no chunk: both when the page is    *)
(* cut at its headings and when it is cut as one text.                       *)
LEMMA SectionLosesLittle ==
    ASSUME NEW p \in P!Pages, NEW i \in 1 .. Len(p), ~p[i].heading,
           NEW a \in DOMAIN p[i].lengths, NEW b \in DOMAIN p[i].lengths, a <= b,
           \A j \in a .. b : ~Shown(P!ChunkDocument(p), <<i, j>>)
    PROVE  P!Words(p, Run(P!Sentences(p, i), a, b)) < MIN_CHUNK_WORDS
  <1> DEFINE ss == P!Sentences(p, i)
             z == Len(p[i].lengths)
             raw == P!HeadingChunk(p)
             kept == P!ChunkDocument(p)
  <1>1. z \in Nat /\ DOMAIN p[i].lengths = 1 .. z
    BY PageIs
  <1>2. ss \in Seq(Pos(p)) /\ DOMAIN ss = 1 .. z /\ \A j \in 1 .. z : ss[j] = <<i, j>>
    BY <1>1, SentencesAre
  <1>3. Len(ss) = z
    BY <1>1, <1>2
  <1> HIDE DEF z, kept, raw
  <1>4. CASE 2 * P!Preserved(p, P!Sections(p)) < P!Words(p, P!All(p))
    <2> DEFINE text == P!All(p)
               fixed == P!FixedChunk(p, text)
    <2>1. raw = P!Titled(<<>>, fixed)
      BY <1>4 DEF P!HeadingChunk, raw
    <2>2. text \in Seq(Pos(p)) /\ Within(p, text, i)
      BY AllIs
    <2>3. PICK off \in Nat : off + z <= Len(text) /\ \A j \in 1 .. z : text[off + j] = <<i, j>>
      BY <2>2 DEF Within, z
    <2>4. fixed \in Texts(p) /\ AllLong(p, fixed)
      BY <2>2, FixedChunkIs
    <2>5. Shows(raw, fixed)
      <3> HIDE DEF fixed
      <3> QED
        BY <2>1, <2>4, EmptySeq, TitledIs
    <2>6. Shows(kept, fixed)
      BY <2>5, HeadingChunkIs, DocumentKeeps DEF raw, kept
    <2> DEFINE c == off + a
               d == off + b
    <2>7. /\ c \in 1 .. Len(text) /\ d \in c .. Len(text) /\ a \in 1 .. z /\ b \in 1 .. z
          /\ \A j \in c .. d : j - off \in a .. b /\ j - off \in 1 .. z /\ off + (j - off) = j
      BY <1>1, <2>2, <2>3
    <2>8. \A j \in c .. d : ~Holds(fixed, text[j])
      <3> HIDE DEF fixed, text, c, d
      <3>1. ASSUME NEW j \in c .. d
            PROVE  ~Holds(fixed, text[j])
        <4>1. text[j] = <<i, j - off>>
          BY <2>3, <2>7
        <4>2. ~Shown(kept, <<i, j - off>>)
          BY <2>7 DEF kept
        <4> QED
          BY <2>6, <4>1, <4>2, ShownIs
      <3> QED
        BY <3>1
    <2>9. P!Words(p, Run(text, c, d)) < MIN_CHUNK_WORDS
      <3> HIDE DEF text, c, d
      <3> QED
        BY <2>2, <2>7, <2>8, LostRunIsShort DEF fixed
    <2>10. Run(text, c, d) = Run(ss, a, b)
      <3> DEFINE r == Run(text, c, d)
                 t == Run(ss, a, b)
      <3>1. /\ c \in Nat /\ d \in Nat /\ 1 <= c /\ c <= d + 1 /\ d <= Len(text)
            /\ a \in Nat /\ b \in Nat /\ 1 <= a /\ a <= b + 1 /\ b <= Len(ss)
            /\ d - c + 1 = b - a + 1
        BY <1>3, <2>2, <2>7
      <3> HIDE DEF text, ss
      <3>2. r \in Seq(Pos(p)) /\ Len(r) = d - c + 1 /\ \A k \in 1 .. d - c + 1 : r[k] = text[c + k - 1]
        <4> HIDE DEF c, d
        <4> QED
          BY <2>2, <3>1, RunIs
      <3>3. t \in Seq(Pos(p)) /\ Len(t) = b - a + 1 /\ \A k \in 1 .. b - a + 1 : t[k] = ss[a + k - 1]
        BY <1>2, <3>1, RunIs
      <3>4. ASSUME NEW k \in 1 .. b - a + 1
            PROVE  text[c + k - 1] = <<i, a + k - 1>> /\ ss[a + k - 1] = <<i, a + k - 1>>
        <4>1. a + k - 1 \in 1 .. z /\ c + k - 1 = off + (a + k - 1)
          BY <2>7
        <4> QED
          BY <1>2, <2>3, <4>1
      <3> HIDE DEF r, t, c, d
      <3>5. Len(r) = Len(t) /\ \A k \in 1 .. Len(r) : r[k] = t[k]
        BY <3>1, <3>2, <3>3, <3>4
      <3>6. r = t
        BY <3>2, <3>3, <3>5, SeqEqual
      <3> QED
        BY <3>6 DEF r, t
    <2> QED
      BY <2>9, <2>10
  <1>5. CASE ~(2 * P!Preserved(p, P!Sections(p)) < P!Words(p, P!All(p)))
    <2> DEFINE fixed == P!FixedChunk(p, ss)
    <2>1. raw = P!Sections(p)
      BY <1>5 DEF P!HeadingChunk, raw
    <2>2. Shows(raw, fixed)
      BY <2>1, SectionsAre
    <2>3. Shows(kept, fixed)
      BY <2>2, HeadingChunkIs, DocumentKeeps DEF raw, kept
    <2>4. a \in 1 .. z /\ b \in 1 .. z /\ a \in 1 .. Len(ss) /\ b \in a .. Len(ss)
      BY <1>1, <1>3
    <2>5. \A j \in a .. b : ~Holds(fixed, ss[j])
      <3> HIDE DEF fixed, ss
      <3>1. ASSUME NEW j \in a .. b
            PROVE  ~Holds(fixed, ss[j])
        <4>1. ss[j] = <<i, j>>
          BY <1>1, <1>2, <2>4
        <4>2. ~Shown(kept, <<i, j>>)
          BY DEF kept
        <4> QED
          BY <2>3, <4>1, <4>2, ShownIs
      <3> QED
        BY <3>1
    <2>6. P!Words(p, Run(ss, a, b)) < MIN_CHUNK_WORDS
      <3> HIDE DEF ss
      <3> QED
        BY <1>2, <2>4, <2>5, LostRunIsShort DEF fixed
    <2> QED
      BY <2>6
  <1> QED
    BY <1>4, <1>5

(* Nothing is chunked, or a page is and its chunks are those it has.         *)
Chunked == (page = <<>> /\ pieces = <<>>) \/ (page \in P!Pages /\ pieces = P!ChunkDocument(page))

(* Of a text that is not a heading only pieces too short for a chunk are in  *)
(* no chunk, whatever the sizes and however long the page (_fixed_chunk,     *)
(* _heading_chunk and the last filter of chunk_document together).           *)
THEOREM LostPiecesStayShort == P!Spec => []LostPiecesAreShort
  <1>1. P!Init => Chunked
    BY DEF P!Init, Chunked
  <1>2. Chunked /\ [P!Next]_(P!vars) => Chunked'
    BY DEF Chunked, P!Next, P!ChunkPage, P!NextPage, P!vars
  <1>3. Chunked => LostPiecesAreShort
    <2> SUFFICES ASSUME Chunked, NEW i \in DOMAIN page, ~page[i].heading,
                        NEW a \in DOMAIN page[i].lengths, NEW b \in DOMAIN page[i].lengths, a <= b,
                        \A j \in a .. b : <<i, j>> \in P!Lost
                 PROVE  P!Words(page, SubSeq(P!Sentences(page, i), a, b)) < MIN_CHUNK_WORDS
      BY DEF LostPiecesAreShort, P!LostPiecesAreShort
    <2>1. page \in P!Pages /\ pieces = P!ChunkDocument(page)
      BY DEF Chunked
    <2>2. i \in 1 .. Len(page)
      BY <2>1, PageIs
    <2>3. pieces \in Pieces(page)
      BY <2>1, HeadingChunkIs, DocumentKeeps
    <2>4. ASSUME NEW s, Shown(pieces, s)
          PROVE  s \notin P!Lost
      <3>1. PICK x \in DOMAIN pieces : \E k \in DOMAIN pieces[x].text : pieces[x].text[k] = s
        BY <2>4 DEF Shown
      <3> DEFINE h == pieces[x].heading
                 t == pieces[x].text
                 all == h \o t
      <3>2. h \in Seq(Pos(page)) /\ t \in Seq(Pos(page))
        <4>1. pieces[x] \in Piece(page)
          BY <2>3 DEF Pieces
        <4> QED
          BY <4>1 DEF Piece
      <3>3. PICK k \in DOMAIN t : t[k] = s
        BY <3>1
      <3>4. /\ Len(h) \in Nat /\ Len(t) \in Nat /\ DOMAIN all = 1 .. Len(h) + Len(t)
            /\ k \in 1 .. Len(t)
            /\ \A y \in 1 .. Len(h) + Len(t) : all[y] = IF y <= Len(h) THEN h[y] ELSE t[y - Len(h)]
        <4> HIDE DEF h, t
        <4>1. /\ all \in Seq(Pos(page)) /\ Len(all) = Len(h) + Len(t)
              /\ \A y \in 1 .. Len(h) + Len(t) : all[y] = IF y <= Len(h) THEN h[y] ELSE t[y - Len(h)]
          BY <3>2, ConcatProperties
        <4> HIDE DEF all
        <4> QED
          BY <3>2, <3>3, <4>1
      <3> HIDE DEF h, t, all
      <3>5. /\ Len(h) + k \in 1 .. Len(h) + Len(t) /\ ~(Len(h) + k <= Len(h))
            /\ (Len(h) + k) - Len(h) = k
        BY <3>4
      <3>6. Len(h) + k \in DOMAIN all /\ all[Len(h) + k] = s
        BY <3>3, <3>4, <3>5
      <3>7. s \in P!Range(all)
        BY <3>6, Zenon DEF P!Range
      <3> QED
        BY <3>7 DEF P!Lost, all, h, t
    <2>5. \A j \in a .. b : ~Shown(P!ChunkDocument(page), <<i, j>>)
      BY <2>1, <2>4
    <2> QED
      BY <2>1, <2>2, <2>5, SectionLosesLittle DEF Run
  <1> QED
    BY <1>1, <1>2, <1>3, PTL DEF P!Spec

-----------------------------------------------------------------------------
(* Answers: lists of chunks                                                  *)

(* As far as a list goes: at least its first, when one may be taken.         *)
LEMMA TakeIs ==
    ASSUME NEW S, NEW s \in Seq(S), NEW n \in Nat
    PROVE  /\ A!Take(s, n) \in Seq(S)
           /\ n # 0 /\ s # <<>> => A!Take(s, n) # <<>>
  <1> DEFINE z == Len(s)
             m == A!Min({n, z})
  <1>1. z \in Nat /\ (s # <<>> => z # 0)
    BY EmptySeq
  <1>2. m = CHOOSE x \in {n, z} : \A y \in {n, z} : x <= y
    BY DEF A!Min
  <1> HIDE DEF z, m
  <1>3. \E x \in {n, z} : \A y \in {n, z} : x <= y
    BY <1>1
  <1>4. m \in {n, z} /\ m <= z
    BY <1>2, <1>3
  <1>5. A!Take(s, n) = SubSeq(s, 1, m)
    BY DEF A!Take, z, m
  <1>6. m \in Nat /\ 1 <= m + 1
    BY <1>1, <1>4
  <1>7. SubSeq(s, 1, m) \in Seq(S) /\ Len(SubSeq(s, 1, m)) = m
    BY <1>1, <1>4, <1>6, SubSeqProperties DEF z
  <1>8. n # 0 /\ s # <<>> => m # 0
    BY <1>1, <1>4
  <1> QED
    BY <1>5, <1>6, <1>7, <1>8

(* f holds what the loop over a list keeps of its first n.                   *)
FiltersTo(s, may, f, n) ==
    f = [m \in 0 .. n |-> IF m = 0 THEN <<>>
                          ELSE IF s[m] \in may THEN Append(f[m - 1], s[m]) ELSE f[m - 1]]

(* It can be computed for every n.                                           *)
LEMMA FiltersExist == ASSUME NEW s, NEW may, NEW n \in Nat PROVE \E f : FiltersTo(s, may, f, n)
  <1> DEFINE S == {m \in Nat : \E f : FiltersTo(s, may, f, m)}
             Step(out, k) == IF s[k] \in may THEN Append(out, s[k]) ELSE out
  <1>1. 0 \in S
    <2>1. FiltersTo(s, may, [m \in 0 .. 0 |-> <<>>], 0)
      BY DEF FiltersTo
    <2> QED
      BY <2>1
  <1>2. ASSUME NEW m \in Nat, m \in S
        PROVE  m + 1 \in S
    <2>1. PICK w : FiltersTo(s, may, w, m)
      BY <1>2
    <2>2. w = [k \in 0 .. m |-> IF k = 0 THEN <<>> ELSE Step(w[k - 1], k)]
      BY <2>1, Zenon DEF FiltersTo
    <2> DEFINE v == [k \in 0 .. m + 1 |-> IF k = m + 1 THEN Step(w[m], k) ELSE w[k]]
    <2> HIDE DEF Step
    <2>3. ASSUME NEW k \in 0 .. m + 1
          PROVE  v[k] = IF k = 0 THEN <<>> ELSE Step(v[k - 1], k)
      <3>1. CASE k = m + 1
        BY <3>1
      <3>2. CASE k \in 0 .. m
        <4>1. w[k] = IF k = 0 THEN <<>> ELSE Step(w[k - 1], k)
          BY <2>2, <3>2
        <4> QED
          BY <3>2, <4>1
      <3> QED
        BY <3>1, <3>2
    <2>4. v = [k \in 0 .. m + 1 |-> IF k = 0 THEN <<>> ELSE Step(v[k - 1], k)]
      BY <2>3
    <2> HIDE DEF v
    <2>5. FiltersTo(s, may, v, m + 1)
      BY <2>4, Zenon DEF FiltersTo, Step
    <2> QED
      BY <2>5
  <1>3. n \in S
    BY <1>1, <1>2, Inductive
  <1> QED
    BY <1>3

(* What is kept of a list is of the set, and something when some of it is.   *)
LEMMA FilteredIs ==
    ASSUME NEW s, Len(s) \in Nat, NEW may
    PROVE  /\ A!Filtered(s, may) \in Seq(may)
           /\ (\E k \in 1 .. Len(s) : s[k] \in may) => A!Filtered(s, may) # <<>>
  <1> DEFINE n == Len(s)
             f == CHOOSE x : FiltersTo(s, may, x, n)
  <1>1. n \in Nat
    OBVIOUS
  <1>2. FiltersTo(s, may, f, n)
    BY <1>1, FiltersExist, Zenon
  <1>3. A!Filtered(s, may) = f[n]
    BY Zenon DEF A!Filtered, FiltersTo
  <1> HIDE DEF f, n
  <1> DEFINE Inv(m) == f[m] \in Seq(may) /\ ((\E k \in 1 .. m : s[k] \in may) => f[m] # <<>>)
             S == {m \in Nat : m <= n => Inv(m)}
  <1>4. 0 \in S
    <2>1. f[0] = <<>>
      BY <1>1, <1>2 DEF FiltersTo
    <2>2. Inv(0)
      BY <2>1, EmptySeq
    <2> QED
      BY <2>2
  <1>5. ASSUME NEW m \in Nat, m \in S
        PROVE  m + 1 \in S
    <2> SUFFICES ASSUME m + 1 <= n PROVE Inv(m + 1)
      OBVIOUS
    <2>1. m + 1 \in 0 .. n /\ (m + 1) - 1 = m /\ m + 1 # 0 /\ m <= n
      BY <1>1
    <2>2. Inv(m)
      BY <1>5, <2>1
    <2>3. f[m + 1] = IF s[m + 1] \in may THEN Append(f[m], s[m + 1]) ELSE f[m]
      BY <1>2, <2>1 DEF FiltersTo
    <2>4. \A k \in 1 .. m + 1 : k \in 1 .. m \/ k = m + 1
      OBVIOUS
    <2>5. CASE s[m + 1] \in may
      <3> DEFINE old == f[m]
                 new == Append(old, s[m + 1])
      <3>1. old \in Seq(may)
        BY <2>2
      <3> HIDE DEF old
      <3>2. new \in Seq(may) /\ Len(new) = Len(old) + 1 /\ Len(old) \in Nat
        BY <2>5, <3>1, AppendProperties
      <3> HIDE DEF new
      <3>3. new # <<>>
        BY <3>2
      <3>4. f[m + 1] = new
        BY <2>3, <2>5 DEF new, old
      <3> QED
        BY <3>2, <3>3, <3>4
    <2>6. CASE s[m + 1] \notin may
      <3>1. f[m + 1] = f[m]
        BY <2>3, <2>6
      <3> QED
        BY <2>2, <2>4, <2>6, <3>1
    <2> QED
      BY <2>5, <2>6
  <1>6. n \in S
    BY <1>1, <1>4, <1>5, Inductive
  <1>7. Inv(n)
    BY <1>1, <1>6
  <1> QED
    BY <1>3, <1>7 DEF n

(* Answers counts with the definition of the library.                        *)
LEMMA AnswersCardinality == \A S : A!Cardinality(S) = Cardinality(S)
  BY Zenon DEF A!Cardinality, Cardinality

(* What both searches give may be read, and of the chunks with a positive    *)
(* keyword score one that may be read is found.                              *)
LEMMA SearchesFind ==
    ASSUME NEW nearest \in A!SetToSeqs(Chunk), NEW readable \in SUBSET Chunk,
           NEW order \in A!SetToSeqs(Chunk), NEW positive \in 0 .. A!Cardinality(Chunk)
    PROVE  /\ A!Search(nearest, readable) \in Seq(readable)
           /\ A!Keywords(order, positive, readable) \in Seq(readable)
           /\ A!Range(A!Take(order, positive)) \cap readable # {}
                 => A!Keywords(order, positive, readable) # <<>>
  <1>1. ASSUME NEW S \in SUBSET Chunk, NEW s \in A!SetToSeqs(S)
        PROVE  s \in Seq(S) /\ \A c \in S : \E k \in 1 .. Len(s) : s[k] = c
    <2> DEFINE n == Cardinality(S)
    <2>1. IsFiniteSet(S) /\ n \in Nat
      BY SearchAssumption, FS_Subset, FS_CardinalityType
    <2>2. s \in [1 .. n -> S] /\ \A i, j \in 1 .. n : i # j => s[i] # s[j]
      BY AnswersCardinality DEF A!SetToSeqs
    <2>3. s \in Injection(1 .. n, S)
      BY <2>2 DEF Injection, IsInjective
    <2>4. Cardinality(1 .. n) = n
      BY <2>1, FS_Interval
    <2>5. s \in Surjection(1 .. n, S)
      BY <2>1, <2>3, <2>4, FS_Injection
    <2> HIDE DEF n
    <2>6. Len(s) = n /\ s \in Seq(S)
      BY <2>1, <2>2
    <2> QED
      BY <2>5, <2>6 DEF Surjection
  <1>2. A!Search(nearest, readable) \in Seq(readable)
    <2> DEFINE first == A!Take(nearest, fetch_factor * dense_top_k)
               kept == A!Filtered(first, readable)
    <2>1. nearest \in Seq(Chunk) /\ fetch_factor * dense_top_k \in Nat
      BY <1>1, SearchAssumption
    <2>2. first \in Seq(Chunk)
      BY <2>1, TakeIs
    <2> HIDE DEF first
    <2>3. kept \in Seq(readable)
      BY <2>2, FilteredIs
    <2> HIDE DEF kept
    <2>4. A!Take(kept, dense_top_k) \in Seq(readable)
      BY <2>3, SearchAssumption, TakeIs
    <2> QED
      BY <2>4 DEF A!Search, kept, first
  <1>3. /\ A!Keywords(order, positive, readable) \in Seq(readable)
        /\ A!Range(A!Take(order, positive)) \cap readable # {}
              => A!Keywords(order, positive, readable) # <<>>
    <2> DEFINE scored == A!Take(order, positive)
               kept == A!Filtered(scored, readable)
    <2>1. order \in Seq(Chunk) /\ positive \in Nat
      BY <1>1, SearchAssumption, AnswersCardinality, FS_CardinalityType
    <2>2. scored \in Seq(Chunk)
      BY <2>1, TakeIs
    <2>3. A!Range(scored) = {scored[k] : k \in 1 .. Len(scored)}
      <3> HIDE DEF scored
      <3> QED
        BY <2>2 DEF A!Range
    <2> HIDE DEF scored
    <2>4. /\ kept \in Seq(readable)
          /\ (\E k \in 1 .. Len(scored) : scored[k] \in readable) => kept # <<>>
      BY <2>2, FilteredIs
    <2> HIDE DEF kept
    <2>5. /\ A!Take(kept, bm25_top_k) \in Seq(readable)
          /\ kept # <<>> => A!Take(kept, bm25_top_k) # <<>>
      BY <2>4, SearchAssumption, TakeIs
    <2>6. A!Range(scored) \cap readable # {} => kept # <<>>
      BY <2>3, <2>4
    <2>7. A!Keywords(order, positive, readable) = A!Take(kept, bm25_top_k)
      BY DEF A!Keywords, kept, scored
    <2> QED
      BY <2>5, <2>6, <2>7 DEF scored
  <1> QED
    BY <1>2, <1>3

(* A relation that puts the members of S in a row.                           *)
Ranks(S, above) ==
    /\ \A c \in S : <<c, c>> \notin above
    /\ \A c, d \in S : c # d => <<c, d>> \in above \/ <<d, c>> \in above
    /\ \A b, c, d \in S : <<b, c>> \in above /\ <<c, d>> \in above => <<b, d>> \in above

(* Sorting a set by such a relation gives all of it.                         *)
LEMMA SortedIs ==
    ASSUME NEW S, IsFiniteSet(S), NEW above, Ranks(S, above)
    PROVE  A!Sorted(S, above) \in Seq(S) /\ (S # {} => A!Sorted(S, above) # <<>>)
  <1> DEFINE n == Cardinality(S)
             Above(c) == {d \in S : <<d, c>> \in above}
             rank == [c \in S |-> Cardinality(Above(c))]
  <1>1. n \in Nat /\ (n = 0 <=> S = {})
    BY FS_CardinalityType, FS_EmptySet
  <1>2. ASSUME NEW c \in S
        PROVE  IsFiniteSet(Above(c)) /\ rank[c] \in Nat /\ rank[c] < n
    <2>1. Above(c) \in SUBSET S /\ c \notin Above(c)
      BY DEF Ranks
    <2>2. IsFiniteSet(Above(c)) /\ Cardinality(Above(c)) <= n /\ (n = Cardinality(Above(c)) => S = Above(c))
      <3> HIDE DEF Above
      <3> QED
        BY <2>1, FS_Subset
    <2>3. Cardinality(Above(c)) \in Nat
      <3> HIDE DEF Above
      <3> QED
        BY <2>2, FS_CardinalityType
    <2>4. Cardinality(Above(c)) # n
      BY <2>1, <2>2
    <2>5. rank[c] = Cardinality(Above(c))
      OBVIOUS
    <2> HIDE DEF Above, rank, n
    <2> QED
      BY <1>1, <2>2, <2>3, <2>4, <2>5
  <1>3. ASSUME NEW c \in S, NEW d \in S, <<c, d>> \in above
        PROVE  rank[c] # rank[d]
    <2>1. Above(c) \in SUBSET Above(d) /\ c \in Above(d) /\ c \notin Above(c)
      BY <1>3 DEF Ranks
    <2>2. IsFiniteSet(Above(d))
      BY <1>2
    <2>3. rank[c] = Cardinality(Above(c)) /\ rank[d] = Cardinality(Above(d))
      OBVIOUS
    <2> HIDE DEF Above, rank
    <2>4. Cardinality(Above(d)) = Cardinality(Above(c)) => Above(d) = Above(c)
      BY <2>1, <2>2, FS_Subset
    <2> QED
      BY <2>1, <2>3, <2>4
  <1>4. rank \in Injection(S, 0 .. n - 1)
    <2>1. rank \in [S -> 0 .. n - 1]
      <3>1. \A c \in S : rank[c] \in 0 .. n - 1
        BY <1>1, <1>2
      <3>2. DOMAIN rank = S /\ rank = [c \in DOMAIN rank |-> rank[c]]
        OBVIOUS
      <3> HIDE DEF rank
      <3> QED
        BY <3>1, <3>2
    <2>2. \A c, d \in S : rank[c] = rank[d] => c = d
      <3> HIDE DEF rank
      <3> QED
        BY <1>3 DEF Ranks
    <2> HIDE DEF rank
    <2> QED
      BY <2>1, <2>2 DEF Injection, IsInjective
  <1>5. \A k \in 0 .. n - 1 : \E c \in S : rank[c] = k
    <2>1. IsFiniteSet(0 .. n - 1) /\ Cardinality(0 .. n - 1) = n
      BY <1>1, FS_Interval
    <2> HIDE DEF rank
    <2>2. rank \in Surjection(S, 0 .. n - 1)
      BY <1>4, <2>1, FS_Injection
    <2> QED
      BY <2>2 DEF Surjection
  <1> DEFINE sorted == A!Sorted(S, above)
  <1>6. sorted = [i \in 1 .. n |-> CHOOSE c \in S : Cardinality(Above(c)) = i - 1]
    BY Zenon DEF A!Sorted, A!Cardinality, Cardinality
  <1>7. ASSUME NEW i \in 1 .. n
        PROVE  sorted[i] \in S
    <2>1. \E c \in S : Cardinality(Above(c)) = i - 1
      <3>1. i - 1 \in 0 .. n - 1
        BY <1>1
      <3> QED
        BY <1>5, <3>1
    <2>2. sorted[i] = CHOOSE c \in S : Cardinality(Above(c)) = i - 1
      BY <1>6
    <2> HIDE DEF sorted, Above, n
    <2> QED
      BY <2>1, <2>2
  <1> HIDE DEF sorted
  <1>8. sorted \in [1 .. n -> S]
    <2> HIDE DEF Above, n
    <2> QED
      BY <1>6, <1>7
  <1> HIDE DEF n
  <1>9. sorted \in Seq(S) /\ Len(sorted) = n
    BY <1>1, <1>8
  <1>10. S # {} => sorted # <<>>
    BY <1>1, <1>9
  <1> QED
    BY <1>9, <1>10 DEF sorted

(* A place in a list counts for a number.                                    *)
LEMMA ShareIs ==
    ASSUME NEW S, NEW s \in Seq(S), NEW weight \in Nat, NEW c
    PROVE  A!Share(weight, s, c) \in Int
  <1>1. CASE c \in A!Range(s)
    <2> DEFINE i == CHOOSE k \in DOMAIN s : s[k] = c
    <2>1. \E k \in DOMAIN s : s[k] = c
      BY <1>1 DEF A!Range
    <2>2. i \in DOMAIN s
      BY <2>1
    <2>3. A!Share(weight, s, c) = (weight * 1000000) \div (60 + i)
      BY <1>1, SMT DEF A!Share
    <2> HIDE DEF i
    <2>4. 60 + i \in Nat /\ 60 + i > 0 /\ weight * 1000000 \in Int
      BY <2>2, SMT
    <2> DEFINE a == weight * 1000000
               b == 60 + i
    <2> HIDE DEF a, b
    <2>5. a \in Int /\ b \in Nat /\ b > 0
      BY <2>4, SMT DEF a, b
    <2>6. a \div b \in Int
      BY <2>5
    <2> QED
      BY <2>3, <2>6, SMT DEF a, b
  <1>2. CASE c \notin A!Range(s)
    BY <1>2, SMT DEF A!Share
  <1> QED
    BY <1>1, <1>2

(* Fusing two lists gives what is in them, and something when there is.      *)
LEMMA FusionIs ==
    ASSUME NEW S, IsFiniteSet(S), NEW dense \in Seq(S), NEW bm25 \in Seq(S)
    PROVE  A!Fusion(dense, bm25) \in Seq(S) /\ (bm25 # <<>> => A!Fusion(dense, bm25) # <<>>)
  <1> DEFINE found == dense \o bm25
             all == A!Range(found)
             place(c) == A!Min({i \in DOMAIN found : found[i] = c})
             score(c) == A!Fused(dense, bm25, c)
             over(c, d) == \/ score(c) > score(d)
                           \/ score(c) = score(d) /\ place(c) < place(d)
             rel == {e \in all \X all : over(e[1], e[2])}
  <1>1. A!Fusion(dense, bm25) = A!Sorted(all, rel)
    BY Zenon DEF A!Fusion
  <1>2. found \in Seq(S) /\ (bm25 # <<>> => found # <<>>) /\ DOMAIN found = 1 .. Len(found)
    <2>1. Len(found) = Len(dense) + Len(bm25) /\ found \in Seq(S) /\ Len(dense) \in Nat /\ Len(bm25) \in Nat
      BY ConcatProperties
    <2> HIDE DEF found
    <2>2. bm25 # <<>> => Len(bm25) # 0
      BY EmptySeq
    <2> QED
      BY <2>1, <2>2
  <1> HIDE DEF found
  <1>3. all \in SUBSET S /\ (found # <<>> => all # {})
    BY <1>2 DEF A!Range
  <1>4. IsFiniteSet(all)
    <2> HIDE DEF all
    <2> QED
      BY <1>3, FS_Subset
  <1>5. ASSUME NEW c \in all
        PROVE  place(c) \in Nat /\ place(c) \in DOMAIN found /\ found[place(c)] = c
    <2> DEFINE at == {i \in DOMAIN found : found[i] = c}
    <2>1. at \in SUBSET Nat /\ at # {}
      BY <1>2 DEF A!Range
    <2>2. place(c) = CHOOSE x \in at : \A y \in at : x <= y
      BY Zenon DEF A!Min
    <2> HIDE DEF at, place
    <2>3. \E x \in at : \A y \in at : x <= y
      BY <2>1, Least
    <2>4. place(c) \in at
      BY <2>2, <2>3
    <2> QED
      BY <1>2, <2>4 DEF at
  <1>6. ASSUME NEW c \in all
        PROVE  score(c) \in Int
    <2>1. A!Share(6, dense, c) \in Int
      BY ShareIs
    <2>2. A!Share(4, bm25, c) \in Int
      BY ShareIs
    <2> QED
      BY <2>1, <2>2 DEF A!Fused
  <1> HIDE DEF place, score, all
  <1>7. \A c, d \in all : <<c, d>> \in rel <=> over(c, d)
    <2> HIDE DEF over
    <2> QED
      OBVIOUS
  <1>8. Ranks(all, rel)
    <2> HIDE DEF rel
    <2>1. \A c, d \in all : c # d => place(c) # place(d)
      BY <1>5
    <2>2. ASSUME NEW c \in all
          PROVE  ~over(c, c)
      BY <1>5, <1>6
    <2>3. ASSUME NEW c \in all, NEW d \in all, c # d
          PROVE  over(c, d) \/ over(d, c)
      BY <1>5, <1>6, <2>1, <2>3
    <2>4. ASSUME NEW b \in all, NEW c \in all, NEW d \in all, over(b, c), over(c, d)
          PROVE  over(b, d)
      <3>1. /\ place(b) \in Nat /\ place(c) \in Nat /\ place(d) \in Nat
            /\ score(b) \in Int /\ score(c) \in Int /\ score(d) \in Int
        BY <1>5, <1>6
      <3> QED
        BY <2>4, <3>1
    <2> HIDE DEF over
    <2> QED
      BY <1>7, <2>2, <2>3, <2>4 DEF Ranks
  <1> HIDE DEF rel
  <1>9. A!Sorted(all, rel) \in Seq(all) /\ (all # {} => A!Sorted(all, rel) # <<>>)
    BY <1>4, <1>8, SortedIs
  <1>10. \A s : s \in Seq(all) => s \in Seq(S)
    BY <1>3
  <1> QED
    BY <1>1, <1>2, <1>3, <1>9, <1>10

(* The index is not cut before it is filtered: a question that a chunk has a *)
(* positive keyword score for is never left without documents by those that  *)
(* its role may not read, and no other gets into its answer                  *)
(* (BM25Retriever.retrieve, VectorStore.search and reciprocal_rank_fusion    *)
(* together), whatever the index and the limits.                             *)
THEOREM ReadableIsAlwaysFound == A!Spec => []ReadableIsFound
  <1>1. A!Init => ReadableIsFound
    BY DEF A!Init, ReadableIsFound, A!ReadableIsFound
  <1>2. ReadableIsFound /\ [A!Next]_(A!vars) => ReadableIsFound'
    <2> SUFFICES ASSUME ReadableIsFound, [A!Next]_(A!vars), stage' = "fused"
                 PROVE  ReadableIsFound'
      BY DEF ReadableIsFound, A!ReadableIsFound
    <2>1. CASE A!Retrieve
      <3>1. PICK nearest \in A!SetToSeqs(Chunk), order \in A!SetToSeqs(Chunk),
                 positive \in 0 .. A!Cardinality(Chunk), readable \in SUBSET Chunk :
               \E dense \in {A!Search(nearest, readable), <<>>} :
                  asked' = [dense |-> dense, bm25 |-> A!Keywords(order, positive, readable),
                            readable |-> readable, scored |-> A!Range(A!Take(order, positive)),
                            fusion |-> A!Fusion(dense, A!Keywords(order, positive, readable))]
        BY <2>1 DEF A!Retrieve
      <3> DEFINE bm25 == A!Keywords(order, positive, readable)
                 scored == A!Range(A!Take(order, positive))
      <3>2. PICK dense \in {A!Search(nearest, readable), <<>>} :
                  asked' = [dense |-> dense, bm25 |-> bm25, readable |-> readable,
                            scored |-> scored, fusion |-> A!Fusion(dense, bm25)]
        BY <3>1
      <3> DEFINE fusion == A!Fusion(dense, bm25)
      <3>3. /\ dense \in Seq(readable) /\ bm25 \in Seq(readable)
            /\ scored \cap readable # {} => bm25 # <<>>
        <4>1. /\ A!Search(nearest, readable) \in Seq(readable) /\ bm25 \in Seq(readable)
              /\ scored \cap readable # {} => bm25 # <<>>
          BY SearchesFind
        <4>2. <<>> \in Seq(readable)
          OBVIOUS
        <4> HIDE DEF bm25, scored
        <4> QED
          BY <3>2, <4>1, <4>2
      <3>4. IsFiniteSet(readable)
        BY SearchAssumption, FS_Subset
      <3> HIDE DEF bm25, scored
      <3>5. fusion \in Seq(readable) /\ (bm25 # <<>> => fusion # <<>>)
        BY <3>3, <3>4, FusionIs
      <3>6. asked'.readable = readable /\ asked'.scored = scored /\ asked'.fusion = fusion
        BY <3>2
      <3> HIDE DEF fusion
      <3>7. A!Range(fusion) \subseteq readable
        BY <3>5 DEF A!Range
      <3> QED
        BY <3>3, <3>5, <3>6, <3>7 DEF ReadableIsFound, A!ReadableIsFound, A!Range
    <2>2. CASE UNCHANGED A!vars
      BY <2>2 DEF A!vars, ReadableIsFound, A!ReadableIsFound, A!Range
    <2>3. ASSUME A!Next, ~A!Retrieve
          PROVE  FALSE
      BY <2>3 DEF A!Next, A!Ask, A!Refuse, A!Redirect, A!Curated, A!Correction, A!Faq, A!Foreign,
            A!Clarify, A!Begin, A!Rerank, A!RetrieveFails, A!NoChunks, A!NoPart, A!Generate,
            A!GenerateFails, A!PartFails, A!Verify, A!VerifyPart, A!Finish, A!Merge,
            A!CompoundFails, A!Deliver, A!Answered, A!Done, A!Onward
    <2> QED
      BY <2>1, <2>2, <2>3
  <1> QED
    BY <1>1, <1>2, PTL DEF A!Spec

=============================================================================
