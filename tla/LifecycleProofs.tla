--------------------------- MODULE LifecycleProofs ---------------------------
(***************************************************************************)
(* Proofs about Tickets with one worker process, and that it implements    *)
(* TicketLifecycle.                                                        *)
(*                                                                         *)
(* The theorems of TicketsProofs hold for any number of workers; these do  *)
(* not, because a second worker may move a ticket between the read of a    *)
(* handler and its write.  LInv adds to IInv that what the request under   *)
(* way has read is still so (Current).  Every transaction is then one move *)
(* of the abstract workflow (Moves, OneRow) or the closing of the tickets  *)
(* that are due (CloseRows), which is what the refinement and the action   *)
(* properties need.                                                        *)
(***************************************************************************)
EXTENDS MCTickets, TicketsProofs

OneWorker == \A v, w \in Worker : v = w

(* A row before and after a transaction, at time c: a move of the workflow, or *)
(* neither status nor deadline changes.                                        *)
Moves(tk, m, c) ==
    \/ m.status = tk.status /\ m.deadline = tk.deadline
    \/ tk.status = None /\ m.status = "raised" /\ m.deadline = None
    \/ tk.status = "raised" /\ m.status = "assigned" /\ m.deadline = None
    \/ tk.status \in {"raised", "assigned"} /\ m.status = "in_progress" /\ m.deadline = None
    \/ tk.status \in Open /\ m.status = "rejected" /\ m.deadline = None
    \/ tk.status \in Open /\ m.status = "resolved" /\ m.deadline \in CloseDelay .. c + CloseDelay
    \/ tk.status = "resolved" /\ m.status = "in_progress" /\ m.deadline = None
    \/ tk.status = "resolved" /\ m.status = "closed" /\ m.deadline \in {None, tk.deadline}

(* ... and whatever was added to its history, a person did last.               *)
ByPerson(tk, m) == m.hist = tk.hist \/ m.hist[Len(m.hist)].by \in User

(* Only tickets that were resolved have a deadline.                            *)
NoEarlyDeadline(tk) == tk.status \in Open \cup {None} => tk.deadline = None

-----------------------------------------------------------------------------
(* Rows *)

(* What recording a move makes of a row.                                       *)
LEMMA MovedIs ==
    ASSUME NEW tk \in Ticket, NEW by \in User \cup {System}, NEW old \in Status \cup {None},
           NEW new \in Status, NEW d \in Nat \cup {None}
    PROVE  LET m == Moved(tk, by, old, new, d) IN
           /\ m \in Ticket /\ m.status = new /\ m.deadline = d
           /\ m.owner = tk.owner /\ m.answered = tk.answered
           /\ m.hist[Len(m.hist)].by = by
  <1> DEFINE h == Row("status_change", by, old, new)
             m == Moved(tk, by, old, new, d)
  <1>1. h \in HistoryRow /\ h.by = by
    BY DEF Row, HistoryRow
  <1>2. m = [tk EXCEPT !.status = new, !.deadline = d, !.hist = Append(@, h)]
    BY DEF Moved
  <1> HIDE DEF h
  <1>3. /\ Append(tk.hist, h) \in Seq(HistoryRow)
        /\ Append(tk.hist, h)[Len(Append(tk.hist, h))] = h
    BY <1>1, AppendProperties DEF Ticket
  <1>4. /\ m \in Ticket /\ m.status = new /\ m.deadline = d
        /\ m.owner = tk.owner /\ m.answered = tk.answered /\ m.hist = Append(tk.hist, h)
    BY <1>2, <1>3 DEF Ticket
  <1> HIDE DEF m
  <1>5. m.hist[Len(m.hist)].by = by
    BY <1>1, <1>3, <1>4
  <1>6. QED
    BY <1>4, <1>5 DEF m

(* What a history row that records no status makes of it.                      *)
LEMMA NotedIs ==
    ASSUME NEW tk \in Ticket, NEW action \in {"assigned", "comment", "hr_response"}, NEW by \in User
    PROVE  LET m == [tk EXCEPT !.hist = Append(@, Row(action, by, None, None))] IN
           /\ m \in Ticket /\ m.status = tk.status /\ m.deadline = tk.deadline
           /\ m.owner = tk.owner /\ m.answered = tk.answered
           /\ m.hist[Len(m.hist)].by = by
  <1> DEFINE h == Row(action, by, None, None)
             m == [tk EXCEPT !.hist = Append(@, h)]
  <1>1. h \in HistoryRow /\ h.by = by
    BY DEF Row, HistoryRow
  <1> HIDE DEF h
  <1>2. /\ Append(tk.hist, h) \in Seq(HistoryRow)
        /\ Append(tk.hist, h)[Len(Append(tk.hist, h))] = h
    BY <1>1, AppendProperties DEF Ticket
  <1>3. /\ m \in Ticket /\ m.status = tk.status /\ m.deadline = tk.deadline
        /\ m.owner = tk.owner /\ m.answered = tk.answered /\ m.hist = Append(tk.hist, h)
    BY <1>2 DEF Ticket
  <1> HIDE DEF m
  <1>4. m.hist[Len(m.hist)].by = by
    BY <1>1, <1>2, <1>3
  <1>5. QED
    BY <1>3, <1>4 DEF m, h

(* The table of transitions, from a status that is not terminal.               *)
LEMMA TransitionFacts ==
    ASSUME NEW s \in Status, NEW new \in STATUS_TRANSITIONS[s]
    PROVE  /\ new \in Status
           /\ \/ s = "raised" /\ new \in {"assigned", "in_progress", "rejected"}
              \/ s = "assigned" /\ new \in {"in_progress", "resolved", "rejected"}
              \/ s = "in_progress" /\ new \in {"resolved", "rejected"}
              \/ s = "resolved" /\ new \in {"closed", "in_progress"}
  BY DEF STATUS_TRANSITIONS, Status, Open, Terminal

(* update_ticket, on the row it has read: a move, by the person who asked.     *)
LEMMA StatusPart ==
    ASSUME NEW tk \in Ticket, NEW j \in UpdateJob, NEW c \in Nat, j.now <= c,
           j.seen = tk.status, j.status \in {None, j.seen} \cup STATUS_TRANSITIONS[j.seen],
           NoEarlyDeadline(tk)
    PROVE  LET m == WithStatus(tk, j) IN
           /\ m \in Ticket /\ m.owner = tk.owner /\ m.answered = tk.answered
           /\ Moves(tk, m, c) /\ ByPerson(tk, m)
           /\ j.seen = "raised" => m.deadline = None
  <1>1. CASE j.status \in {None, j.seen}
    BY <1>1 DEF WithStatus, Moves, ByPerson, NoEarlyDeadline, Open
  <1>2. CASE j.status \notin {None, j.seen}
    <2> DEFINE d == CASE j.status = "resolved"    -> Deadline(j.now)
                      [] j.status = "in_progress" -> None
                      [] OTHER                    -> tk.deadline
               m == Moved(tk, j.user, j.seen, j.status, d)
    <2>1. WithStatus(tk, j) = m
      BY <1>2 DEF WithStatus
    <2>2. j.seen \in Status /\ j.status \in STATUS_TRANSITIONS[j.seen] /\ j.now \in Nat
      BY <1>2 DEF UpdateJob
    <2>3. Deadline(j.now) \in Nat /\ Deadline(j.now) \in CloseDelay .. c + CloseDelay
      BY <2>2, CloseDelayAssumption DEF Deadline
    <2>4. /\ j.status = "resolved" => d = Deadline(j.now)
          /\ j.status = "in_progress" => d = None
          /\ j.status \notin {"resolved", "in_progress"} => d = tk.deadline
      OBVIOUS
    <2>5. j.user \in User /\ d \in Nat \cup {None} /\ j.status \in Status
      BY <2>2, <2>3, <2>4, TransitionFacts DEF UpdateJob, User, Ticket
    <2> HIDE DEF d
    <2>6. /\ m \in Ticket /\ m.status = j.status /\ m.deadline = d /\ m.owner = tk.owner /\ m.answered = tk.answered
          /\ m.hist[Len(m.hist)].by = j.user
      BY <2>2, <2>5, MovedIs
    <2> HIDE DEF m
    <2>7. Moves(tk, m, c) /\ (j.seen = "raised" => m.deadline = None)
      BY <2>2, <2>3, <2>4, <2>6, TransitionFacts DEF Moves, Open, NoEarlyDeadline
    <2>8. QED
      BY <2>1, <2>5, <2>6, <2>7 DEF ByPerson
  <1>3. QED
    BY <1>1, <1>2

(* ... then the assignment, which moves a raised ticket.                     *)
LEMMA AssignmentPart ==
    ASSUME NEW tk \in Ticket, NEW j \in UpdateJob, j.seen = "raised" => tk.deadline = None
    PROVE  LET m == WithAssignee(tk, j) IN
           /\ m \in Ticket /\ m.owner = tk.owner /\ m.answered = tk.answered /\ ByPerson(tk, m)
           /\ \/ m.status = tk.status /\ m.deadline = tk.deadline
              \/ j.seen = "raised" /\ m.status = "assigned" /\ m.deadline = None
  <1>1. CASE j.assignee \in {None, j.seenAssigned}
    BY <1>1 DEF WithAssignee, ByPerson
  <1>2. CASE j.assignee \notin {None, j.seenAssigned}
    <2> DEFINE who == IF j.assignee = Nobody THEN None ELSE j.assignee
               a == [tk EXCEPT !.assigned = who]
               moved == IF j.assignee # Nobody /\ j.seen = "raised"
                        THEN Moved(a, j.user, "raised", "assigned", tk.deadline)
                        ELSE a
               noted == [moved EXCEPT !.hist = Append(@, Row("assigned", j.user, None, None))]
    <2>1. WithAssignee(tk, j) = noted
      BY <1>2 DEF WithAssignee
    <2>2. who \in User \cup {None} /\ j.user \in User
      BY <1>2 DEF UpdateJob, User
    <2> HIDE DEF who
    <2>3. /\ a \in Ticket /\ a.status = tk.status /\ a.deadline = tk.deadline
          /\ a.owner = tk.owner /\ a.answered = tk.answered
      BY <2>2 DEF Ticket
    <2> HIDE DEF a
    <2>4. /\ moved \in Ticket /\ moved.owner = tk.owner /\ moved.answered = tk.answered
          /\ \/ moved.status = tk.status /\ moved.deadline = tk.deadline
             \/ j.seen = "raised" /\ moved.status = "assigned" /\ moved.deadline = None
      <3>1. PICK by \in User \cup {System}, old \in Status \cup {None}, new \in Status, d \in Nat \cup {None} :
               by = j.user /\ old = "raised" /\ new = "assigned" /\ d = tk.deadline
        BY <2>2, StatusFacts DEF Ticket
      <3>9. PICK b \in Ticket : b = a
        BY <2>3
      <3> DEFINE m == Moved(b, by, old, new, d)
      <3>2. /\ m \in Ticket /\ m.status = new /\ m.deadline = d
            /\ m.owner = b.owner /\ m.answered = b.answered
            /\ m.hist[Len(m.hist)].by = by
        BY MovedIs
      <3> HIDE DEF m
      <3>3. moved = IF j.assignee # Nobody /\ j.seen = "raised" THEN m ELSE a
        BY <3>1, <3>9 DEF m
      <3>4. QED
        BY <2>3, <3>1, <3>2, <3>3, <3>9
    <2> HIDE DEF moved
    <2>5. /\ noted \in Ticket /\ noted.status = moved.status /\ noted.deadline = moved.deadline
          /\ noted.owner = moved.owner /\ noted.answered = moved.answered /\ noted.hist[Len(noted.hist)].by = j.user
      BY <2>2, <2>4, NotedIs
    <2> HIDE DEF noted
    <2>6. QED
      BY <2>1, <2>2, <2>4, <2>5 DEF ByPerson
  <1>3. QED
    BY <1>1, <1>2

(* update_ticket as a whole.                                                 *)
LEMMA UpdateMoves ==
    ASSUME NEW tk \in Ticket, NEW j \in UpdateJob, NEW c \in Nat, j.now <= c,
           j.seen = tk.status, j.status \in {None, j.seen} \cup STATUS_TRANSITIONS[j.seen],
           NoEarlyDeadline(tk)
    PROVE  LET m == WithComment(WithAssignee(WithStatus(tk, j), j), j) IN
           m.owner = tk.owner /\ m.answered = tk.answered /\ Moves(tk, m, c) /\ ByPerson(tk, m)
  <1>1. PICK n \in Ticket : n = WithStatus(tk, j) /\ n.owner = tk.owner /\ n.answered = tk.answered
                            /\ Moves(tk, n, c) /\ ByPerson(tk, n)
                            /\ (j.seen = "raised" => n.deadline = None)
    BY StatusPart
  <1>2. PICK k \in Ticket : /\ k = WithAssignee(n, j) /\ k.owner = n.owner /\ k.answered = n.answered /\ ByPerson(n, k)
                            /\ \/ k.status = n.status /\ k.deadline = n.deadline
                               \/ j.seen = "raised" /\ k.status = "assigned" /\ k.deadline = None
    BY <1>1, AssignmentPart
  <1>3. Moves(tk, k, c)
    BY <1>1, <1>2 DEF Moves
  <1>4. ByPerson(tk, k)
    BY <1>1, <1>2 DEF ByPerson
  <1>5. PICK m : m = WithComment(k, j)
    OBVIOUS
  <1>6. m.owner = k.owner /\ m.answered = k.answered /\ m.status = k.status /\ m.deadline = k.deadline /\ ByPerson(k, m)
    <2> DEFINE noted == [k EXCEPT !.hist = Append(@, Row("comment", j.user, None, None))]
    <2>1. j.user \in User
      BY DEF UpdateJob, User
    <2>2. /\ noted.status = k.status /\ noted.deadline = k.deadline
          /\ noted.owner = k.owner /\ noted.answered = k.answered /\ noted.hist[Len(noted.hist)].by = j.user
      BY <2>1, NotedIs
    <2>3. m = noted \/ m = k
      BY <1>5 DEF WithComment
    <2> HIDE DEF noted
    <2>4. QED
      BY <2>1, <2>2, <2>3 DEF ByPerson
  <1>7. Moves(tk, m, c) /\ ByPerson(tk, m)
    BY <1>3, <1>4, <1>6 DEF Moves, ByPerson
  <1>8. QED
    BY <1>1, <1>2, <1>5, <1>6, <1>7

(* hr_respond_to_ticket.                                                     *)
LEMMA AnswerMoves ==
    ASSUME NEW tk \in Ticket, NEW j \in HrRespondJob, NEW c \in Nat, j.now <= c, j.seen = tk.status
    PROVE  LET m == WithAnswer(tk, j) IN m.owner = tk.owner /\ Moves(tk, m, c) /\ ByPerson(tk, m)
  <1> DEFINE h == Row("hr_response", j.user, None, None)
             fields == [tk EXCEPT !.assigned = j.user, !.answered = TRUE]
             answered == [fields EXCEPT !.hist = Append(@, h)]
  <1>1. j.user \in User /\ j.seen \in Status /\ j.now \in Nat
    BY DEF HrRespondJob, User
  <1>2. fields \in Ticket /\ fields.owner = tk.owner /\ fields.status = tk.status /\ fields.deadline = tk.deadline
    BY <1>1 DEF Ticket
  <1>3. answered = [tk EXCEPT !.answered = TRUE, !.assigned = j.user, !.hist = Append(@, h)]
    BY DEF Ticket
  <1>4. WithAnswer(tk, j) = IF j.resolve /\ j.seen \in Open
                            THEN Moved(answered, j.user, j.seen, "resolved", Deadline(j.now))
                            ELSE answered
    BY <1>3 DEF WithAnswer
  <1>5. /\ answered \in Ticket /\ answered.owner = tk.owner /\ answered.status = tk.status /\ answered.deadline = tk.deadline
        /\ answered.hist[Len(answered.hist)].by = j.user
    <2> HIDE DEF fields
    <2> QED  BY <1>1, <1>2, NotedIs
  <1> HIDE DEF answered
  <1>6. Deadline(j.now) \in Nat /\ Deadline(j.now) \in CloseDelay .. c + CloseDelay
    BY <1>1, CloseDelayAssumption DEF Deadline
  <1> DEFINE m == Moved(answered, j.user, j.seen, "resolved", Deadline(j.now))
  <1>7. m.owner = answered.owner /\ m.status = "resolved" /\ m.deadline = Deadline(j.now) /\ m.hist[Len(m.hist)].by = j.user
    BY <1>1, <1>5, <1>6, MovedIs, StatusFacts
  <1> HIDE DEF m
  <1>8. WithAnswer(tk, j) = IF j.resolve /\ j.seen \in Open THEN m ELSE answered
    BY <1>4 DEF m
  <1>9. CASE j.resolve /\ j.seen \in Open
    BY <1>1, <1>5, <1>6, <1>7, <1>8, <1>9 DEF Moves, ByPerson
  <1>10. CASE ~(j.resolve /\ j.seen \in Open)
    BY <1>1, <1>5, <1>8, <1>10 DEF Moves, ByPerson
  <1>11. QED
    BY <1>9, <1>10

-----------------------------------------------------------------------------
(* One worker *)

(* What the request under way has read is still so.                            *)
Current(j) ==
    /\ j.op = "update" => /\ j.seen = tickets[j.ticket].status /\ j.now <= clock
                          /\ j.status \in {None, j.seen} \cup STATUS_TRANSITIONS[j.seen]
    /\ j.op = "hr_respond" => j.seen = tickets[j.ticket].status /\ j.now <= clock
    /\ j.op = "respond"    => tickets[j.ticket].status = "resolved"
    /\ j.op = "auto_close" => \A t \in j.due : t \in TicketId /\ Due(t)

(* The raiser has the answer's notification, or a worker is about to store it. *)
Told(t) ==
    LET m == <<tickets[t].owner, t, "answered">>
    IN  m \in inbox \/ \E w \in Worker : phase[w] = "mail" /\ m \in mail[w]

LInv ==
    /\ IInv
    /\ \A t \in TicketId : NoEarlyDeadline(tickets[t])
    /\ \A w \in Worker : phase[w] \in {"write", "closing"} => Current(job[w])
    /\ crashes = 0 => \A t \in TicketId : tickets[t].answered => Told(t)

(* The transactions: one row moves, or an automatic closing closes its rows.   *)
OneRow(w) ==
    \E t \in TicketId : \E m :
        /\ tickets' = [tickets EXCEPT ![t] = m]
        /\ Moves(tickets[t], m, clock) /\ ByPerson(tickets[t], m)
        /\ phase[w] \in {"idle", "write"} /\ UNCHANGED <<clock, crashes, inbox>>
        /\ m.answered => /\ tickets[t].answered \/ <<m.owner, t, "answered">> \in mail'[w]
                         /\ m.owner = tickets[t].owner
        /\ \E notes : Finish(w, notes)

CloseRows(w) ==
    \E due \in SUBSET TicketId :
        /\ tickets' = [t \in TicketId |-> IF t \in due THEN Closed(tickets[t]) ELSE tickets[t]]
        /\ \A t \in due : Due(t)
        /\ phase[w] = "closing" /\ UNCHANGED <<clock, crashes, inbox>> /\ Finish(w, {})

(* Each transaction is one move, or the closing of what is due.              *)
LEMMA InsertMoves ==
    ASSUME LInv, NEW w \in Worker, NEW u \in User, NEW t \in TicketId,
           NEW action \in {"created", "escalated"}, Insert(w, u, t, action)
    PROVE  OneRow(w)
  <1> DEFINE h == Row(action, u, None, "raised")
             m == [NoTicket EXCEPT !.owner = u, !.status = "raised", !.hist = <<h>>]
  <1>1. h.by = u /\ tickets' = [tickets EXCEPT ![t] = m] /\ \E notes : Finish(w, notes)
    BY DEF Row, Insert
  <1> HIDE DEF h
  <1>2. m.status = "raised" /\ m.deadline = None /\ m.answered = FALSE /\ m.hist = <<h>>
    BY DEF NoTicket
  <1> HIDE DEF m
  <1>3. m.hist[Len(m.hist)].by = u
    BY <1>1, <1>2
  <1>4. tickets[t].status = None /\ phase[w] = "idle" /\ UNCHANGED <<clock, crashes, inbox>>
    BY DEF Insert, Exists
  <1>5. QED
    BY <1>1, <1>2, <1>3, <1>4 DEF OneRow, Moves, ByPerson

(* What the worker that writes knows.                                          *)
LEMMA WriterKnows ==
    ASSUME LInv, NEW w \in Worker, NEW op, Writing(w, op)
    PROVE  /\ Current(job[w]) /\ job[w].op = op /\ job[w] \in Job /\ phase[w] = "write"
           /\ job[w] \in TicketJob =>
                 job[w].ticket \in TicketId /\ tickets[job[w].ticket] \in Ticket
                 /\ NoEarlyDeadline(tickets[job[w].ticket]) /\ clock \in Nat
  BY WritingFacts DEF LInv, Writing, GoodTicket, IInv, GoodRest

LEMMA UpdateWriteMoves ==
    ASSUME LInv, NEW w \in Worker, UpdateWrite(w)
    PROVE  OneRow(w)
  <1> DEFINE j == job[w]
             t == job[w].ticket
             tk == tickets[job[w].ticket]
  <1>1. j \in UpdateJob /\ j \in TicketJob /\ j.op = "update" /\ Current(j) /\ phase[w] = "write"
    BY WriterKnows, JobByOp DEF UpdateWrite, Writing, TicketJob
  <1>2. t \in TicketId /\ tk \in Ticket /\ NoEarlyDeadline(tk) /\ clock \in Nat
    BY <1>1, WriterKnows DEF UpdateWrite
  <1>3. PICK m : m = WithComment(WithAssignee(WithStatus(tk, j), j), j)
    OBVIOUS
  <1>4. m.owner = tk.owner /\ m.answered = tk.answered /\ Moves(tk, m, clock) /\ ByPerson(tk, m)
    <2>1. /\ j.now <= clock /\ j.seen = tk.status
          /\ j.status \in {None, j.seen} \cup STATUS_TRANSITIONS[j.seen]
      BY <1>1 DEF Current
    <2> HIDE DEF j, tk, t
    <2>2. QED
      BY <1>1, <1>2, <1>3, <2>1, UpdateMoves
  <1>5. /\ tickets' = [tickets EXCEPT ![t] = m] /\ UNCHANGED <<clock, crashes, inbox>>
        /\ \E notes : Finish(w, notes)
    BY <1>3 DEF UpdateWrite
  <1>6. QED
    BY <1>1, <1>2, <1>4, <1>5 DEF OneRow

LEMMA CommentWriteMoves ==
    ASSUME LInv, NEW w \in Worker, CommentWrite(w)
    PROVE  OneRow(w)
  <1> DEFINE j == job[w]
             t == job[w].ticket
             tk == tickets[job[w].ticket]
             m == [tk EXCEPT !.hist = Append(@, Row("comment", j.user, None, None))]
  <1>1. j \in CommentJob /\ j \in TicketJob /\ j.user \in User /\ phase[w] = "write"
    BY WriterKnows, JobByOp DEF CommentWrite, Writing, TicketJob, CommentJob
  <1>2. t \in TicketId /\ tk \in Ticket
    BY <1>1, WriterKnows DEF CommentWrite
  <1>3. /\ tickets' = [tickets EXCEPT ![t] = m] /\ UNCHANGED <<clock, crashes, inbox>>
        /\ Finish(w, {})
    BY <1>2 DEF CommentWrite, LInv, IInv, GoodTickets
  <1>4. /\ m.status = tk.status /\ m.deadline = tk.deadline
        /\ m.owner = tk.owner /\ m.answered = tk.answered
        /\ m.hist[Len(m.hist)].by = j.user
    BY <1>1, <1>2, NotedIs
  <1> HIDE DEF m
  <1>5. QED
    BY <1>1, <1>2, <1>3, <1>4 DEF OneRow, Moves, ByPerson

LEMMA RespondWriteMoves ==
    ASSUME LInv, NEW w \in Worker, RespondWrite(w)
    PROVE  OneRow(w)
  <1> DEFINE j == job[w]
             t == job[w].ticket
             tk == tickets[job[w].ticket]
             topic == IF j.action = "accept" THEN "accepted" ELSE "reopened"
  <1>1. j \in RespondJob /\ j \in TicketJob /\ j.user \in User /\ phase[w] = "write"
        /\ tk.status = "resolved"
    BY WriterKnows, JobByOp DEF RespondWrite, Writing, TicketJob, RespondJob, Current
  <1>2. t \in TicketId /\ tk \in Ticket
    BY <1>1, WriterKnows DEF RespondWrite
  <1>3. PICK by \in User \cup {System}, old \in Status \cup {None}, new \in Status, d \in Nat \cup {None} :
           /\ by = j.user /\ old = "resolved" /\ d = None
           /\ new = IF j.action = "accept" THEN "closed" ELSE "in_progress"
    BY <1>1, StatusFacts
  <1> DEFINE m == Moved(tk, by, old, new, d)
  <1>4. /\ tickets' = [tickets EXCEPT ![t] = m] /\ UNCHANGED <<clock, crashes, inbox>>
        /\ Finish(w, HrTeam \X {t} \X {topic})
    BY <1>3 DEF RespondWrite
  <1>5. PICK b \in Ticket : b = tk
    BY <1>2
  <1>6. LET n == Moved(b, by, old, new, d) IN
        /\ n \in Ticket /\ n.status = new /\ n.deadline = d
        /\ n.owner = b.owner /\ n.answered = b.answered
        /\ n.hist[Len(n.hist)].by = by
    BY <1>3, MovedIs
  <1>7. /\ m.status = new /\ m.deadline = d /\ m.owner = tk.owner /\ m.answered = tk.answered
        /\ m.hist[Len(m.hist)].by = by
    BY <1>5, <1>6
  <1> HIDE DEF m
  <1>8. QED
    BY <1>1, <1>2, <1>3, <1>4, <1>7 DEF OneRow, Moves, ByPerson

LEMMA HrRespondWriteMoves ==
    ASSUME LInv, NEW w \in Worker, HrRespondWrite(w)
    PROVE  OneRow(w)
  <1> DEFINE j == job[w]
             t == job[w].ticket
             tk == tickets[job[w].ticket]
             notes == {tk.owner} \X {t} \X {"answered"}
  <1>1. j \in HrRespondJob /\ j \in TicketJob /\ Current(j) /\ phase[w] = "write" /\ j.op = "hr_respond"
    BY WriterKnows, JobByOp DEF HrRespondWrite, Writing, TicketJob
  <1>2. t \in TicketId /\ tk \in Ticket /\ clock \in Nat
    BY <1>1, WriterKnows DEF HrRespondWrite
  <1>3. PICK m : m = WithAnswer(tk, j)
    OBVIOUS
  <1>4. m.owner = tk.owner /\ Moves(tk, m, clock) /\ ByPerson(tk, m)
    <2>1. j.now <= clock /\ j.seen = tk.status
      BY <1>1 DEF Current
    <2> HIDE DEF j, tk, t
    <2>2. QED
      BY <1>1, <1>2, <1>3, <2>1, AnswerMoves
  <1>5. /\ tickets' = [tickets EXCEPT ![t] = m] /\ UNCHANGED <<clock, crashes, inbox>>
        /\ Finish(w, notes)
    BY <1>3 DEF HrRespondWrite
  <1>6. <<m.owner, t, "answered">> \in mail'[w]
    <2>1. mail'[w] = notes
      BY <1>5 DEF Finish, LInv, IInv, GoodRest
    <2>2. QED
      BY <1>4, <2>1
  <1>7. QED
    BY <1>1, <1>2, <1>4, <1>5, <1>6 DEF OneRow

(* The one transaction over several rows.                                    *)
LEMMA CommitCloses ==
    ASSUME LInv, NEW w \in Worker, AutoCloseCommit(w)
    PROVE  CloseRows(w)
  <1>1. phase[w] = "closing" /\ job[w].op = "auto_close" /\ Current(job[w])
    BY DEF AutoCloseCommit, LInv, IInv, LockOnlyWhileClosing
  <1>2. job[w].due \in SUBSET TicketId /\ \A t \in job[w].due : Due(t)
    BY <1>1 DEF Current
  <1>3. QED
    BY <1>1, <1>2 DEF AutoCloseCommit, CloseRows

-----------------------------------------------------------------------------
(* Every step keeps LInv. *)

LEMMA FinishIs ==
    ASSUME OneWorker, IInv, NEW w \in Worker, NEW notes, Finish(w, notes)
    PROVE  /\ \A v \in Worker : v = w
           /\ phase'[w] \in {"idle", "mail"} /\ (notes # {} => phase'[w] = "mail")
           /\ mail'[w] = notes
  BY DEF Finish, IInv, GoodRest, OneWorker

LEMMA OneRowKeeps ==
    ASSUME OneWorker, LInv, IInv', NEW w \in Worker, OneRow(w)
    PROVE  LInv'
  <1>1. PICK t, m, notes :
           /\ t \in TicketId /\ tickets' = [tickets EXCEPT ![t] = m]
           /\ Moves(tickets[t], m, clock)
           /\ phase[w] \in {"idle", "write"} /\ UNCHANGED <<crashes, inbox>>
           /\ m.answered => /\ tickets[t].answered \/ <<m.owner, t, "answered">> \in mail'[w]
                            /\ m.owner = tickets[t].owner
           /\ Finish(w, notes)
    BY DEF OneRow
  <1>2. /\ \A v \in Worker : v = w
        /\ phase'[w] \in {"idle", "mail"} /\ (notes # {} => phase'[w] = "mail")
        /\ mail'[w] = notes
    BY <1>1, FinishIs DEF LInv
  <1>3. tickets'[t] = m /\ \A s \in TicketId \ {t} : tickets'[s] = tickets[s]
    BY <1>1 DEF LInv, IInv, GoodTickets
  <1>4. \A s \in TicketId : NoEarlyDeadline(tickets'[s])
    <2>1. NoEarlyDeadline(m)
      BY <1>1, NoneAssumption DEF LInv, NoEarlyDeadline, Moves, Open
    <2>2. QED
      BY <1>3, <2>1 DEF LInv
  <1>5. crashes' = 0 => \A s \in TicketId : tickets'[s].answered => Told(s)'
    <2> SUFFICES ASSUME crashes' = 0, NEW s \in TicketId, tickets'[s].answered PROVE Told(s)'
      OBVIOUS
    <2>1. tickets'[s].owner = tickets[s].owner
      BY <1>1, <1>3
    <2>2. tickets[s].answered => <<tickets[s].owner, s, "answered">> \in inbox
      BY <1>1, <1>2 DEF LInv, Told
    <2>3. CASE tickets[s].answered
      BY <1>1, <2>1, <2>2, <2>3 DEF Told
    <2>4. CASE ~tickets[s].answered
      <3>1. s = t /\ <<tickets'[s].owner, s, "answered">> \in notes
        BY <1>1, <1>2, <1>3, <2>4
      <3>2. phase'[w] = "mail" /\ <<tickets'[s].owner, s, "answered">> \in mail'[w]
        BY <1>2, <3>1
      <3>3. QED
        BY <3>2 DEF Told
    <2>5. QED
      BY <2>3, <2>4
  <1>6. QED
    BY <1>2, <1>4, <1>5 DEF LInv

LEMMA CloseRowsKeep ==
    ASSUME OneWorker, LInv, IInv', NEW w \in Worker, CloseRows(w)
    PROVE  LInv'
  <1>1. PICK due \in SUBSET TicketId :
           /\ tickets' = [t \in TicketId |-> IF t \in due THEN Closed(tickets[t]) ELSE tickets[t]]
           /\ phase[w] = "closing" /\ UNCHANGED <<crashes, inbox>> /\ Finish(w, {})
    BY DEF CloseRows
  <1>2. (\A v \in Worker : v = w) /\ phase'[w] \in {"idle", "mail"}
    BY <1>1, FinishIs DEF LInv
  <1>3. \A t \in TicketId :
           /\ tickets'[t].owner = tickets[t].owner /\ tickets'[t].answered = tickets[t].answered
           /\ tickets'[t].status = "closed" \/ tickets'[t] = tickets[t]
    <2> SUFFICES ASSUME NEW t \in TicketId, t \in due
                 PROVE  LET m == Closed(tickets[t]) IN
                        m.owner = tickets[t].owner /\ m.answered = tickets[t].answered
                        /\ m.status = "closed"
      BY <1>1
    <2>1. tickets[t] \in Ticket
      BY DEF LInv, IInv, GoodTickets
    <2>2. QED
      BY <2>1 DEF Closed, Moved, Ticket
  <1>4. \A t \in TicketId : NoEarlyDeadline(tickets'[t])
    BY <1>3, NoneAssumption DEF LInv, NoEarlyDeadline, Open
  <1>5. crashes' = 0 => \A s \in TicketId : tickets'[s].answered => Told(s)'
    BY <1>1, <1>2, <1>3 DEF LInv, Told
  <1>6. QED
    BY <1>2, <1>4, <1>5 DEF LInv

(* A worker reads what it needs.                                               *)
LEMMA ReceiveKeeps ==
    ASSUME OneWorker, LInv, IInv', NEW w \in Worker, Receive(w)
    PROVE  LInv' /\ (OneRow(w) \/ UNCHANGED <<tickets, clock>>)
  <1>1. ASSUME NEW j, Begin(w, j), phase[w] = "idle", Current(j)
        PROVE  LInv' /\ UNCHANGED <<tickets, clock>>
    <2>1. /\ phase'[w] = "write" /\ job'[w] = j /\ \A v \in Worker : v = w
          /\ UNCHANGED <<tickets, clock, inbox, crashes>>
      BY <1>1 DEF Begin, OneWorker, LInv, IInv, GoodRest, GoodJobs
    <2>2. Current(j)'
      BY <1>1, <2>1 DEF Current, Due
    <2>3. crashes' = 0 => \A t \in TicketId : tickets'[t].answered => Told(t)'
      BY <1>1, <2>1 DEF LInv, Told
    <2>4. QED
      BY <2>1, <2>2, <2>3 DEF LInv
  <1>2. CASE \E u \in User, t \in TicketId : CreateTicket(w, u, t) \/ EscalateFromChat(w, u, t)
    BY <1>2, InsertMoves, OneRowKeeps DEF CreateTicket, EscalateFromChat
  <1>3. CASE \E u \in Hr, t \in TicketId, s \in Status \cup {None}, a \in User \cup {None, Nobody} :
                UpdateRead(w, u, t, s, a)
    <2>1. PICK u \in Hr, t \in TicketId, s \in Status \cup {None}, a \in User \cup {None, Nobody} :
               UpdateRead(w, u, t, s, a)
      BY <1>3
    <2>2. PICK j : j = [op |-> "update", user |-> u, ticket |-> t, now |-> clock,
                        status |-> s, assignee |-> a,
                        seen |-> tickets[t].status, seenAssigned |-> tickets[t].assigned]
      OBVIOUS
    <2>3. /\ j.op = "update" /\ j.ticket = t /\ j.now = clock /\ j.status = s
          /\ j.seen = tickets[t].status
      BY <2>2
    <2>4. /\ Begin(w, j) /\ phase[w] = "idle" /\ clock \in Nat
          /\ s \in {None, tickets[t].status} \cup STATUS_TRANSITIONS[tickets[t].status]
      BY <2>1, <2>2 DEF UpdateRead, Receives, LInv, IInv, GoodRest
    <2>5. Current(j)
      BY <2>3, <2>4 DEF Current
    <2>6. QED
      BY <1>1, <2>4, <2>5
  <1>4. CASE \E u \in User, t \in TicketId : CommentRead(w, u, t)
    <2>1. PICK u \in User, t \in TicketId : CommentRead(w, u, t)
      BY <1>4
    <2>2. PICK j : j = [op |-> "comment", user |-> u, ticket |-> t]
      OBVIOUS
    <2>3. Begin(w, j) /\ phase[w] = "idle" /\ j.op = "comment"
      BY <2>1, <2>2 DEF CommentRead, Receives
    <2>4. Current(j)
      BY <2>3 DEF Current
    <2>5. QED
      BY <1>1, <2>3, <2>4
  <1>5. CASE \E t \in TicketId, action \in {"accept", "reject"} : RespondRead(w, t, action)
    <2>1. PICK t \in TicketId, action \in {"accept", "reject"} : RespondRead(w, t, action)
      BY <1>5
    <2>2. PICK j : j = [op |-> "respond", user |-> tickets[t].owner, ticket |-> t, action |-> action]
      OBVIOUS
    <2>3. Begin(w, j) /\ phase[w] = "idle" /\ tickets[t].status = "resolved"
      BY <2>1, <2>2 DEF RespondRead, Receives
    <2>4. Current(j)
      BY <2>2, <2>3 DEF Current
    <2>5. QED
      BY <1>1, <2>3, <2>4
  <1>6. CASE \E u \in Hr, t \in TicketId, resolve \in BOOLEAN : HrRespondRead(w, u, t, resolve)
    <2>1. PICK u \in Hr, t \in TicketId, resolve \in BOOLEAN : HrRespondRead(w, u, t, resolve)
      BY <1>6
    <2>2. PICK j : j = [op |-> "hr_respond", user |-> u, ticket |-> t, now |-> clock,
                        resolve |-> resolve, seen |-> tickets[t].status]
      OBVIOUS
    <2>3. Begin(w, j) /\ phase[w] = "idle" /\ clock \in Nat
      BY <2>1, <2>2 DEF HrRespondRead, Receives, LInv, IInv, GoodRest
    <2>4. Current(j)
      BY <2>2, <2>3 DEF Current
    <2>5. QED
      BY <1>1, <2>3, <2>4
  <1>7. CASE AutoCloseRead(w)
    <2>1. PICK j : j = [op |-> "auto_close", due |-> {t \in TicketId : Due(t)}]
      OBVIOUS
    <2>2. Begin(w, j) /\ phase[w] = "idle"
      BY <1>7, <2>1 DEF AutoCloseRead
    <2>3. Current(j)
      BY <2>1 DEF Current
    <2>4. QED
      BY <1>1, <2>2, <2>3
  <1>8. QED
    BY <1>2, <1>3, <1>4, <1>5, <1>6, <1>7 DEF Receive

(* The steps of a worker that write no row.                                    *)
LEMMA QuietKeeps ==
    ASSUME OneWorker, LInv, IInv', NEW w \in Worker,
           \/ AutoCloseOpen(w) \/ NestedNotification(w) \/ Deliver(w) \/ Crash(w)
           \/ DatabaseLocked(w) \/ NotificationLost(w)
    PROVE  LInv' /\ UNCHANGED <<tickets, clock>>
  <1>1. \A v \in Worker : v = w
    BY DEF OneWorker
  <1>2. writer # None => phase[w] = "closing"
    BY <1>1 DEF LInv, IInv, GoodRest, LockOnlyWhileClosing
  <1>3. ~DatabaseLocked(w) /\ ~NotificationLost(w)
    BY <1>2 DEF DatabaseLocked, NotificationLost
  <1>4. UNCHANGED <<tickets, clock>>
    BY <1>3 DEF AutoCloseOpen, NestedNotification, Deliver, Crash
  <1>5. \A j : Current(j) => Current(j)'
    BY <1>4 DEF Current, Due
  <1>6. CASE AutoCloseOpen(w) \/ NestedNotification(w)
    <2>1. /\ UNCHANGED <<job, crashes>> /\ inbox \subseteq inbox'
          /\ phase[w] \in {"write", "closing"} /\ phase'[w] = "closing"
      BY <1>6 DEF AutoCloseOpen, NestedNotification, Writing, LInv, IInv, GoodRest
    <2>2. crashes' = 0 => \A t \in TicketId : tickets'[t].answered => Told(t)'
      BY <1>1, <1>4, <2>1 DEF LInv, Told
    <2>3. QED
      BY <1>1, <1>4, <1>5, <2>1, <2>2 DEF LInv
  <1>7. CASE Deliver(w)
    <2>1. PICK m \in mail[w] : inbox' = inbox \cup {m} /\ Finish(w, mail[w] \ {m}) /\ UNCHANGED crashes
      BY <1>7 DEF Deliver
    <2>2. /\ phase'[w] \in {"idle", "mail"} /\ (mail[w] \ {m} # {} => phase'[w] = "mail")
          /\ mail'[w] = mail[w] \ {m}
      BY <2>1, FinishIs DEF LInv
    <2>3. \A x : x \in inbox \/ x \in mail[w] =>
             x \in inbox' \/ (phase'[w] = "mail" /\ x \in mail'[w])
      BY <2>1, <2>2
    <2>4. crashes' = 0 => \A t \in TicketId : tickets'[t].answered => Told(t)'
      BY <1>1, <1>4, <2>1, <2>3 DEF LInv, Told
    <2>5. QED
      BY <1>1, <1>4, <2>2, <2>4 DEF LInv
  <1>8. CASE Crash(w)
    <2>1. Finish(w, {}) /\ crashes' # 0
      BY <1>8 DEF Crash, LInv, IInv, GoodRest
    <2>2. phase'[w] \in {"idle", "mail"}
      BY <2>1, FinishIs DEF LInv
    <2>3. QED
      BY <1>1, <1>4, <2>1, <2>2 DEF LInv
  <1>9. QED
    BY <1>3, <1>4, <1>6, <1>7, <1>8

LEMMA TickKeeps ==
    ASSUME LInv, IInv', Tick
    PROVE  LInv'
  <1>1. /\ clock \in Nat /\ clock' = clock + 1
        /\ UNCHANGED <<tickets, inbox, crashes, phase, job, mail>>
    BY DEF Tick, LInv, IInv, GoodRest
  <1>2. \A t \in TicketId : Due(t) => Due(t)'
    <2> SUFFICES ASSUME NEW t \in TicketId, Due(t) PROVE Due(t)'
      OBVIOUS
    <2>1. tickets[t].deadline \in Nat
      BY DEF Due, LInv, IInv, GoodTickets, Ticket
    <2>2. QED
      BY <1>1, <2>1 DEF Due
  <1>3. \A w \in Worker : Current(job[w]) => Current(job[w])'
    <2> SUFFICES ASSUME NEW w \in Worker, Current(job[w]) PROVE Current(job[w])'
      OBVIOUS
    <2>1. (job[w].op \in {"update", "hr_respond"}) => job[w].now \in Nat
      BY JobByOp DEF LInv, IInv, GoodJobs, UpdateJob, HrRespondJob
    <2>2. QED
      BY <1>1, <1>2, <2>1 DEF Current
  <1>4. crashes' = 0 => \A t \in TicketId : tickets'[t].answered => Told(t)'
    BY <1>1 DEF LInv, Told
  <1>5. QED
    BY <1>1, <1>3, <1>4 DEF LInv

LEMMA ProceedKeeps ==
    ASSUME OneWorker, LInv, IInv', NEW w \in Worker, Proceed(w)
    PROVE  LInv' /\ (OneRow(w) \/ CloseRows(w) \/ UNCHANGED <<tickets, clock>>)
  <1>1. CASE UpdateWrite(w) \/ CommentWrite(w) \/ RespondWrite(w) \/ HrRespondWrite(w)
    BY <1>1, UpdateWriteMoves, CommentWriteMoves, RespondWriteMoves, HrRespondWriteMoves, OneRowKeeps
  <1>2. CASE AutoCloseCommit(w)
    BY <1>2, CommitCloses, CloseRowsKeep
  <1>3. CASE \/ AutoCloseOpen(w) \/ NestedNotification(w) \/ Deliver(w)
             \/ DatabaseLocked(w) \/ NotificationLost(w)
    BY <1>3, QuietKeeps
  <1>4. QED
    BY <1>1, <1>2, <1>3 DEF Proceed

(* With one worker every step keeps LInv.                                    *)
LEMMA LStep ==
    ASSUME OneWorker, LInv, [Next]_vars
    PROVE  /\ LInv'
           /\ \/ \E w \in Worker : OneRow(w) \/ CloseRows(w)
              \/ UNCHANGED tickets /\ clock' \in {clock, clock + 1}
  <1>1. IInv'
    BY NextInv DEF LInv
  <1>2. CASE Tick
    BY <1>1, <1>2, TickKeeps DEF Tick
  <1>3. CASE \E w \in Worker : Proceed(w) \/ Receive(w) \/ Crash(w)
    BY <1>1, <1>3, ProceedKeeps, ReceiveKeeps, QuietKeeps
  <1>4. CASE UNCHANGED vars
    BY <1>1, <1>4 DEF LInv, vars, Current, Due, Told
  <1>5. QED
    BY <1>2, <1>3, <1>4 DEF Next

(* LInv holds when the program starts.                                       *)
LEMMA LInit == Init => LInv
  <1> SUFFICES ASSUME Init PROVE LInv
    OBVIOUS
  <1>1. IInv
    BY InitInv
  <1>2. \A t \in TicketId : tickets[t].deadline = None /\ tickets[t].answered = FALSE
    BY DEF Init, NoTicket
  <1>3. \A w \in Worker : phase[w] = "idle"
    BY DEF Init
  <1>4. QED
    BY <1>1, <1>2, <1>3 DEF LInv, NoEarlyDeadline

(* What happens to a row, whichever step is taken.                             *)
LEMMA RowStep ==
    ASSUME OneWorker, LInv, [Next]_vars, NEW t \in TicketId
    PROVE  \/ Moves(tickets[t], tickets'[t], clock) /\ ByPerson(tickets[t], tickets'[t])
           \/ Due(t) /\ tickets'[t] = Closed(tickets[t])
  <1>1. CASE UNCHANGED tickets
    BY <1>1 DEF Moves, ByPerson
  <1>2. CASE \E w \in Worker : OneRow(w)
    <2>1. PICK s, m : /\ s \in TicketId /\ tickets' = [tickets EXCEPT ![s] = m]
                      /\ Moves(tickets[s], m, clock) /\ ByPerson(tickets[s], m)
      BY <1>2 DEF OneRow
    <2>2. tickets'[s] = m /\ (t # s => tickets'[t] = tickets[t])
      BY <2>1 DEF LInv, IInv, GoodTickets
    <2>3. CASE t = s
      BY <2>1, <2>2, <2>3
    <2>4. CASE t # s
      BY <2>2, <2>4 DEF Moves, ByPerson
    <2>5. QED
      BY <2>3, <2>4
  <1>3. CASE \E w \in Worker : CloseRows(w)
    BY <1>3 DEF CloseRows, Moves, ByPerson
  <1>4. QED
    BY <1>1, <1>2, <1>3, LStep

-----------------------------------------------------------------------------
(* Theorems *)

(* With one worker process what a request has read is so when it writes, only  *)
(* tickets that were resolved have a deadline, and an answer's notification    *)
(* is stored or about to be.                                                   *)
THEOREM ReadsStayCurrent == OneWorker => (Spec => []LInv)
  <1> SUFFICES ASSUME OneWorker PROVE Spec => []LInv
    OBVIOUS
  <1>1. LInv /\ [Next]_vars => LInv'
    BY LStep
  <1>2. QED
    BY <1>1, LInit, PTL DEF Spec

(* With one worker process a ticket that is closed or rejected stays so.       *)
THEOREM TerminalStays == OneWorker => (Spec => TerminalIsFinal)
  <1> SUFFICES ASSUME OneWorker PROVE Spec => TerminalIsFinal
    OBVIOUS
  <1>1. ASSUME LInv, [Next]_vars, NEW t \in TicketId, tickets[t].status \in Terminal
        PROVE  tickets'[t].status = tickets[t].status
    BY <1>1, RowStep, NoneAssumption DEF Terminal, Moves, Open, Due
  <1>2. LInv /\ [Next]_vars =>
          [\A t \in TicketId : tickets[t].status \in Terminal =>
              tickets'[t].status = tickets[t].status]_tickets
    BY <1>1
  <1>3. QED
    BY <1>2, ReadsStayCurrent, PTL DEF Spec, TerminalIsFinal

(* With one worker process the system closes only tickets that are, when it    *)
(* does, resolved and past their deadline.                                     *)
THEOREM OnlyOverdueAreClosed == OneWorker => (Spec => AutoClosesOnlyOverdue)
  <1> SUFFICES ASSUME OneWorker PROVE Spec => AutoClosesOnlyOverdue
    OBVIOUS
  <1>1. ASSUME LInv, [Next]_vars, NEW t \in TicketId,
               tickets'[t].hist # tickets[t].hist,
               tickets'[t].hist[Len(tickets'[t].hist)].by = System
        PROVE  Overdue(tickets[t])
    BY <1>1, RowStep, RolesAssumption DEF ByPerson, Due, Overdue
  <1>2. LInv /\ [Next]_vars =>
          [\A t \in TicketId :
              LET h == tickets'[t].hist IN
              (h # tickets[t].hist /\ h[Len(h)].by = System) => Overdue(tickets[t])]_tickets
    BY <1>1
  <1>3. QED
    BY <1>2, ReadsStayCurrent, PTL DEF Spec, AutoClosesOnlyOverdue

(* With one worker process, and without a crash, whoever raised a ticket that  *)
(* HR answered has been told once the worker is idle.                          *)
THEOREM AnswersAreAnnounced == OneWorker => (Spec => []AnswerIsAnnounced)
  <1> SUFFICES ASSUME OneWorker PROVE Spec => []AnswerIsAnnounced
    OBVIOUS
  <1>1. LInv => AnswerIsAnnounced
    BY DEF LInv, Told, AnswerIsAnnounced
  <1>2. QED
    BY <1>1, ReadsStayCurrent, PTL

(* With one worker process the handlers implement the abstract workflow: the   *)
(* table's statuses and deadlines change by its moves and by nothing else.     *)
THEOREM WorkflowIsImplemented == OneWorker => (Spec => ImplementsLifecycle)
  <1> SUFFICES ASSUME OneWorker PROVE Spec => ImplementsLifecycle
    OBVIOUS
  <1> DEFINE status == [t \in TicketId |-> tickets[t].status]
             deadline == [t \in TicketId |-> tickets[t].deadline]
  <1>1. Init => Lifecycle!Init
    BY DEF Init, NoTicket, Lifecycle!Init
  <1>2. ASSUME LInv, [Next]_vars PROVE [Lifecycle!Next]_(Lifecycle!vars)
    <2>1. CASE UNCHANGED tickets /\ clock' \in {clock, clock + 1}
      BY <2>1 DEF Lifecycle!Next, Lifecycle!Tick, Lifecycle!vars
    <2>2. CASE \E w \in Worker : OneRow(w)
      <3>1. PICK s, m : /\ s \in TicketId /\ tickets' = [tickets EXCEPT ![s] = m]
                        /\ Moves(tickets[s], m, clock) /\ UNCHANGED clock
        BY <2>2 DEF OneRow
      <3>2. tickets'[s] = m /\ \A t \in TicketId \ {s} : tickets'[t] = tickets[t]
        BY <3>1, <1>2 DEF LInv, IInv, GoodTickets
      <3>3. status' = [status EXCEPT ![s] = m.status] /\ deadline' = [deadline EXCEPT ![s] = m.deadline]
        BY <3>2
      <3>4. status[s] = tickets[s].status /\ deadline[s] = tickets[s].deadline
        BY <3>1
      <3>5. ASSUME NEW from, tickets[s].status \in from
            PROVE  Lifecycle!Move(s, from, m.status, m.deadline)
        BY <3>1, <3>3, <3>4, <3>5 DEF Lifecycle!Move
      <3>6. CASE m.status = tickets[s].status /\ m.deadline = tickets[s].deadline
        <4>1. status' = status /\ deadline' = deadline
          BY <3>2, <3>6
        <4>2. QED
          BY <3>1, <4>1 DEF Lifecycle!vars
      <3> HIDE DEF status, deadline
      <3>7. CASE ~(m.status = tickets[s].status /\ m.deadline = tickets[s].deadline)
        <4>1. \/ Lifecycle!Raise(s) \/ Lifecycle!Assign(s) \/ Lifecycle!Work(s) \/ Lifecycle!Reject(s)
              \/ Lifecycle!Resolve(s) \/ Lifecycle!Reopen(s) \/ Lifecycle!Close(s)
          BY <3>1, <3>4, <3>5, <3>7
             DEF Moves, Open, Lifecycle!Raise, Lifecycle!Assign, Lifecycle!Work, Lifecycle!Reject,
                 Lifecycle!Resolve, Lifecycle!Reopen, Lifecycle!Close, status, deadline
        <4>2. QED
          BY <3>1, <4>1 DEF Lifecycle!Next
      <3>8. QED
        BY <3>6, <3>7
    <2>3. CASE \E w \in Worker : CloseRows(w)
      <3>1. PICK due \in SUBSET TicketId :
               /\ tickets' = [t \in TicketId |-> IF t \in due THEN Closed(tickets[t]) ELSE tickets[t]]
               /\ \A t \in due : Due(t)
               /\ UNCHANGED clock
        BY <2>3 DEF CloseRows
      <3>2. \A t \in due : Closed(tickets[t]).status = "closed"
                           /\ Closed(tickets[t]).deadline = tickets[t].deadline
        <4> SUFFICES ASSUME NEW t \in due
                     PROVE  Closed(tickets[t]).status = "closed"
                            /\ Closed(tickets[t]).deadline = tickets[t].deadline
          OBVIOUS
        <4>1. tickets[t] \in Ticket
          BY <1>2 DEF LInv, IInv, GoodTickets
        <4>2. QED
          BY <4>1 DEF Closed, Moved, Ticket
      <3>3. /\ status' = [t \in TicketId |-> IF t \in due THEN "closed" ELSE status[t]]
            /\ deadline' = deadline
        BY <3>1, <3>2
      <3>4. Lifecycle!AutoClose(due)
        BY <3>1, <3>3 DEF Due, Lifecycle!AutoClose
      <3>5. QED
        BY <3>4 DEF Lifecycle!Next
    <2>4. QED
      BY <1>2, <2>1, <2>2, <2>3, LStep
  <1>3. LInv /\ [Next]_vars => [Lifecycle!Next]_(Lifecycle!vars)
    BY <1>2
  <1>4. QED
    BY <1>1, <1>3, ReadsStayCurrent, PTL DEF Spec, ImplementsLifecycle, Lifecycle!Spec

=============================================================================
