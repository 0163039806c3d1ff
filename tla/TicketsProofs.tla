--------------------------- MODULE TicketsProofs ---------------------------
(***************************************************************************)
(* Proofs about Tickets, for any number of workers, tickets and users, any *)
(* deadline, with and without crashes.                                     *)
(*                                                                         *)
(* None of the invariants is inductive alone: a notification is addressed  *)
(* to the raiser of the ticket a worker is busy with, so that ticket must  *)
(* exist and have a raiser; who settles a ticket depends on what the       *)
(* requests under way were entitled to when they were read.  IInv has one  *)
(* predicate on rows, GoodTicket, one on the requests under way, and the   *)
(* discipline of the write lock.  The lemmas on rows say that every write  *)
(* of every handler turns a good row into a good row, whatever happened to *)
(* it since it was read.                                                   *)
(***************************************************************************)
EXTENDS Tickets, SequenceTheorems, TLAPS

GoodTicket(tk) ==
    /\ tk \in Ticket
    /\ tk.status # None => tk.owner \in User /\ EndsInStatus(tk)
    /\ tk.status = "resolved" => tk.deadline \in Nat
    /\ RightlySettled(tk)

(* A request under way is about tickets that exist, and entitled to its move; *)
(* T is the table.                                                            *)
GoodJob(j, T) ==
    /\ j \in Job
    /\ j \in TicketJob => T[j.ticket].status # None
    /\ j \in AutoCloseJob => \A t \in j.due : T[t].status # None
    /\ j \in UpdateJob /\ j.status \in Terminal /\ j.status # j.seen => j.user \in HrHead
    /\ j \in RespondJob => j.user = T[j.ticket].owner

GoodTickets == tickets \in [TicketId -> Ticket] /\ \A t \in TicketId : GoodTicket(tickets[t])
GoodJobs    == job \in [Worker -> Job] /\ \A w \in Worker : GoodJob(job[w], tickets)
GoodRest ==
    /\ inbox \subseteq Notification
    /\ clock \in Nat /\ crashes \in Nat
    /\ writer \in Worker \cup {None}
    /\ phase \in [Worker -> {"idle", "write", "closing", "mail"}]
    /\ mail \in [Worker -> SUBSET Notification]

(* Only a worker in the middle of an automatic closing holds the write lock   *)
(* beyond a step.                                                             *)
LockOnlyWhileClosing ==
    /\ \A w \in Worker : phase[w] = "closing" <=> writer = w
    /\ \A w \in Worker : phase[w] = "closing" => job[w].op = "auto_close"

IInv == GoodTickets /\ GoodJobs /\ GoodRest /\ LockOnlyWhileClosing

-----------------------------------------------------------------------------
(* Rows *)

(* Recording a move leaves a good row good, if who makes it may make it. *)
LEMMA MovedGood ==
    ASSUME NEW tk, GoodTicket(tk), tk.status # None,
           NEW by \in User \cup {System}, NEW old \in Status \cup {None},
           NEW new \in Status, NEW d \in Nat \cup {None},
           new = "resolved" => d \in Nat,
           new = "closed"   => by \in HrHead \cup {tk.owner, System},
           new = "rejected" => by \in HrHead
    PROVE  LET m == Moved(tk, by, old, new, d)
           IN  GoodTicket(m) /\ m.status = new /\ m.owner = tk.owner
  <1> DEFINE h == Row("status_change", by, old, new)
             m == Moved(tk, by, old, new, d)
  <1>1. /\ h \in HistoryRow
        /\ h.action = "status_change" /\ h.new = new /\ h.by = by
    BY DEF Row, HistoryRow
  <1>2. tk \in Ticket /\ tk.hist \in Seq(HistoryRow)
    BY DEF GoodTicket, Ticket
  <1>3. m = [tk EXCEPT !.status = new, !.deadline = d, !.hist = Append(@, h)]
    BY DEF Moved
  <1> HIDE DEF h
  <1>4. /\ Append(tk.hist, h) \in Seq(HistoryRow)
        /\ Len(Append(tk.hist, h)) = Len(tk.hist) + 1
        /\ \A i \in 1 .. Len(tk.hist) : Append(tk.hist, h)[i] = tk.hist[i]
        /\ Append(tk.hist, h)[Len(tk.hist) + 1] = h
    BY <1>1, <1>2, AppendProperties
  <1>5. /\ m \in Ticket /\ m.status = new /\ m.owner = tk.owner
        /\ m.deadline = d /\ m.hist = Append(tk.hist, h)
    BY <1>2, <1>3, <1>4 DEF Ticket
  <1> HIDE DEF m
  <1>6. DOMAIN m.hist = 1 .. Len(tk.hist) + 1 /\ Len(tk.hist) \in Nat
    BY <1>2, <1>4, <1>5
  <1>7. EndsInStatus(m)
    BY <1>1, <1>4, <1>5, <1>6 DEF EndsInStatus, StatusActions
  <1>8. RightlySettled(m)
    <2> SUFFICES ASSUME NEW i \in DOMAIN m.hist
                 PROVE  /\ m.hist[i].new = "closed" => m.hist[i].by \in HrHead \cup {m.owner, System}
                        /\ m.hist[i].new = "rejected" => m.hist[i].by \in HrHead
      BY DEF RightlySettled
    <2>1. CASE i = Len(tk.hist) + 1
      BY <2>1, <1>1, <1>4, <1>5
    <2>2. CASE i \in 1 .. Len(tk.hist)
      <3>1. i \in DOMAIN tk.hist /\ m.hist[i] = tk.hist[i]
        BY <2>2, <1>2, <1>4, <1>5
      <3>2. QED
        BY <3>1, <1>5 DEF GoodTicket, RightlySettled
    <2>3. QED
      BY <2>1, <2>2, <1>6
  <1>9. m.owner \in User
    BY <1>5 DEF GoodTicket
  <1>10. GoodTicket(m) /\ m.status = new /\ m.owner = tk.owner
    BY <1>5, <1>7, <1>8, <1>9 DEF GoodTicket
  <1>11. QED
    BY <1>10 DEF m

(* A history row that records no status leaves a good row good. *)
LEMMA NotedGood ==
    ASSUME NEW tk, GoodTicket(tk), tk.status # None,
           NEW action \in {"assigned", "comment", "hr_response"}, NEW by \in User
    PROVE  LET m == [tk EXCEPT !.hist = Append(@, Row(action, by, None, None))]
           IN  /\ GoodTicket(m) /\ m.status = tk.status /\ m.owner = tk.owner
               /\ m.assigned = tk.assigned /\ m.deadline = tk.deadline
  <1> DEFINE h == Row(action, by, None, None)
             m == [tk EXCEPT !.hist = Append(@, h)]
  <1>1. /\ h \in HistoryRow
        /\ h.action = action /\ h.new = None
    BY DEF Row, HistoryRow
  <1>2. tk \in Ticket /\ tk.hist \in Seq(HistoryRow)
    BY DEF GoodTicket, Ticket
  <1> HIDE DEF h
  <1>3. /\ Append(tk.hist, h) \in Seq(HistoryRow)
        /\ Len(Append(tk.hist, h)) = Len(tk.hist) + 1
        /\ \A i \in 1 .. Len(tk.hist) : Append(tk.hist, h)[i] = tk.hist[i]
        /\ Append(tk.hist, h)[Len(tk.hist) + 1] = h
    BY <1>1, <1>2, AppendProperties
  <1>4. /\ m \in Ticket /\ m.status = tk.status /\ m.owner = tk.owner
        /\ m.assigned = tk.assigned
        /\ m.deadline = tk.deadline /\ m.hist = Append(tk.hist, h)
    BY <1>2, <1>3 DEF Ticket
  <1> HIDE DEF m
  <1>5. /\ DOMAIN m.hist = 1 .. Len(tk.hist) + 1 /\ Len(tk.hist) \in Nat
        /\ DOMAIN tk.hist = 1 .. Len(tk.hist)
    BY <1>2, <1>3, <1>4
  <1>6. EndsInStatus(m)
    <2>1. PICK i \in DOMAIN tk.hist :
              /\ tk.hist[i].action \in StatusActions
              /\ tk.hist[i].new = tk.status
              /\ \A j \in DOMAIN tk.hist : j > i => tk.hist[j].action \notin StatusActions
      BY DEF GoodTicket, EndsInStatus
    <2>2. \A j \in DOMAIN m.hist : j > i => m.hist[j].action \notin StatusActions
      BY <2>1, <1>1, <1>3, <1>4, <1>5 DEF StatusActions
    <2>3. QED
      BY <2>1, <2>2, <1>3, <1>4, <1>5 DEF EndsInStatus
  <1>7. RightlySettled(m)
    <2> SUFFICES ASSUME NEW i \in DOMAIN m.hist
                 PROVE  /\ m.hist[i].new = "closed" => m.hist[i].by \in HrHead \cup {m.owner, System}
                        /\ m.hist[i].new = "rejected" => m.hist[i].by \in HrHead
      BY DEF RightlySettled
    <2>1. CASE i = Len(tk.hist) + 1
      BY <2>1, <1>1, <1>3, <1>4, NoneAssumption
    <2>2. CASE i \in 1 .. Len(tk.hist)
      <3>1. i \in DOMAIN tk.hist /\ m.hist[i] = tk.hist[i]
        BY <2>2, <1>2, <1>3, <1>4
      <3>2. QED
        BY <3>1, <1>4 DEF GoodTicket, RightlySettled
    <2>3. QED
      BY <2>1, <2>2, <1>5
  <1>8. /\ GoodTicket(m) /\ m.status = tk.status /\ m.owner = tk.owner
         /\ m.assigned = tk.assigned /\ m.deadline = tk.deadline
    BY <1>4, <1>6, <1>7 DEF GoodTicket
  <1>9. QED
    BY <1>8 DEF m, h

(* Neither does writing assigned_to or hr_response. *)
LEMMA FieldsGood ==
    ASSUME NEW tk, GoodTicket(tk), NEW a \in User \cup {None}, NEW b \in BOOLEAN
    PROVE  LET m == [tk EXCEPT !.assigned = a, !.answered = b]
           IN  /\ GoodTicket(m) /\ m.status = tk.status /\ m.owner = tk.owner
               /\ m.deadline = tk.deadline
  <1> DEFINE m == [tk EXCEPT !.assigned = a, !.answered = b]
  <1>1. /\ m \in Ticket /\ m.status = tk.status /\ m.owner = tk.owner
        /\ m.deadline = tk.deadline /\ m.hist = tk.hist
    BY DEF GoodTicket, Ticket
  <1> HIDE DEF m
  <1>2. EndsInStatus(tk) => EndsInStatus(m)
    BY <1>1 DEF EndsInStatus
  <1>3. RightlySettled(m)
    BY <1>1 DEF RightlySettled, GoodTicket
  <1>4. /\ GoodTicket(m) /\ m.status = tk.status /\ m.owner = tk.owner
        /\ m.deadline = tk.deadline
    BY <1>1, <1>2, <1>3 DEF GoodTicket
  <1>5. QED
    BY <1>4 DEF m

-----------------------------------------------------------------------------
(* The writes of the handlers, each for a row that need not be the row read. *)

LEMMA StatusFacts ==
    /\ None \notin Status /\ {"raised", "assigned", "in_progress", "resolved"} \subseteq Status
    /\ {"closed", "rejected"} = Terminal /\ Terminal \subseteq Status
  BY NoneAssumption DEF Status, Open, Terminal

LEMMA JobByOp ==
    ASSUME NEW j \in Job
    PROVE  /\ j.op = "update"     => j \in UpdateJob
           /\ j.op = "comment"    => j \in CommentJob
           /\ j.op = "respond"    => j \in RespondJob
           /\ j.op = "hr_respond" => j \in HrRespondJob
           /\ j.op = "auto_close" => j \in AutoCloseJob
  BY DEF Job, NoJob, TicketJob, UpdateJob, CommentJob, RespondJob, HrRespondJob, AutoCloseJob

LEMMA WithStatusGood ==
    ASSUME NEW tk, GoodTicket(tk), tk.status # None, NEW j \in UpdateJob,
           j.status \in Terminal /\ j.status # j.seen => j.user \in HrHead
    PROVE  LET m == WithStatus(tk, j)
           IN  GoodTicket(m) /\ m.status # None /\ m.owner = tk.owner
  <1>1. CASE j.status \in {None, j.seen}
    BY <1>1 DEF WithStatus
  <1>2. CASE j.status \notin {None, j.seen}
    <2> DEFINE d == CASE j.status = "resolved"    -> Deadline(j.now)
                      [] j.status = "in_progress" -> None
                      [] OTHER                    -> tk.deadline
    <2>1. d \in Nat \cup {None} /\ (j.status = "resolved" => d \in Nat)
      BY CloseDelayAssumption DEF Deadline, GoodTicket, Ticket, UpdateJob
    <2>2. WithStatus(tk, j) = Moved(tk, j.user, j.seen, j.status, d)
      BY <1>2 DEF WithStatus
    <2>3. j.user \in User /\ j.seen \in Status /\ j.status \in Status
      BY <1>2 DEF UpdateJob, User
    <2> HIDE DEF d
    <2>4. j.status \in {"closed", "rejected"} => j.user \in HrHead
      BY <1>2, StatusFacts
    <2>5. LET m == Moved(tk, j.user, j.seen, j.status, d)
          IN  GoodTicket(m) /\ m.status = j.status /\ m.owner = tk.owner
      BY <2>1, <2>3, <2>4, MovedGood
    <2>6. QED
      BY <2>2, <2>3, <2>5, StatusFacts
  <1>3. QED
    BY <1>1, <1>2

LEMMA WithAssigneeGood ==
    ASSUME NEW tk, GoodTicket(tk), tk.status # None, NEW j \in UpdateJob
    PROVE  LET m == WithAssignee(tk, j)
           IN  GoodTicket(m) /\ m.status # None /\ m.owner = tk.owner
  <1>1. CASE j.assignee \in {None, j.seenAssigned}
    BY <1>1 DEF WithAssignee
  <1>2. CASE j.assignee \notin {None, j.seenAssigned}
    <2> DEFINE who == IF j.assignee = Nobody THEN None ELSE j.assignee
               assigned == [tk EXCEPT !.assigned = who]
               moved == IF j.assignee # Nobody /\ j.seen = "raised"
                        THEN Moved(assigned, j.user, "raised", "assigned", tk.deadline)
                        ELSE assigned
               noted == [moved EXCEPT !.hist = Append(@, Row("assigned", j.user, None, None))]
    <2>1. WithAssignee(tk, j) = noted
      BY <1>2 DEF WithAssignee
    <2>2. who \in User \cup {None} /\ j.user \in User
      BY <1>2 DEF UpdateJob, User
    <2>3. assigned = [tk EXCEPT !.assigned = who, !.answered = tk.answered] /\ tk.answered \in BOOLEAN
      BY DEF GoodTicket, Ticket
    <2> HIDE DEF who
    <2>4. GoodTicket(assigned) /\ assigned.status = tk.status /\ assigned.owner = tk.owner
      BY <2>2, <2>3, FieldsGood
    <2> HIDE DEF assigned
    <2>5. GoodTicket(moved) /\ moved.status # None /\ moved.owner = tk.owner
      <3> DEFINE m == Moved(assigned, j.user, "raised", "assigned", tk.deadline)
      <3>1. /\ tk.deadline \in Nat \cup {None} /\ assigned.status # None
            /\ j.user \in User \cup {System}
            /\ "raised" \in Status \cup {None} /\ "assigned" \in Status
        BY <2>2, <2>4, StatusFacts DEF GoodTicket, Ticket
      <3>2. GoodTicket(m) /\ m.status = "assigned" /\ m.owner = assigned.owner
        BY <2>2, <2>4, <3>1, MovedGood
      <3> HIDE DEF m
      <3>3. moved \in {m, assigned}
        BY DEF m
      <3>4. QED
        BY <2>4, <3>2, <3>3, NoneAssumption
    <2> HIDE DEF moved
    <2>6. GoodTicket(noted) /\ noted.status # None /\ noted.owner = tk.owner
      BY <2>2, <2>5, NotedGood
    <2>7. QED
      BY <2>1, <2>6
  <1>3. QED
    BY <1>1, <1>2

LEMMA WithCommentGood ==
    ASSUME NEW tk, GoodTicket(tk), tk.status # None, NEW j \in UpdateJob
    PROVE  LET m == WithComment(tk, j)
           IN  GoodTicket(m) /\ m.status # None /\ m.owner = tk.owner
  <1> DEFINE noted == [tk EXCEPT !.hist = Append(@, Row("comment", j.user, None, None))]
  <1>1. j.user \in User
    BY DEF UpdateJob, User
  <1>2. GoodTicket(noted) /\ noted.status # None /\ noted.owner = tk.owner
    BY <1>1, NotedGood
  <1>3. QED
    BY <1>2 DEF WithComment

LEMMA WithAnswerGood ==
    ASSUME NEW tk, GoodTicket(tk), tk.status # None, NEW j \in HrRespondJob
    PROVE  LET m == WithAnswer(tk, j)
           IN  GoodTicket(m) /\ m.status # None /\ m.owner = tk.owner
  <1> DEFINE fields == [tk EXCEPT !.assigned = j.user, !.answered = TRUE]
             h == Row("hr_response", j.user, None, None)
             answered == [fields EXCEPT !.hist = Append(@, h)]
  <1>1. j.user \in User /\ j.seen \in Status
    BY DEF HrRespondJob, User
  <1>2. GoodTicket(fields) /\ fields.status = tk.status /\ fields.owner = tk.owner
    BY <1>1, FieldsGood
  <1>3. GoodTicket(answered) /\ answered.status = tk.status /\ answered.owner = tk.owner
    <2> HIDE DEF fields
    <2> QED  BY <1>1, <1>2, NotedGood
  <1>4. answered = [tk EXCEPT !.answered = TRUE, !.assigned = j.user, !.hist = Append(@, h)]
    BY DEF GoodTicket, Ticket
  <1>5. Deadline(j.now) \in Nat
    BY CloseDelayAssumption DEF Deadline, HrRespondJob
  <1>6. WithAnswer(tk, j) = IF j.resolve /\ j.seen \in Open
                            THEN Moved(answered, j.user, j.seen, "resolved", Deadline(j.now))
                            ELSE answered
    BY <1>4 DEF WithAnswer
  <1> HIDE DEF answered
  <1>7. QED
    BY <1>1, <1>3, <1>5, <1>6, MovedGood, StatusFacts

-----------------------------------------------------------------------------
(* Steps *)

(* Rows keep existing and keep their raiser, so requests under way stay good. *)
LEMMA JobStaysGood ==
    ASSUME NEW T \in [TicketId -> Ticket], NEW U \in [TicketId -> Ticket],
           \A t \in TicketId : T[t].status # None => U[t].status # None /\ U[t].owner = T[t].owner,
           NEW j, GoodJob(j, T)
    PROVE  GoodJob(j, U)
  BY DEF GoodJob, TicketJob, AutoCloseJob, UpdateJob, CommentJob, RespondJob, HrRespondJob

(* A write of one row, seen by the whole table and by all requests. *)
LEMMA OneRowGood ==
    ASSUME GoodTickets, GoodJobs, NEW t \in TicketId, NEW m, GoodTicket(m), m.status # None,
           Exists(t) => m.owner = tickets[t].owner,
           tickets' = [tickets EXCEPT ![t] = m]
    PROVE  GoodTickets' /\ \A j : GoodJob(j, tickets) => GoodJob(j, tickets')
  <1>1. \A s \in TicketId : tickets'[s] = IF s = t THEN m ELSE tickets[s]
    BY DEF GoodTickets
  <1>2. m \in Ticket /\ tickets' \in [TicketId -> Ticket]
    BY DEF GoodTickets, GoodTicket
  <1>3. \A s \in TicketId : GoodTicket(tickets'[s])
    BY <1>1 DEF GoodTickets
  <1>4. \A s \in TicketId : tickets[s].status # None
            => tickets'[s].status # None /\ tickets'[s].owner = tickets[s].owner
    BY <1>1 DEF Exists
  <1>5. \A j : GoodJob(j, tickets) => GoodJob(j, tickets')
    BY <1>2, <1>4, JobStaysGood DEF GoodTickets
  <1>6. QED
    BY <1>2, <1>3, <1>5 DEF GoodTickets

LEMMA NoJobGood == \A T : GoodJob(NoJob, T)
  BY DEF GoodJob, Job, NoJob, TicketJob, UpdateJob, CommentJob, RespondJob, HrRespondJob, AutoCloseJob

(* The end of a request: job and mail of one worker change, phase follows. *)
LEMMA FinishGood ==
    ASSUME IInv, NEW w \in Worker, NEW notes \in SUBSET Notification,
           phase[w] # "closing", Finish(w, notes),
           GoodTickets', \A j : GoodJob(j, tickets) => GoodJob(j, tickets'),
           inbox' \subseteq Notification, crashes' \in Nat, UNCHANGED <<clock, writer>>
    PROVE  IInv'
  <1>1. GoodJobs'
    <2>1. job' \in [Worker -> Job]
      BY DEF IInv, GoodJobs, Finish, Job
    <2>2. \A v \in Worker : job'[v] = IF v = w THEN NoJob ELSE job[v]
      BY DEF IInv, GoodJobs, Finish
    <2>3. \A v \in Worker : GoodJob(job'[v], tickets')
      BY <2>2, NoJobGood DEF IInv, GoodJobs
    <2>4. QED
      BY <2>1, <2>3 DEF GoodJobs
  <1>2. /\ phase' \in [Worker -> {"idle", "write", "closing", "mail"}]
        /\ \A v \in Worker : v # w => phase'[v] = phase[v] /\ job'[v] = job[v]
        /\ phase'[w] \in {"idle", "mail"}
    BY DEF IInv, GoodRest, GoodJobs, Finish
  <1>3. mail' \in [Worker -> SUBSET Notification]
    BY DEF IInv, GoodRest, Finish
  <1>4. GoodRest'
    BY <1>2, <1>3 DEF IInv, GoodRest
  <1>5. LockOnlyWhileClosing'
    BY <1>2 DEF IInv, LockOnlyWhileClosing
  <1>6. QED
    BY <1>1, <1>4, <1>5 DEF IInv

(* The opening read: one worker gets a request. *)
LEMMA BeginGood ==
    ASSUME IInv, NEW w \in Worker, phase[w] = "idle", NEW j \in Job, GoodJob(j, tickets),
           Begin(w, j)
    PROVE  IInv'
  <1>1. GoodJobs'
    <2>1. job' \in [Worker -> Job]
      BY DEF IInv, GoodJobs, Begin
    <2>2. \A v \in Worker : job'[v] = IF v = w THEN j ELSE job[v]
      BY DEF IInv, GoodJobs, Begin
    <2>3. \A v \in Worker : GoodJob(job'[v], tickets')
      BY <2>2 DEF IInv, GoodJobs, Begin
    <2>4. QED
      BY <2>1, <2>3 DEF GoodJobs
  <1>2. /\ phase' \in [Worker -> {"idle", "write", "closing", "mail"}]
        /\ \A v \in Worker : v # w => phase'[v] = phase[v] /\ job'[v] = job[v]
        /\ phase'[w] = "write"
    BY DEF IInv, GoodRest, GoodJobs, Begin
  <1>3. GoodRest' /\ GoodTickets'
    BY <1>2 DEF IInv, GoodRest, GoodTickets, Begin
  <1>4. LockOnlyWhileClosing'
    BY <1>2 DEF IInv, LockOnlyWhileClosing, Begin
  <1>5. QED
    BY <1>1, <1>3, <1>4 DEF IInv
-----------------------------------------------------------------------------
(* Every step keeps IInv. *)

LEMMA InitInv == Init => IInv
  <1> SUFFICES ASSUME Init PROVE IInv
    OBVIOUS
  <1>1. NoTicket \in Ticket /\ NoTicket.status = None /\ NoTicket.hist = <<>>
    BY DEF NoTicket, Ticket
  <1>2. GoodTicket(NoTicket)
    BY <1>1, NoneAssumption DEF GoodTicket, RightlySettled
  <1>3. GoodTickets
    BY <1>1, <1>2 DEF Init, GoodTickets
  <1>4. GoodJobs
    BY NoJobGood DEF Init, GoodJobs, Job
  <1>5. GoodRest /\ LockOnlyWhileClosing
    BY NoneAssumption DEF Init, GoodRest, LockOnlyWhileClosing
  <1>6. QED
    BY <1>3, <1>4, <1>5 DEF IInv

(* A worker that writes works on a ticket that exists, with a raiser. *)
LEMMA WritingFacts ==
    ASSUME IInv, NEW w \in Worker
    PROVE  /\ job[w] \in Job /\ GoodJob(job[w], tickets)
           /\ \A op : Writing(w, op) => phase[w] # "closing"
           /\ job[w] \in TicketJob =>
                 /\ job[w].ticket \in TicketId
                 /\ GoodTicket(tickets[job[w].ticket])
                 /\ tickets[job[w].ticket].status # None
                 /\ tickets[job[w].ticket].owner \in User
  <1>1. job[w] \in Job /\ GoodJob(job[w], tickets)
    BY DEF IInv, GoodJobs
  <1>2. job[w] \in TicketJob => job[w].ticket \in TicketId
    BY DEF TicketJob, UpdateJob, CommentJob, RespondJob, HrRespondJob
  <1>3. QED
    BY <1>1, <1>2 DEF IInv, GoodTickets, GoodJob, GoodTicket, Writing

LEMMA InsertInv ==
    ASSUME IInv, NEW w \in Worker, NEW u \in User, NEW t \in TicketId,
           NEW action \in {"created", "escalated"}, Insert(w, u, t, action)
    PROVE  IInv'
  <1> DEFINE h == Row(action, u, None, "raised")
             m == [NoTicket EXCEPT !.owner = u, !.status = "raised", !.hist = <<h>>]
  <1>1. /\ h \in HistoryRow /\ h.action = action /\ h.new = "raised"
    BY StatusFacts DEF Row, HistoryRow
  <1> HIDE DEF h
  <1>2. <<h>> \in Seq(HistoryRow) /\ DOMAIN <<h>> = {1} /\ <<h>>[1] = h
    BY <1>1
  <1>3. m \in Ticket /\ m.owner = u /\ m.status = "raised" /\ m.hist = <<h>>
    BY <1>2, StatusFacts DEF NoTicket, Ticket
  <1>4. tickets' = [tickets EXCEPT ![t] = m]
    BY DEF Insert, h
  <1> HIDE DEF m
  <1>5. EndsInStatus(m) /\ RightlySettled(m)
    BY <1>1, <1>2, <1>3 DEF EndsInStatus, RightlySettled, StatusActions
  <1>6. GoodTicket(m) /\ m.status # None
    BY <1>3, <1>5, StatusFacts DEF GoodTicket
  <1>7. GoodTickets' /\ \A j : GoodJob(j, tickets) => GoodJob(j, tickets')
    BY <1>4, <1>6, OneRowGood DEF Insert, IInv
  <1>8. Hr \X {t} \X {"raised"} \in SUBSET Notification
    BY DEF Notification, User, Topic
  <1>9. QED
    BY <1>7, <1>8, FinishGood DEF Insert, IInv, GoodRest

LEMMA UpdateReadInv ==
    ASSUME IInv, NEW w \in Worker, NEW u \in Hr, NEW t \in TicketId,
           NEW status \in Status \cup {None}, NEW assignee \in User \cup {None, Nobody},
           UpdateRead(w, u, t, status, assignee)
    PROVE  IInv'
  <1> DEFINE j == [op |-> "update", user |-> u, ticket |-> t, now |-> clock,
                   status |-> status, assignee |-> assignee,
                   seen |-> tickets[t].status, seenAssigned |-> tickets[t].assigned]
  <1>1. j \in UpdateJob
    BY DEF UpdateRead, Receives, Exists, UpdateJob, IInv, GoodRest, GoodTickets, Ticket
  <1>2. /\ j.op = "update" /\ j.ticket = t /\ j.user = u /\ j.status = status
        /\ j.seen = tickets[t].status
    OBVIOUS
  <1>3. /\ Begin(w, j) /\ phase[w] = "idle" /\ tickets[t].status # None
        /\ status \in Terminal \ {tickets[t].status} => u \in HrHead
    BY DEF UpdateRead, Receives, Exists
  <1> HIDE DEF j
  <1>4. j \in Job /\ j \notin AutoCloseJob /\ j \notin RespondJob
    BY <1>1, <1>2 DEF Job, TicketJob, AutoCloseJob, RespondJob
  <1>5. GoodJob(j, tickets)
    BY <1>2, <1>3, <1>4 DEF GoodJob
  <1>6. QED
    BY <1>3, <1>4, <1>5, BeginGood

LEMMA CommentReadInv ==
    ASSUME IInv, NEW w \in Worker, NEW u \in User, NEW t \in TicketId, CommentRead(w, u, t)
    PROVE  IInv'
  <1> DEFINE j == [op |-> "comment", user |-> u, ticket |-> t]
  <1>1. j \in CommentJob /\ j.op = "comment" /\ j.ticket = t
    BY DEF CommentJob
  <1>2. Begin(w, j) /\ phase[w] = "idle" /\ tickets[t].status # None
    BY DEF CommentRead, Receives, Exists
  <1> HIDE DEF j
  <1>3. j \in Job /\ j \notin AutoCloseJob /\ j \notin RespondJob /\ j \notin UpdateJob
    BY <1>1 DEF Job, TicketJob, AutoCloseJob, RespondJob, UpdateJob
  <1>4. GoodJob(j, tickets)
    BY <1>1, <1>2, <1>3 DEF GoodJob
  <1>5. QED
    BY <1>2, <1>3, <1>4, BeginGood

LEMMA RespondReadInv ==
    ASSUME IInv, NEW w \in Worker, NEW t \in TicketId, NEW action \in {"accept", "reject"},
           RespondRead(w, t, action)
    PROVE  IInv'
  <1> DEFINE j == [op |-> "respond", user |-> tickets[t].owner, ticket |-> t, action |-> action]
  <1>1. Begin(w, j) /\ phase[w] = "idle" /\ tickets[t].status # None
    BY DEF RespondRead, Receives, Exists
  <1>2. j \in RespondJob /\ j.op = "respond" /\ j.ticket = t /\ j.user = tickets[t].owner
    BY <1>1 DEF RespondJob, IInv, GoodTickets, GoodTicket
  <1> HIDE DEF j
  <1>3. j \in Job /\ j \notin AutoCloseJob /\ j \notin UpdateJob
    BY <1>2 DEF Job, TicketJob, AutoCloseJob, UpdateJob
  <1>4. GoodJob(j, tickets)
    BY <1>1, <1>2, <1>3 DEF GoodJob
  <1>5. QED
    BY <1>1, <1>3, <1>4, BeginGood

LEMMA HrRespondReadInv ==
    ASSUME IInv, NEW w \in Worker, NEW u \in Hr, NEW t \in TicketId, NEW resolve \in BOOLEAN,
           HrRespondRead(w, u, t, resolve)
    PROVE  IInv'
  <1> DEFINE j == [op |-> "hr_respond", user |-> u, ticket |-> t, now |-> clock,
                   resolve |-> resolve, seen |-> tickets[t].status]
  <1>1. Begin(w, j) /\ phase[w] = "idle" /\ tickets[t].status # None
    BY DEF HrRespondRead, Receives, Exists
  <1>2. j \in HrRespondJob /\ j.op = "hr_respond" /\ j.ticket = t
    BY <1>1 DEF HrRespondJob, IInv, GoodRest, GoodTickets, Ticket
  <1> HIDE DEF j
  <1>3. j \in Job /\ j \notin AutoCloseJob /\ j \notin UpdateJob /\ j \notin RespondJob
    BY <1>2 DEF Job, TicketJob, AutoCloseJob, UpdateJob, RespondJob
  <1>4. GoodJob(j, tickets)
    BY <1>1, <1>2, <1>3 DEF GoodJob
  <1>5. QED
    BY <1>1, <1>3, <1>4, BeginGood
LEMMA UpdateWriteInv ==
    ASSUME IInv, NEW w \in Worker, UpdateWrite(w)
    PROVE  IInv'
  <1> DEFINE j == job[w]
             t == job[w].ticket
             tk == tickets[job[w].ticket]
             m == WithComment(WithAssignee(WithStatus(tk, j), j), j)
             notes == ({tk.owner} \ {j.user}) \X {t} \X {"updated"}
  <1>1. j \in UpdateJob /\ j \in TicketJob /\ j.op = "update"
    BY WritingFacts, JobByOp DEF UpdateWrite, Writing, TicketJob
  <1>2. /\ t \in TicketId /\ GoodTicket(tk) /\ tk.status # None /\ tk.owner \in User
        /\ j.status \in Terminal /\ j.status # j.seen => j.user \in HrHead
        /\ phase[w] # "closing"
    BY <1>1, WritingFacts DEF UpdateWrite, GoodJob
  <1>3. GoodTicket(m) /\ m.status # None /\ m.owner = tk.owner
    <2> DEFINE n == WithStatus(tk, j)
    <2>1. GoodTicket(n) /\ n.status # None /\ n.owner = tk.owner
      BY <1>1, <1>2, WithStatusGood
    <2> HIDE DEF n
    <2>2. LET k == WithAssignee(n, j)
          IN  GoodTicket(k) /\ k.status # None /\ k.owner = n.owner
      BY <1>1, <2>1, WithAssigneeGood
    <2> DEFINE k == WithAssignee(n, j)
    <2>3. GoodTicket(k) /\ k.status # None /\ k.owner = tk.owner
      BY <2>1, <2>2
    <2> HIDE DEF k
    <2>4. LET c == WithComment(k, j)
          IN  GoodTicket(c) /\ c.status # None /\ c.owner = k.owner
      BY <1>1, <2>3, WithCommentGood
    <2>5. QED
      BY <2>3, <2>4 DEF k, n
  <1>4. tickets' = [tickets EXCEPT ![t] = m] /\ Finish(w, notes)
    BY DEF UpdateWrite
  <1> HIDE DEF m
  <1>5. GoodTickets' /\ \A k : GoodJob(k, tickets) => GoodJob(k, tickets')
    BY <1>2, <1>3, <1>4, OneRowGood DEF IInv
  <1>6. notes \in SUBSET Notification
    BY <1>2 DEF Notification, Topic
  <1> HIDE DEF notes
  <1>7. inbox' \subseteq Notification /\ crashes' \in Nat /\ UNCHANGED <<clock, writer>>
    BY DEF UpdateWrite, IInv, GoodRest
  <1>8. QED
    BY <1>2, <1>4, <1>5, <1>6, <1>7, FinishGood

LEMMA CommentWriteInv ==
    ASSUME IInv, NEW w \in Worker, CommentWrite(w)
    PROVE  IInv'
  <1> DEFINE j == job[w]
             t == job[w].ticket
             tk == tickets[job[w].ticket]
             m == [tk EXCEPT !.hist = Append(@, Row("comment", j.user, None, None))]
  <1>1. j \in CommentJob /\ j \in TicketJob /\ j.user \in User
    BY WritingFacts, JobByOp DEF CommentWrite, Writing, TicketJob, CommentJob
  <1>2. /\ t \in TicketId /\ GoodTicket(tk) /\ tk.status # None /\ phase[w] # "closing"
    BY <1>1, WritingFacts DEF CommentWrite
  <1>3. GoodTicket(m) /\ m.status # None /\ m.owner = tk.owner
    BY <1>1, <1>2, NotedGood
  <1>4. tickets' = [tickets EXCEPT ![t] = m] /\ Finish(w, {})
    BY <1>2 DEF CommentWrite, IInv, GoodTickets
  <1> HIDE DEF m
  <1>5. GoodTickets' /\ \A k : GoodJob(k, tickets) => GoodJob(k, tickets')
    BY <1>2, <1>3, <1>4, OneRowGood DEF IInv
  <1>6. inbox' \subseteq Notification /\ crashes' \in Nat /\ UNCHANGED <<clock, writer>>
    BY DEF CommentWrite, IInv, GoodRest
  <1>7. QED
    BY <1>2, <1>4, <1>5, <1>6, FinishGood

LEMMA RespondWriteInv ==
    ASSUME IInv, NEW w \in Worker, RespondWrite(w)
    PROVE  IInv'
  <1> DEFINE j == job[w]
             t == job[w].ticket
             tk == tickets[job[w].ticket]
             new == IF j.action = "accept" THEN "closed" ELSE "in_progress"
             topic == IF j.action = "accept" THEN "accepted" ELSE "reopened"
             m == Moved(tk, j.user, "resolved", new, None)
             notes == HrTeam \X {t} \X {topic}
  <1>1. j \in RespondJob /\ j \in TicketJob
    BY WritingFacts, JobByOp DEF RespondWrite, Writing, TicketJob
  <1>2. /\ t \in TicketId /\ GoodTicket(tk) /\ tk.status # None /\ tk.owner \in User
        /\ j.user = tk.owner /\ phase[w] # "closing"
    BY <1>1, WritingFacts DEF RespondWrite, GoodJob
  <1>3. /\ new \in Status /\ "resolved" \in Status \cup {None} /\ None \in Nat \cup {None}
        /\ new = "resolved" => None \in Nat
        /\ new = "closed"   => j.user \in HrHead \cup {tk.owner, System}
        /\ new = "rejected" => j.user \in HrHead
        /\ j.user \in User \cup {System}
    BY <1>2, StatusFacts
  <1>4. tickets' = [tickets EXCEPT ![t] = m] /\ Finish(w, notes)
    BY DEF RespondWrite
  <1>5. notes \in SUBSET Notification
    BY <1>2 DEF Notification, Topic, User, Hr
  <1> HIDE DEF j, new, notes, tk
  <1>6. GoodTicket(m) /\ m.status = new /\ m.owner = tk.owner
    BY <1>2, <1>3, MovedGood
  <1> HIDE DEF m
  <1>7. m.status # None
    BY <1>3, <1>6, StatusFacts
  <1>8. GoodTickets' /\ \A k : GoodJob(k, tickets) => GoodJob(k, tickets')
    BY <1>2, <1>4, <1>6, <1>7, OneRowGood DEF IInv, tk
  <1>9. inbox' \subseteq Notification /\ crashes' \in Nat /\ UNCHANGED <<clock, writer>>
    BY DEF RespondWrite, IInv, GoodRest
  <1>10. QED
    BY <1>2, <1>4, <1>5, <1>8, <1>9, FinishGood

LEMMA HrRespondWriteInv ==
    ASSUME IInv, NEW w \in Worker, HrRespondWrite(w)
    PROVE  IInv'
  <1> DEFINE j == job[w]
             t == job[w].ticket
             tk == tickets[job[w].ticket]
             m == WithAnswer(tk, j)
             notes == {tk.owner} \X {t} \X {"answered"}
  <1>1. j \in HrRespondJob /\ j \in TicketJob
    BY WritingFacts, JobByOp DEF HrRespondWrite, Writing, TicketJob
  <1>2. /\ t \in TicketId /\ GoodTicket(tk) /\ tk.status # None /\ tk.owner \in User
        /\ phase[w] # "closing"
    BY <1>1, WritingFacts DEF HrRespondWrite
  <1>3. GoodTicket(m) /\ m.status # None /\ m.owner = tk.owner
    BY <1>1, <1>2, WithAnswerGood
  <1>4. tickets' = [tickets EXCEPT ![t] = m] /\ Finish(w, notes)
    BY DEF HrRespondWrite
  <1>5. notes \in SUBSET Notification
    BY <1>2 DEF Notification, Topic
  <1> HIDE DEF m, notes
  <1>6. GoodTickets' /\ \A k : GoodJob(k, tickets) => GoodJob(k, tickets')
    BY <1>2, <1>3, <1>4, OneRowGood DEF IInv
  <1>7. inbox' \subseteq Notification /\ crashes' \in Nat /\ UNCHANGED <<clock, writer>>
    BY DEF HrRespondWrite, IInv, GoodRest
  <1>8. QED
    BY <1>2, <1>4, <1>5, <1>6, <1>7, FinishGood

LEMMA AutoCloseReadInv ==
    ASSUME IInv, NEW w \in Worker, AutoCloseRead(w)
    PROVE  IInv'
  <1> DEFINE j == [op |-> "auto_close", due |-> {t \in TicketId : Due(t)}]
  <1>1. j \in AutoCloseJob /\ j.op = "auto_close" /\ Begin(w, j) /\ phase[w] = "idle"
    BY DEF AutoCloseRead, AutoCloseJob
  <1>2. \A t \in j.due : tickets[t].status # None
    BY StatusFacts DEF Due
  <1> HIDE DEF j
  <1>3. j \in Job /\ j \notin TicketJob /\ j \notin UpdateJob /\ j \notin RespondJob
    BY <1>1 DEF Job, TicketJob, UpdateJob, CommentJob, RespondJob, HrRespondJob
  <1>4. GoodJob(j, tickets)
    BY <1>2, <1>3 DEF GoodJob
  <1>5. QED
    BY <1>1, <1>3, <1>4, BeginGood

LEMMA AutoCloseOpenInv ==
    ASSUME IInv, NEW w \in Worker, AutoCloseOpen(w)
    PROVE  IInv'
  <1>1. /\ job[w] \in AutoCloseJob /\ job[w].op = "auto_close"
        /\ writer = None /\ phase[w] = "write"
        /\ \A t \in job[w].due : t \in TicketId /\ tickets[t].status # None
    BY WritingFacts, JobByOp DEF AutoCloseOpen, Writing, GoodJob, AutoCloseJob
  <1>2. mail' \in [Worker -> SUBSET Notification]
    BY <1>1 DEF AutoCloseOpen, IInv, GoodRest, GoodTickets, GoodTicket, Notification, Topic
  <1>3. /\ phase' \in [Worker -> {"idle", "write", "closing", "mail"}]
        /\ \A v \in Worker : phase'[v] = IF v = w THEN "closing" ELSE phase[v]
    BY DEF AutoCloseOpen, IInv, GoodRest
  <1>4. GoodRest'
    BY <1>2, <1>3 DEF AutoCloseOpen, IInv, GoodRest
  <1>5. LockOnlyWhileClosing'
    BY <1>1, <1>3, NoneAssumption DEF AutoCloseOpen, IInv, LockOnlyWhileClosing
  <1>6. GoodTickets' /\ GoodJobs'
    BY DEF AutoCloseOpen, IInv, GoodTickets, GoodJobs
  <1>7. QED
    BY <1>4, <1>5, <1>6 DEF IInv

LEMMA NestedNotificationInv ==
    ASSUME IInv, NEW w \in Worker, NestedNotification(w)
    PROVE  IInv'
  <1>1. GoodRest'
    BY DEF NestedNotification, IInv, GoodRest
  <1>2. LockOnlyWhileClosing'
    BY DEF NestedNotification, IInv, LockOnlyWhileClosing
  <1>3. GoodTickets' /\ GoodJobs'
    BY DEF NestedNotification, IInv, GoodTickets, GoodJobs
  <1>4. QED
    BY <1>1, <1>2, <1>3 DEF IInv

(* A worker that ends while it closes tickets, by committing or by dying. *)
LEMMA EndClosingGood ==
    ASSUME IInv, NEW w \in Worker, phase[w] = "closing", Finish(w, {}), writer' = None,
           GoodTickets', \A j : GoodJob(j, tickets) => GoodJob(j, tickets'),
           crashes' \in Nat, UNCHANGED <<inbox, clock>>
    PROVE  IInv'
  <1>1. GoodJobs'
    <2>1. job' \in [Worker -> Job]
      BY DEF IInv, GoodJobs, Finish, Job
    <2>2. \A v \in Worker : job'[v] = IF v = w THEN NoJob ELSE job[v]
      BY DEF IInv, GoodJobs, Finish
    <2>3. \A v \in Worker : GoodJob(job'[v], tickets')
      BY <2>2, NoJobGood DEF IInv, GoodJobs
    <2>4. QED
      BY <2>1, <2>3 DEF GoodJobs
  <1>2. /\ phase' \in [Worker -> {"idle", "write", "closing", "mail"}]
        /\ \A v \in Worker : phase'[v] = IF v = w THEN "idle" ELSE phase[v]
    BY DEF IInv, GoodRest, Finish
  <1>3. mail' \in [Worker -> SUBSET Notification]
    BY DEF IInv, GoodRest, Finish
  <1>4. GoodRest'
    BY <1>2, <1>3 DEF IInv, GoodRest
  <1>5. \A v \in Worker : phase'[v] # "closing" /\ writer' # v
    BY <1>2, NoneAssumption DEF IInv, LockOnlyWhileClosing
  <1>6. LockOnlyWhileClosing'
    BY <1>5 DEF LockOnlyWhileClosing
  <1>7. QED
    BY <1>1, <1>4, <1>6 DEF IInv

LEMMA AutoCloseCommitInv ==
    ASSUME IInv, NEW w \in Worker, AutoCloseCommit(w)
    PROVE  IInv'
  <1> DEFINE due == job[w].due
  <1>1. /\ phase[w] = "closing" /\ Finish(w, {}) /\ writer' = None
        /\ crashes' \in Nat /\ UNCHANGED <<inbox, clock>>
        /\ tickets' = [t \in TicketId |-> IF t \in due THEN Closed(tickets[t]) ELSE tickets[t]]
    BY DEF AutoCloseCommit, IInv, GoodRest
  <1>2. \A t \in due : tickets[t].status # None
    BY <1>1, WritingFacts, JobByOp DEF IInv, LockOnlyWhileClosing, GoodJob
  <1>3. ASSUME NEW t \in TicketId, t \in due
        PROVE  GoodTicket(Closed(tickets[t])) /\ Closed(tickets[t]).status = "closed"
               /\ Closed(tickets[t]).owner = tickets[t].owner
    <2> DEFINE tk == tickets[t]
               old == "resolved"
               new == "closed"
    <2>1. GoodTicket(tk) /\ tk.status # None /\ tk.deadline \in Nat \cup {None}
      BY <1>2, <1>3 DEF IInv, GoodTickets, Ticket, GoodTicket
    <2>2. /\ new \in Status /\ old \in Status \cup {None}
          /\ new = "resolved" => tk.deadline \in Nat
          /\ new = "closed"   => System \in HrHead \cup {tk.owner, System}
          /\ new = "rejected" => System \in HrHead
          /\ System \in User \cup {System}
      BY StatusFacts
    <2>3. Closed(tickets[t]) = Moved(tk, System, old, new, tk.deadline)
      BY DEF Closed
    <2> HIDE DEF tk, old, new
    <2>4. LET m == Moved(tk, System, old, new, tk.deadline)
          IN  GoodTicket(m) /\ m.status = new /\ m.owner = tk.owner
      BY <2>1, <2>2, MovedGood
    <2>5. QED
      BY <2>3, <2>4 DEF tk, new
  <1>4. /\ tickets' \in [TicketId -> Ticket]
        /\ \A t \in TicketId : GoodTicket(tickets'[t])
    BY <1>1, <1>3 DEF IInv, GoodTickets, GoodTicket
  <1>5. \A t \in TicketId : tickets[t].status # None
            => tickets'[t].status # None /\ tickets'[t].owner = tickets[t].owner
    BY <1>1, <1>3, StatusFacts
  <1>6. \A j : GoodJob(j, tickets) => GoodJob(j, tickets')
    BY <1>4, <1>5, JobStaysGood DEF IInv, GoodTickets
  <1>7. GoodTickets'
    BY <1>4 DEF GoodTickets
  <1>8. QED
    BY <1>1, <1>6, <1>7, EndClosingGood

(* Steps that write no row: failures, deliveries, crashes, time. *)
LEMMA SameTickets ==
    ASSUME IInv, UNCHANGED tickets
    PROVE  GoodTickets' /\ \A j : GoodJob(j, tickets) => GoodJob(j, tickets')
  BY DEF IInv, GoodTickets

LEMMA QuietInv ==
    ASSUME IInv, NEW w \in Worker,
           DatabaseLocked(w) \/ Deliver(w) \/ NotificationLost(w) \/ Crash(w)
    PROVE  IInv'
  <1>1. UNCHANGED tickets
    BY DEF DatabaseLocked, Deliver, NotificationLost, Crash
  <1>2. crashes' \in Nat
    BY DEF DatabaseLocked, Deliver, NotificationLost, Crash, IInv, GoodRest
  <1>3. mail[w] \in SUBSET Notification /\ {} \in SUBSET Notification /\ inbox \subseteq Notification
    BY DEF IInv, GoodRest
  <1>4. CASE DatabaseLocked(w) \/ NotificationLost(w)
    BY <1>1, <1>2, <1>3, <1>4, SameTickets, FinishGood DEF DatabaseLocked, NotificationLost
  <1>5. CASE Deliver(w)
    <2>1. PICK m \in mail[w] : inbox' = inbox \cup {m} /\ Finish(w, mail[w] \ {m})
      BY <1>5 DEF Deliver
    <2>2. inbox' \subseteq Notification /\ mail[w] \ {m} \in SUBSET Notification
      BY <1>3, <2>1
    <2>3. phase[w] # "closing" /\ UNCHANGED <<clock, writer>>
      BY <1>5 DEF Deliver
    <2>4. QED
      BY <1>1, <1>2, <2>1, <2>2, <2>3, SameTickets, FinishGood
  <1>6. CASE Crash(w)
    <2>1. CASE phase[w] = "closing"
      <3>1. writer' = None /\ Finish(w, {}) /\ UNCHANGED <<inbox, clock>>
        BY <1>6, <2>1 DEF Crash, IInv, LockOnlyWhileClosing
      <3>2. QED
        BY <1>1, <1>2, <2>1, <3>1, SameTickets, EndClosingGood
    <2>2. CASE phase[w] # "closing"
      <3>1. Finish(w, {}) /\ UNCHANGED <<inbox, clock, writer>>
        BY <1>6, <2>2 DEF Crash, IInv, LockOnlyWhileClosing
      <3>2. QED
        BY <1>1, <1>2, <1>3, <2>2, <3>1, SameTickets, FinishGood
    <2>3. QED
      BY <2>1, <2>2
  <1>7. QED
    BY <1>4, <1>5, <1>6

LEMMA TickInv == IInv /\ Tick => IInv'
  BY DEF Tick, IInv, GoodTickets, GoodJobs, GoodRest, LockOnlyWhileClosing

LEMMA StutterInv == IInv /\ UNCHANGED vars => IInv'
  BY DEF vars, IInv, GoodTickets, GoodJobs, GoodRest, LockOnlyWhileClosing

LEMMA ProceedInv ==
    ASSUME IInv, NEW w \in Worker, Proceed(w)
    PROVE  IInv'
  BY UpdateWriteInv, CommentWriteInv, RespondWriteInv, HrRespondWriteInv,
     AutoCloseOpenInv, NestedNotificationInv, AutoCloseCommitInv, QuietInv DEF Proceed

LEMMA ReceiveInv ==
    ASSUME IInv, NEW w \in Worker, Receive(w)
    PROVE  IInv'
  <1>1. CASE \E u \in User, t \in TicketId : CreateTicket(w, u, t) \/ EscalateFromChat(w, u, t)
    BY <1>1, InsertInv DEF CreateTicket, EscalateFromChat
  <1>2. CASE \E u \in Hr, t \in TicketId, s \in Status \cup {None}, a \in User \cup {None, Nobody} :
                UpdateRead(w, u, t, s, a)
    BY <1>2, UpdateReadInv
  <1>3. CASE \E u \in User, t \in TicketId : CommentRead(w, u, t)
    BY <1>3, CommentReadInv
  <1>4. CASE \E t \in TicketId, action \in {"accept", "reject"} : RespondRead(w, t, action)
    BY <1>4, RespondReadInv
  <1>5. CASE \E u \in Hr, t \in TicketId, resolve \in BOOLEAN : HrRespondRead(w, u, t, resolve)
    BY <1>5, HrRespondReadInv
  <1>6. CASE AutoCloseRead(w)
    BY <1>6, AutoCloseReadInv
  <1>7. QED
    BY <1>1, <1>2, <1>3, <1>4, <1>5, <1>6 DEF Receive

LEMMA NextInv == IInv /\ [Next]_vars => IInv'
  <1> SUFFICES ASSUME IInv, [Next]_vars PROVE IInv'
    OBVIOUS
  <1>1. CASE Tick
    BY <1>1, TickInv
  <1>2. CASE \E w \in Worker : Proceed(w) \/ Receive(w) \/ Crash(w)
    BY <1>2, ProceedInv, ReceiveInv, QuietInv
  <1>3. CASE UNCHANGED vars
    BY <1>3, StutterInv
  <1>4. QED
    BY <1>1, <1>2, <1>3 DEF Next

-----------------------------------------------------------------------------
(* Theorems *)

(* In every reachable state rows, requests under way and the lock are good. *)
THEOREM Invariance == Spec => []IInv
  BY InitInv, NextInv, PTL DEF Spec

(* Type correctness: every handler stores well-formed rows, whatever it races with. *)
THEOREM TypeCorrect == Spec => []TypeOK
  <1>1. IInv => TypeOK
    BY DEF IInv, GoodTickets, GoodJobs, GoodRest, TypeOK
  <1>2. QED
    BY <1>1, Invariance, PTL

(* The newest status row of a ticket's history is its status, under every     *)
(* interleaving of any number of workers and with crashes.                    *)
THEOREM HistoryAgrees == Spec => []HistoryEndsInStatus
  <1>1. IInv => HistoryEndsInStatus
    BY DEF IInv, GoodTickets, GoodTicket, HistoryEndsInStatus, Exists
  <1>2. QED
    BY <1>1, Invariance, PTL

(* A resolved ticket always carries the deadline that will settle it. *)
THEOREM ResolvedTicketsExpire == Spec => []ResolvedHasDeadline
  <1>1. IInv => ResolvedHasDeadline
    BY DEF IInv, GoodTickets, GoodTicket, ResolvedHasDeadline
  <1>2. QED
    BY <1>1, Invariance, PTL

(* No interleaving lets anyone but HR head, the raiser or the deadline settle *)
(* a ticket, although the check is made on a row read earlier.                *)
THEOREM SettlementIsAuthorized == Spec => []SettledByTheRightPerson
  <1>1. IInv => SettledByTheRightPerson
    BY DEF IInv, GoodTickets, GoodTicket, SettledByTheRightPerson
  <1>2. QED
    BY <1>1, Invariance, PTL
=============================================================================
