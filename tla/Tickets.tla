------------------------------ MODULE Tickets ------------------------------
(***************************************************************************)
(* The HR ticket workflow of backend/app/api/ticket_routes.py.             *)
(*                                                                         *)
(* Several uvicorn worker processes serve requests against one SQLite      *)
(* file.  A handler is an `async def` that never awaits, so inside one     *)
(* process requests run one after the other; between processes they        *)
(* interleave.  Under python's sqlite3 the opening SELECT of a handler     *)
(* runs in autocommit, the first UPDATE/INSERT takes the database's only   *)
(* write lock, and leaving the `with` block commits (or, on an exception,  *)
(* rolls everything back).  Hence each handler is a read step and a later  *)
(* atomic write step, followed by its notifications, every one of which is *)
(* a transaction of its own on a second connection.                        *)
(*                                                                         *)
(* The exception is _auto_close_resolved, which opens that second          *)
(* connection while its own transaction is still uncommitted: its lock is  *)
(* held over several steps.  A connection that finds the lock taken waits  *)
(* five seconds and raises OperationalError("database is locked").         *)
(*                                                                         *)
(* Requests that a check refuses leave no trace (the transaction is rolled *)
(* back as a whole) and are not steps.  Titles, texts, ratings, priorities *)
(* (with their history rows) and updated_at are left out; a row keeps what *)
(* decides the workflow.                                                   *)
(*                                                                         *)
(* An operator X_Something beside an operator X is X with a plausible bug; *)
(* nothing uses it but the mutation checks of the properties.              *)
(***************************************************************************)
EXTENDS Integers, Sequences, FiniteSets

CONSTANTS
    Worker,        \* uvicorn worker processes
    TicketId,
    Employee, HrTeam, HrHead,  \* users by role; HrHead stands for hr_head and above
    None,          \* SQL NULL
    CloseDelay,    \* AUTO_CLOSE_WORKING_DAYS, in clock ticks
    MaxCrashes,    \* bound: how many times worker processes are killed
    MaxClock,      \* bound: the clock stops here
    MaxHistory     \* bound: no request starts on a ticket with this many history rows

Hr   == HrTeam \cup HrHead      \* _HR_ROLES
User == Employee \cup Hr
Nobody == "nobody"              \* assigned_to = "" in a request: unassign
System == "system"              \* performed_by of an automatic change

ASSUME CloseDelayAssumption == CloseDelay \in Nat
ASSUME NoneAssumption ==
    /\ None \notin Nat \cup Worker \cup User
    /\ None \notin {"raised", "assigned", "in_progress", "resolved", "closed", "rejected"}
ASSUME RolesAssumption ==
    /\ Employee \cap Hr = {} /\ HrTeam \cap HrHead = {}
    /\ Nobody \notin User /\ System \notin User

Open     == {"raised", "assigned", "in_progress"}
Terminal == {"closed", "rejected"}
Status   == Open \cup {"resolved"} \cup Terminal

STATUS_TRANSITIONS_Reopenable ==
    [ raised      |-> {"assigned", "in_progress", "rejected"},
      assigned    |-> {"in_progress", "resolved", "rejected"},
      in_progress |-> {"resolved", "rejected"},
      resolved    |-> {"closed", "in_progress"},
      closed      |-> {"in_progress"},
      rejected    |-> {} ]
STATUS_TRANSITIONS ==
    [ raised      |-> {"assigned", "in_progress", "rejected"},
      assigned    |-> {"in_progress", "resolved", "rejected"},
      in_progress |-> {"resolved", "rejected"},
      resolved    |-> {"closed", "in_progress"},
      closed      |-> {},
      rejected    |-> {} ]

VARIABLES
    tickets,  \* table tickets with each ticket's rows of table ticket_history
    inbox,    \* table notifications: <<user, ticket, what it says>>
    clock,    \* time.time()
    crashes,  \* how many processes have been killed so far
    writer,   \* the worker holding SQLite's write lock over several steps, or None
    phase,    \* where each worker is in the request it serves
    job,      \* that request, with what its handler has read
    mail      \* the notifications the worker has still to insert

vars == <<tickets, inbox, clock, crashes, writer, phase, job, mail>>

-----------------------------------------------------------------------------
(* Data *)

HistoryRow == [action : {"created", "escalated", "status_change", "assigned", "comment", "hr_response"},
               by : User \cup {System}, old : Status \cup {None}, new : Status \cup {None}]
\* The actions whose row records a status in new_value.
StatusActions == {"created", "escalated", "status_change"}

Ticket == [owner : User \cup {None}, status : Status \cup {None},
           assigned : User \cup {None}, deadline : Nat \cup {None},
           answered : BOOLEAN, hist : Seq(HistoryRow)]
NoTicket == [owner |-> None, status |-> None, assigned |-> None,
             deadline |-> None, answered |-> FALSE, hist |-> <<>>]

NoJob == [op |-> "none"]
UpdateJob    == [op : {"update"}, user : Hr, ticket : TicketId, now : Nat,
                 status : Status \cup {None}, assignee : User \cup {None, Nobody},
                 seen : Status, seenAssigned : User \cup {None}]
CommentJob   == [op : {"comment"}, user : User, ticket : TicketId]
RespondJob   == [op : {"respond"}, user : User, ticket : TicketId, action : {"accept", "reject"}]
HrRespondJob == [op : {"hr_respond"}, user : Hr, ticket : TicketId, now : Nat,
                 resolve : BOOLEAN, seen : Status]
AutoCloseJob == [op : {"auto_close"}, due : SUBSET TicketId]
TicketJob    == UpdateJob \cup CommentJob \cup RespondJob \cup HrRespondJob
Job          == {NoJob} \cup TicketJob \cup AutoCloseJob

Topic == {"raised", "updated", "accepted", "reopened", "answered", "auto_closed"}
Notification == User \X TicketId \X Topic

TypeOK ==
    /\ tickets \in [TicketId -> Ticket]
    /\ inbox \subseteq Notification
    /\ clock \in Nat /\ crashes \in Nat
    /\ writer \in Worker \cup {None}
    /\ phase \in [Worker -> {"idle", "write", "closing", "mail"}]
    /\ job \in [Worker -> Job]
    /\ mail \in [Worker -> SUBSET Notification]

Exists(t) == tickets[t].status # None
Deadline_Backwards(now) == now - CloseDelay
Deadline(now) == now + CloseDelay          \* _add_working_days

Row(action, by, old, new) == [action |-> action, by |-> by, old |-> old, new |-> new]
\* UPDATE tickets SET status and INSERT INTO ticket_history, in one transaction.
Moved(tk, by, old, new, deadline) ==
    [tk EXCEPT !.status = new, !.deadline = deadline,
               !.hist = Append(@, Row("status_change", by, old, new))]

-----------------------------------------------------------------------------
(* The steps every handler shares *)

Init ==
    /\ tickets = [t \in TicketId |-> NoTicket]
    /\ inbox = {}
    /\ clock = 0 /\ crashes = 0
    /\ writer = None
    /\ phase = [w \in Worker |-> "idle"]
    /\ job = [w \in Worker |-> NoJob]
    /\ mail = [w \in Worker |-> {}]

\* The handler's opening SELECT: the worker keeps what it read and goes on to write.
Begin(w, j) ==
    /\ phase' = [phase EXCEPT ![w] = "write"]
    /\ job' = [job EXCEPT ![w] = j]
    /\ UNCHANGED <<tickets, inbox, clock, crashes, writer, mail>>

\* Nothing of the request is left to do but its notifications.
Finish(w, notes) ==
    /\ phase' = [phase EXCEPT ![w] = IF notes = {} THEN "idle" ELSE "mail"]
    /\ job' = [job EXCEPT ![w] = NoJob]
    /\ mail' = [mail EXCEPT ![w] = notes]

Writing(w, op) == phase[w] = "write" /\ job[w].op = op /\ writer = None

\* Another connection holds the lock for longer than the busy timeout: the
\* request ends in an error and writes nothing.
DatabaseLocked(w) ==
    /\ phase[w] = "write"
    /\ writer # None
    /\ Finish(w, {})
    /\ UNCHANGED <<tickets, inbox, clock, crashes, writer>>

\* create_notification: a connection and a transaction of its own.
Deliver(w) ==
    /\ phase[w] = "mail"
    /\ writer = None
    /\ \E m \in mail[w] :
        /\ inbox' = inbox \cup {m}
        /\ Finish(w, mail[w] \ {m})
    /\ UNCHANGED <<tickets, clock, crashes, writer>>

\* The insert finds the lock taken; the handler's `except: pass` drops what is left.
NotificationLost(w) ==
    /\ phase[w] = "mail"
    /\ writer # None
    /\ Finish(w, {})
    /\ UNCHANGED <<tickets, inbox, clock, crashes, writer>>

\* A killed process loses what it had not committed, and its lock.
Crash(w) ==
    /\ crashes < MaxCrashes
    /\ crashes' = crashes + 1
    /\ phase[w] # "idle"
    /\ Finish(w, {})
    /\ writer' = IF writer = w THEN None ELSE writer
    /\ UNCHANGED <<tickets, inbox, clock>>

Tick ==
    /\ clock < MaxClock
    /\ clock' = clock + 1
    /\ UNCHANGED <<crashes, tickets, inbox, writer, phase, job, mail>>

-----------------------------------------------------------------------------
(* create_ticket and escalate_from_chat: nothing is read, one insert, HR is told. *)

Insert(w, u, t, action) ==
    /\ phase[w] = "idle"
    /\ writer = None
    /\ ~Exists(t)
    /\ tickets' = [tickets EXCEPT ![t] =
          [NoTicket EXCEPT !.owner = u, !.status = "raised",
                           !.hist = <<Row(action, u, None, "raised")>>]]
    /\ Finish(w, Hr \X {t} \X {"raised"})
    /\ UNCHANGED <<inbox, clock, crashes, writer>>

CreateTicket(w, u, t)     == Insert(w, u, t, "created")
EscalateFromChat(w, u, t) == Insert(w, u, t, "escalated")

-----------------------------------------------------------------------------
(* update_ticket: status and assignment may come in one request; without either *)
(* it is a comment.                                                             *)

\* The bound on history rows stops new requests, never one under way.
Receives(w, t) == phase[w] = "idle" /\ Exists(t) /\ Len(tickets[t].hist) < MaxHistory

UpdateRead_AnyHrCloses(w, u, t, status, assignee) ==
    LET seen == tickets[t].status IN
    /\ Receives(w, t)
    /\ u \in Hr
    /\ status \in {None, seen} \cup STATUS_TRANSITIONS[seen]
    /\ Begin(w, [op |-> "update", user |-> u, ticket |-> t, now |-> clock,
                 status |-> status, assignee |-> assignee,
                 seen |-> seen, seenAssigned |-> tickets[t].assigned])
UpdateRead(w, u, t, status, assignee) ==
    LET seen == tickets[t].status IN
    /\ Receives(w, t)
    /\ u \in Hr
    /\ status \in {None, seen} \cup STATUS_TRANSITIONS[seen]
    /\ status \in Terminal \ {seen} => u \in HrHead
    /\ Begin(w, [op |-> "update", user |-> u, ticket |-> t, now |-> clock,
                 status |-> status, assignee |-> assignee,
                 seen |-> seen, seenAssigned |-> tickets[t].assigned])

WithStatus_KeepsDeadline(tk, j) ==
    IF j.status \in {None, j.seen} THEN tk
    ELSE Moved(tk, j.user, j.seen, j.status,
               IF j.status = "resolved" THEN Deadline(j.now) ELSE tk.deadline)
\* The status part: decided on the status read, written without looking again.
WithStatus(tk, j) ==
    IF j.status \in {None, j.seen} THEN tk
    ELSE Moved(tk, j.user, j.seen, j.status,
               CASE j.status = "resolved"    -> Deadline(j.now)
                 [] j.status = "in_progress" -> None
                 [] OTHER                    -> tk.deadline)

\* The assignment part: a ticket read as raised becomes assigned on the way,
\* whatever the status part has just made of it.
WithAssignee(tk, j) ==
    IF j.assignee \in {None, j.seenAssigned} THEN tk
    ELSE LET assigned == [tk EXCEPT !.assigned = IF j.assignee = Nobody THEN None ELSE j.assignee]
             moved == IF j.assignee # Nobody /\ j.seen = "raised"
                      THEN Moved(assigned, j.user, "raised", "assigned", tk.deadline)
                      ELSE assigned
         IN  [moved EXCEPT !.hist = Append(@, Row("assigned", j.user, None, None))]

\* A request with a comment and nothing else: noted whatever the status is.
WithComment(tk, j) ==
    IF j.status = None /\ j.assignee = None
    THEN [tk EXCEPT !.hist = Append(@, Row("comment", j.user, None, None))]
    ELSE tk

UpdateWrite(w) ==
    LET j == job[w]
        t == j.ticket
    IN  /\ Writing(w, "update")
        /\ tickets' = [tickets EXCEPT ![t] = WithComment(WithAssignee(WithStatus(@, j), j), j)]
        /\ Finish(w, ({tickets[t].owner} \ {j.user}) \X {t} \X {"updated"})
        /\ UNCHANGED <<inbox, clock, crashes, writer>>

-----------------------------------------------------------------------------
(* add_comment *)

CommentRead(w, u, t) ==
    /\ Receives(w, t)
    /\ u \in Hr \cup {tickets[t].owner}
    /\ tickets[t].status \notin Terminal
    /\ Begin(w, [op |-> "comment", user |-> u, ticket |-> t])

CommentWrite(w) ==
    /\ Writing(w, "comment")
    /\ tickets' = [tickets EXCEPT ![job[w].ticket].hist =
                      Append(@, Row("comment", job[w].user, None, None))]
    /\ Finish(w, {})
    /\ UNCHANGED <<inbox, clock, crashes, writer>>

-----------------------------------------------------------------------------
(* respond_to_ticket: the raiser accepts (close) or rejects (reopen) a resolution. *)

RespondRead(w, t, action) ==
    /\ Receives(w, t)
    /\ tickets[t].status = "resolved"
    /\ Begin(w, [op |-> "respond", user |-> tickets[t].owner, ticket |-> t, action |-> action])

RespondWrite(w) ==
    LET j == job[w]
        t == j.ticket
        new == IF j.action = "accept" THEN "closed" ELSE "in_progress"
    IN  /\ Writing(w, "respond")
        /\ tickets' = [tickets EXCEPT ![t] = Moved(@, j.user, "resolved", new, None)]
        /\ Finish(w, HrTeam \X {t} \X {IF j.action = "accept" THEN "accepted" ELSE "reopened"})
        /\ UNCHANGED <<inbox, clock, crashes, writer>>

-----------------------------------------------------------------------------
(* hr_respond_to_escalation: stores the answer, and may resolve the ticket. *)

HrRespondRead(w, u, t, resolve) ==
    /\ Receives(w, t)
    /\ u \in Hr
    /\ Begin(w, [op |-> "hr_respond", user |-> u, ticket |-> t, now |-> clock,
                 resolve |-> resolve, seen |-> tickets[t].status])

WithAnswer_NoDeadline(tk, j) ==
    LET answered == [tk EXCEPT !.answered = TRUE, !.assigned = j.user,
                               !.hist = Append(@, Row("hr_response", j.user, None, None))]
    IN  IF j.resolve /\ j.seen \in Open
        THEN Moved(answered, j.user, j.seen, "resolved", tk.deadline)
        ELSE answered
WithAnswer(tk, j) ==
    LET answered == [tk EXCEPT !.answered = TRUE, !.assigned = j.user,
                               !.hist = Append(@, Row("hr_response", j.user, None, None))]
    IN  IF j.resolve /\ j.seen \in Open
        THEN Moved(answered, j.user, j.seen, "resolved", Deadline(j.now))
        ELSE answered

HrRespondWrite_Silent(w) ==
    /\ Writing(w, "hr_respond")
    /\ tickets' = [tickets EXCEPT ![job[w].ticket] = WithAnswer(@, job[w])]
    /\ Finish(w, {})
    /\ UNCHANGED <<inbox, clock, crashes, writer>>
HrRespondWrite(w) ==
    LET j == job[w]
        t == j.ticket
    IN  /\ Writing(w, "hr_respond")
        /\ tickets' = [tickets EXCEPT ![t] = WithAnswer(@, j)]
        /\ Finish(w, {tickets[t].owner} \X {t} \X {"answered"})
        /\ UNCHANGED <<inbox, clock, crashes, writer>>

-----------------------------------------------------------------------------
(* _auto_close_resolved, which every list or detail request runs first. *)

Due_AnyResolved(t) == tickets[t].status = "resolved" /\ tickets[t].deadline # None
Due_Late(t) == /\ tickets[t].status = "resolved"
               /\ tickets[t].deadline # None
               /\ tickets[t].deadline < clock
Due(t) == /\ tickets[t].status = "resolved"
          /\ tickets[t].deadline # None
          /\ tickets[t].deadline <= clock

AutoCloseRead(w) ==
    LET due == {t \in TicketId : Due(t)} IN
    /\ phase[w] = "idle"
    /\ due # {}
    /\ Begin(w, [op |-> "auto_close", due |-> due])

\* The first UPDATE takes the write lock; nothing is visible before the commit.
AutoCloseOpen(w) ==
    /\ Writing(w, "auto_close")
    /\ writer' = w
    /\ phase' = [phase EXCEPT ![w] = "closing"]
    /\ mail' = [mail EXCEPT ![w] =
          {<<tickets[t].owner, t, "auto_closed">> : t \in job[w].due}]
    /\ UNCHANGED <<tickets, inbox, clock, crashes, job>>

NestedNotification_NoTimeout(w) ==
    /\ phase[w] = "closing"
    /\ writer = None
    /\ \E m \in mail[w] :
        /\ mail' = [mail EXCEPT ![w] = @ \ {m}]
        /\ inbox' = inbox \cup {m}
    /\ UNCHANGED <<tickets, clock, crashes, writer, phase, job>>
\* create_notification inside the open transaction: its second connection meets
\* the lock of the first, times out, and the exception is swallowed.
NestedNotification(w) ==
    /\ phase[w] = "closing"
    /\ \E m \in mail[w] :
        /\ mail' = [mail EXCEPT ![w] = @ \ {m}]
        /\ inbox' = IF writer = None THEN inbox \cup {m} ELSE inbox
    /\ UNCHANGED <<tickets, clock, crashes, writer, phase, job>>

Closed_Unrecorded(tk) == [tk EXCEPT !.status = "closed"]
Closed(tk) == Moved(tk, System, "resolved", "closed", tk.deadline)

AutoCloseCommit(w) ==
    /\ phase[w] = "closing"
    /\ mail[w] = {}
    /\ tickets' = [t \in TicketId |->
                      IF t \in job[w].due THEN Closed(tickets[t]) ELSE tickets[t]]
    /\ writer' = None
    /\ Finish(w, {})
    /\ UNCHANGED <<inbox, clock, crashes>>

-----------------------------------------------------------------------------
(* What a worker does on its own once it has a request. *)
Proceed(w) ==
    \/ UpdateWrite(w) \/ CommentWrite(w) \/ RespondWrite(w) \/ HrRespondWrite(w)
    \/ AutoCloseOpen(w) \/ NestedNotification(w) \/ AutoCloseCommit(w)
    \/ DatabaseLocked(w) \/ Deliver(w) \/ NotificationLost(w)

(* What its clients make it do. *)
Receive(w) ==
    \/ \E u \in User, t \in TicketId : CreateTicket(w, u, t)
    \/ \E u \in User, t \in TicketId : EscalateFromChat(w, u, t)
    \/ \E u \in Hr, t \in TicketId, s \in Status \cup {None}, a \in User \cup {None, Nobody} :
          UpdateRead(w, u, t, s, a)
    \/ \E u \in User, t \in TicketId : CommentRead(w, u, t)
    \/ \E t \in TicketId, action \in {"accept", "reject"} : RespondRead(w, t, action)
    \/ \E u \in Hr, t \in TicketId, resolve \in BOOLEAN : HrRespondRead(w, u, t, resolve)
    \/ AutoCloseRead(w)

Next == \/ Tick
        \/ \E w \in Worker : Proceed(w) \/ Receive(w) \/ Crash(w)

Spec == Init /\ [][Next]_vars

(* A process that has a request runs on (or its busy timeout fires).  Time    *)
(* passes, and open HR dashboards list the tickets every minute, so an idle   *)
(* worker is again and again asked for the list.                              *)
FairSpec ==
    /\ Spec
    /\ WF_clock(Tick)
    /\ \A w \in Worker : WF_vars(Proceed(w)) /\ SF_vars(AutoCloseRead(w))

-----------------------------------------------------------------------------
(* Safety, for any number of workers *)

EndsInStatus(tk) ==
    \E i \in DOMAIN tk.hist :
        /\ tk.hist[i].action \in StatusActions
        /\ tk.hist[i].new = tk.status
        /\ \A j \in DOMAIN tk.hist : j > i => tk.hist[j].action \notin StatusActions

RightlySettled(tk) ==
    \A i \in DOMAIN tk.hist :
        /\ tk.hist[i].new = "closed"   => tk.hist[i].by \in HrHead \cup {tk.owner, System}
        /\ tk.hist[i].new = "rejected" => tk.hist[i].by \in HrHead

Overdue(tk) == tk.status = "resolved" /\ tk.deadline # None /\ tk.deadline <= clock

(* The audit trail and the ticket agree: the newest history row that records *)
(* a status records the one the ticket has.  Every handler writes both in    *)
(* one transaction, also when it writes over what another worker did.        *)
HistoryEndsInStatus ==
    \A t \in TicketId : Exists(t) => EndsInStatus(tickets[t])

(* No resolved ticket can wait for its raiser for ever: auto_close_at is set  *)
(* whenever the status is resolved, although accept, reject and reopen clear  *)
(* it and a stale assignment may run over all of them.                        *)
ResolvedHasDeadline ==
    \A t \in TicketId : tickets[t].status = "resolved" => tickets[t].deadline \in Nat

(* Whoever is recorded as having closed or rejected a ticket was entitled to: *)
(* HR head or above, the raiser accepting, or the two-day rule.               *)
SettledByTheRightPerson ==
    \A t \in TicketId : RightlySettled(tickets[t])

(* "closed" and "rejected" are terminal: what the table STATUS_TRANSITIONS   *)
(* says in its comments.  Holds with one worker only.                         *)
TerminalIsFinal ==
    [][\A t \in TicketId : tickets[t].status \in Terminal =>
          tickets'[t].status = tickets[t].status]_tickets

(* "Auto-close resolved tickets past their auto_close_at deadline": when the  *)
(* system closes a ticket, the ticket is at that moment still resolved and    *)
(* its deadline, which reopening and resolving again moves, has passed.       *)
(* Holds with one worker only.                                                *)
AutoClosesOnlyOverdue ==
    [][\A t \in TicketId :
          LET h == tickets'[t].hist IN
          (h # tickets[t].hist /\ h[Len(h)].by = System)
              => Overdue(tickets[t])]_tickets

(* The answer of hr_respond is announced to the raiser: without a crash, once *)
(* every worker is idle again the notification of an answered ticket is       *)
(* there.  Holds with one worker only: a second one may hold the lock.        *)
AnswerIsAnnounced ==
    (crashes = 0 /\ \A w \in Worker : phase[w] = "idle") =>
        \A t \in TicketId : tickets[t].answered => <<tickets[t].owner, t, "answered">> \in inbox

-----------------------------------------------------------------------------
(* Liveness *)

(* Every request ends: neither the nested connection nor the lock it runs     *)
(* into can keep a worker for ever.                                           *)
RequestsEnd == \A w \in Worker : phase[w] # "idle" ~> phase[w] = "idle"

(* A resolved ticket whose deadline has passed does not stay resolved.        *)
OverdueIsSettled == \A t \in TicketId : Overdue(tickets[t]) ~> ~Overdue(tickets[t])
=============================================================================
