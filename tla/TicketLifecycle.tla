-------------------------- MODULE TicketLifecycle --------------------------
(***************************************************************************)
(* What the ticket workflow promises its users, whatever the handlers do   *)
(* to keep the promise: the moves STATUS_TRANSITIONS of ticket_routes.py   *)
(* lists (and an HR answer resolving a ticket nobody picked up), at most   *)
(* one move of a ticket at a time, terminal statuses that stay, and an     *)
(* automatic closing only of tickets whose own deadline has passed.        *)
(***************************************************************************)
EXTENDS Integers

CONSTANTS TicketId, CloseDelay, None

VARIABLES status, deadline, clock

vars == <<status, deadline, clock>>

Init ==
    /\ status = [t \in TicketId |-> None]
    /\ deadline = [t \in TicketId |-> None]
    /\ clock = 0

Move(t, from, to, d) ==
    /\ status[t] \in from
    /\ status' = [status EXCEPT ![t] = to]
    /\ deadline' = [deadline EXCEPT ![t] = d]
    /\ UNCHANGED clock

Raise(t)   == Move(t, {None}, "raised", None)
Assign(t)  == Move(t, {"raised"}, "assigned", None)
Work(t)    == Move(t, {"raised", "assigned"}, "in_progress", None)
Reject(t)  == Move(t, {"raised", "assigned", "in_progress"}, "rejected", None)
\* The deadline counts from when the request came in, which may be a while ago.
Resolve(t) == \E d \in CloseDelay .. clock + CloseDelay :
                 Move(t, {"raised", "assigned", "in_progress"}, "resolved", d)
Reopen(t)  == Move(t, {"resolved"}, "in_progress", None)
\* HR head closing keeps the deadline on the row, the raiser accepting clears it.
Close(t)   == \E d \in {None, deadline[t]} : Move(t, {"resolved"}, "closed", d)

AutoClose(due) ==
    /\ \A t \in due : status[t] = "resolved" /\ deadline[t] <= clock
    /\ status' = [t \in TicketId |-> IF t \in due THEN "closed" ELSE status[t]]
    /\ UNCHANGED <<deadline, clock>>

Tick == clock' = clock + 1 /\ UNCHANGED <<status, deadline>>

Next ==
    \/ Tick
    \/ \E t \in TicketId : \/ Raise(t) \/ Assign(t) \/ Work(t) \/ Reject(t)
                           \/ Resolve(t) \/ Reopen(t) \/ Close(t)
    \/ \E due \in SUBSET TicketId : AutoClose(due)

Spec == Init /\ [][Next]_vars
=============================================================================
