----------------------------- MODULE MCTickets -----------------------------
(* Instances of Tickets for TLC. *)
EXTENDS Tickets

(* The abstract workflow, of which one worker's table is an implementation. *)
Lifecycle == INSTANCE TicketLifecycle WITH
    status   <- [t \in TicketId |-> tickets[t].status],
    deadline <- [t \in TicketId |-> tickets[t].deadline]

(* Refinement: with a single worker process, every committed transaction of   *)
(* every handler is a move the workflow allows, or changes neither a status   *)
(* nor a deadline.                                                            *)
ImplementsLifecycle == Lifecycle!Spec
=============================================================================
