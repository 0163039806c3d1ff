----------------------------- MODULE Webhooks ------------------------------
(***************************************************************************)
(* Delivery of webhooks: dispatch_webhook_if_configured puts a             *)
(* deliver_webhook task on the queue "webhooks", a Celery worker posts it  *)
(* to the tenant's endpoint and retries what did not get an answer.        *)
(* backend/app/workers/webhook_tasks.py and the delivery settings of       *)
(* celery_app.py.  The endpoint is the tenant's own, modelled by the       *)
(* answers it can give.                                                    *)
(*                                                                         *)
(* Left out: payload, truncation and signature, delays between attempts,   *)
(* the timing of the answers.                                              *)
(***************************************************************************)
EXTENDS Integers, FiniteSets

CONSTANTS
    Celery,       \* Celery worker processes
    Hook,         \* dispatches: an event of a tenant with a configured URL
    max_retries,  \* 3 in the code
    MaxLost       \* bound: Celery workers lost in the middle of a task

VARIABLES
    waiting,  \* deliveries on the queue and the retries they have behind them
    task,     \* what each Celery worker runs
    result,   \* how the task of a dispatch ended
    got,      \* how often the endpoint took a delivery in
    trouble,  \* answers that were lost, or whose worker was
    lost

vars == <<waiting, task, result, got, trouble, lost>>

Idle == [pc |-> "idle"]
Results == {"delivered", "refused", "exhausted"}

TypeOK ==
    /\ waiting \subseteq [hook : Hook, retries : 0..max_retries]
    /\ \A c \in Celery : task[c] = Idle \/ task[c].hook \in Hook
    /\ result \in [Hook -> Results \cup {"new", "sent"}]
    /\ got \in [Hook -> Nat] /\ trouble \in [Hook -> Nat]
    /\ lost \in 0..MaxLost

Init ==
    /\ waiting = {} /\ task = [c \in Celery |-> Idle]
    /\ result = [h \in Hook |-> "new"]
    /\ got = [h \in Hook |-> 0] /\ trouble = [h \in Hook |-> 0]
    /\ lost = 0

\* dispatch_webhook_if_configured, for a tenant that subscribed to the event.
Dispatch(h) ==
    /\ result[h] = "new"
    /\ waiting' = waiting \cup {[hook |-> h, retries |-> 0]}
    /\ result' = [result EXCEPT ![h] = "sent"]
    /\ UNCHANGED <<task, got, trouble, lost>>

Take(c) ==
    /\ task[c] = Idle
    /\ \E m \in waiting :
          /\ waiting' = waiting \ {m}
          /\ task' = [task EXCEPT ![c] = [pc |-> "post", hook |-> m.hook, retries |-> m.retries]]
    /\ UNCHANGED <<result, got, trouble, lost>>

(* The POST, and what became of it: the endpoint takes it in and says so     *)
(* (2xx), refuses it (4xx), breaks (5xx), never sees it, or takes it in and  *)
(* the answer is too late.                                                   *)
Answers == {"2xx", "4xx", "5xx", "unsent", "late"}
TakenIn == {"2xx", "late"}
Post(c, answer) ==
    LET h == task[c].hook
    IN  /\ task[c].pc = "post"
        /\ task' = [task EXCEPT ![c] = [pc |-> answer, hook |-> h, retries |-> task[c].retries]]
        /\ got' = [got EXCEPT ![h] = @ + (IF answer \in TakenIn THEN 1 ELSE 0)]
        /\ trouble' = [trouble EXCEPT ![h] = @ + (IF answer = "late" THEN 1 ELSE 0)]
        /\ UNCHANGED <<waiting, result, lost>>

\* Answers the task does not try again after: only these end it.
Final_Refused == {"4xx"}
Final == {"2xx", "4xx"}
End(c) ==
    /\ task[c].pc \in Final
    /\ result' = [result EXCEPT ![task[c].hook] = IF task[c].pc = "2xx" THEN "delivered" ELSE "refused"]
    /\ task' = [task EXCEPT ![c] = Idle]
    /\ UNCHANGED <<waiting, got, trouble, lost>>
\* self.retry: the attempts run out after max_retries.
Again(c) ==
    /\ task[c].pc \in Answers \ Final
    /\ task[c].retries < max_retries
    /\ waiting' = waiting \cup {[hook |-> task[c].hook, retries |-> task[c].retries + 1]}
    /\ task' = [task EXCEPT ![c] = Idle]
    /\ UNCHANGED <<result, got, trouble, lost>>
GiveUp(c) ==
    /\ task[c].pc \in Answers \ Final
    /\ task[c].retries >= max_retries
    /\ result' = [result EXCEPT ![task[c].hook] = "exhausted"]
    /\ task' = [task EXCEPT ![c] = Idle]
    /\ UNCHANGED <<waiting, got, trouble, lost>>

\* Acknowledged late, rejected on worker loss: delivered again as it was.
Redelivered_Never(m) == waiting
Redelivered(m) == waiting \cup {m}
WorkerLost(c) ==
    LET h == task[c].hook
    IN  /\ task[c] # Idle /\ lost < MaxLost
        /\ waiting' = Redelivered([hook |-> h, retries |-> task[c].retries])
        /\ trouble' = [trouble EXCEPT ![h] = @ + (IF task[c].pc = "2xx" THEN 1 ELSE 0)]
        /\ lost' = lost + 1
        /\ task' = [task EXCEPT ![c] = Idle]
        /\ UNCHANGED <<result, got>>

Run(c) == Take(c) \/ (\E answer \in Answers : Post(c, answer)) \/ End(c) \/ Again(c) \/ GiveUp(c)

Next ==
    \/ \E h \in Hook : Dispatch(h)
    \/ \E c \in Celery : Run(c) \/ WorkerLost(c)

\* Celery workers keep taking and finishing tasks; events need not happen.
Fairness == \A c \in Celery : WF_vars(Run(c))

Spec == Init /\ [][Next]_vars /\ Fairness

-----------------------------------------------------------------------------
(* Properties *)

(* The endpoint gets a second copy of an event only for an answer that was   *)
(* lost on the way or with its worker: neither retries nor redelivery repeat *)
(* what was acknowledged.                                                    *)
DuplicatesArePaidFor ==
    \A h \in Hook : got[h] <= trouble[h] + 1

(* Every dispatch comes to an end, whatever the endpoint answers and although*)
(* workers are lost, and one reported as delivered was taken in.             *)
DispatchEnds ==
    \A h \in Hook : result[h] = "sent" ~> \/ result[h] \in {"refused", "exhausted"}
                                          \/ result[h] = "delivered" /\ got[h] > 0
=============================================================================
