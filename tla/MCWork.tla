------------------------------- MODULE MCWork ------------------------------
(* What must come to an end, for TLC: IngestionTasks, Webhooks, LoadBalancer  *)
(* and Startup.  They share no state; the variable part says which of them a  *)
(* behaviour is about, and the others do not move in it.                      *)
EXTENDS Integers, FiniteSets

CONSTANTS Worker, Celery, max_retries, MaxLost, Doc, Content, MaxTasks,
          Hook,
          NodeCount, Caller, Thread, MaxOutages,
          Process, Columns, Defaults, MaxOwn, MaxCrashes

VARIABLES part,
          row, issued, disk, queue, task, req, lost,
          waiting, run, result, got, trouble, gone,
          up, outages, healthy, old, in_flight, check, call,
          tables, cols, faqs, boot, crashes

I == INSTANCE IngestionTasks
W == INSTANCE Webhooks WITH task <- run, lost <- gone
L == INSTANCE LoadBalancer
S == INSTANCE Startup WITH Worker <- Process

ivars == <<row, issued, disk, queue, task, req, lost>>
wvars == <<waiting, run, result, got, trouble, gone>>
lvars == <<up, outages, healthy, old, in_flight, check, call>>
svars == <<tables, cols, faqs, boot, crashes>>
all == <<part, ivars, wvars, lvars, svars>>

MCInit ==
    /\ part \in {"ingestion", "webhooks", "balancer", "startup"}
    /\ I!Init /\ W!Init /\ L!Init /\ S!Init
    /\ part # "startup" => ~tables /\ cols = {}
OfIngestion(A) == part = "ingestion" /\ A /\ UNCHANGED <<part, wvars, lvars, svars>>
OfWebhooks(A)  == part = "webhooks" /\ A /\ UNCHANGED <<part, ivars, lvars, svars>>
OfBalancer(A)  == part = "balancer" /\ A /\ UNCHANGED <<part, ivars, wvars, svars>>
OfStartup(A)   == part = "startup" /\ A /\ UNCHANGED <<part, ivars, wvars, lvars>>

MCNext == OfIngestion(I!Next) \/ OfWebhooks(W!Next) \/ OfBalancer(L!Next) \/ OfStartup(S!Next)

(* The fairness of the modules, for the part the behaviour is about: the      *)
(* steps of the others are never taken in it.                                 *)
MCFairness ==
    /\ \A c \in Celery : /\ WF_all(OfIngestion(I!Consume(c)))
                         /\ WF_all(OfWebhooks(W!Run(c)))
    /\ \A n \in L!Node : /\ \A t \in Thread : /\ WF_all(OfBalancer(L!Probe(n, t)))
                                               /\ WF_all(OfBalancer(L!Mark(n, t)))
                         /\ WF_all(OfBalancer(L!Age(n)))
    /\ \A a \in Caller : /\ WF_all(OfBalancer(L!GetNode(a)))
                         /\ WF_all(OfBalancer(L!RecordStart(a)))
                         /\ WF_all(OfBalancer(L!RecordEnd(a)))
    /\ \A p \in Process : WF_all(OfStartup(S!Boot(p)))
MCSpec == MCInit /\ [][MCNext]_all /\ MCFairness

(* The properties, under the names they have in their modules.               *)
ProcessingHasTask    == I!ProcessingHasTask
TasksEndInVerdict    == I!TasksEndInVerdict
DuplicatesArePaidFor == W!DuplicatesArePaidFor
DispatchEnds         == W!DispatchEnds
UpIsFoundHealthy     == L!UpIsFoundHealthy
StartsComplete       == part = "startup" => S!StartsComplete
=============================================================================
