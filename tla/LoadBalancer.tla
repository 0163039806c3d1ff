---------------------------- MODULE LoadBalancer ----------------------------
(***************************************************************************)
(* The load balancer of the Ollama nodes:                                  *)
(* backend/app/core/llm_load_balancer.py.  Nothing in the repository calls *)
(* it; the callers here keep to its documented protocol: get_node,         *)
(* record_start, the request, record_end.                                  *)
(*                                                                         *)
(* A health check is a thread of its own, started by whoever asks for a    *)
(* node while the last check of one is old; nobody waits for it.  Left     *)
(* out: the statistics and the making of the one instance.                 *)
(***************************************************************************)
EXTENDS Integers, FiniteSets

CONSTANTS
    NodeCount,   \* the nodes are numbered, in the order they were configured
    Caller,      \* threads that send requests
    Thread,      \* bound: health checks of one node that run at a time
    MaxOutages   \* bound: times a node goes down

Node == 1..NodeCount

VARIABLES
    up,         \* whether a node answers
    outages,    \* times one went down
    healthy,    \* OllamaNode.healthy
    old,        \* its last_health_check is longer ago than the interval
    in_flight,  \* OllamaNode.in_flight
    check,      \* what the health-check threads of each node are doing
    call        \* what each caller is doing

vars == <<up, outages, healthy, old, in_flight, check, call>>

Rest == [pc |-> "idle"]

TypeOK ==
    /\ up \in [Node -> BOOLEAN] /\ healthy \in [Node -> BOOLEAN]
    /\ old \in [Node -> BOOLEAN] /\ outages \in 0..MaxOutages
    /\ in_flight \in [Node -> 0..Cardinality(Caller)]
    /\ check \in [Node -> [Thread -> {"idle", "probe", "up", "down"}]]
    /\ \A c \in Caller : call[c].pc \in {"idle", "chosen", "sending"}

\* A new balancer takes every node for healthy and has checked none.
Init ==
    /\ up = [n \in Node |-> TRUE] /\ outages = 0
    /\ healthy = [n \in Node |-> TRUE]
    /\ old = [n \in Node |-> TRUE]
    /\ in_flight = [n \in Node |-> 0]
    /\ check = [n \in Node |-> [t \in Thread |-> "idle"]]
    /\ call = [c \in Caller |-> Rest]

\* Of the healthy nodes the first of those with the fewest requests.
LeastBusy(n) ==
    /\ healthy[n]
    /\ \A m \in Node : healthy[m] =>
          \/ in_flight[n] < in_flight[m]
          \/ in_flight[n] = in_flight[m] /\ n <= m

\* _maybe_refresh_health: one more thread for every node whose last check is old.
Free(n) == {t \in Thread : check[n][t] = "idle"}
Refresh ==
    check' = [n \in Node |->
        IF old[n] /\ Free(n) # {}
        THEN [check[n] EXCEPT ![CHOOSE t \in Free(n) : TRUE] = "probe"]
        ELSE check[n]]

\* get_node starts the checks, then chooses, or raises when no node is healthy.
GetNode_RaisesFirst(c) ==
    /\ call[c] = Rest
    /\ \E n \in Node : LeastBusy(n) /\ call' = [call EXCEPT ![c] = [pc |-> "chosen", node |-> n]]
    /\ Refresh
    /\ UNCHANGED <<up, outages, healthy, old, in_flight>>
GetNode(c) ==
    /\ call[c] = Rest
    /\ Refresh
    /\ \/ \E n \in Node :
             LeastBusy(n) /\ call' = [call EXCEPT ![c] = [pc |-> "chosen", node |-> n]]
       \/ (\A n \in Node : ~healthy[n]) /\ UNCHANGED call
    /\ UNCHANGED <<up, outages, healthy, old, in_flight>>

RecordStart(c) ==
    /\ call[c].pc = "chosen"
    /\ in_flight' = [in_flight EXCEPT ![call[c].node] = @ + 1]
    /\ call' = [call EXCEPT ![c] = [@ EXCEPT !.pc = "sending"]]
    /\ UNCHANGED <<up, outages, healthy, old, check>>

\* record_end; after a failure the node is to be checked again.
EndedFlight(n, success) == IF in_flight[n] > 0 THEN in_flight[n] - 1 ELSE 0
RecordEnd(c) ==
    /\ call[c].pc = "sending"
    /\ \E success \in {up[call[c].node], FALSE} :
          LET n == call[c].node IN
          /\ in_flight' = [in_flight EXCEPT ![n] = EndedFlight(n, success)]
          /\ old' = [old EXCEPT ![n] = @ \/ ~success]
    /\ call' = [call EXCEPT ![c] = Rest]
    /\ UNCHANGED <<up, outages, healthy, check>>

\* _check_node_health: the probe, and later what it found.
Probe(n, t) ==
    /\ check[n][t] = "probe"
    /\ check' = [check EXCEPT ![n][t] = IF up[n] THEN "up" ELSE "down"]
    /\ UNCHANGED <<up, outages, healthy, old, in_flight, call>>
Mark(n, t) ==
    /\ check[n][t] \in {"up", "down"}
    /\ healthy' = [healthy EXCEPT ![n] = (check[n][t] = "up")]
    /\ old' = [old EXCEPT ![n] = FALSE]
    /\ check' = [check EXCEPT ![n][t] = "idle"]
    /\ UNCHANGED <<up, outages, in_flight, call>>

\* HEALTH_CHECK_INTERVAL passes; nodes go down and come back.
Age(n) ==
    /\ ~old[n] /\ old' = [old EXCEPT ![n] = TRUE]
    /\ UNCHANGED <<up, outages, healthy, in_flight, check, call>>
Turn(n) ==
    /\ outages < MaxOutages \/ ~up[n]
    /\ up' = [up EXCEPT ![n] = ~@]
    /\ outages' = IF up[n] THEN outages + 1 ELSE outages
    /\ UNCHANGED <<healthy, old, in_flight, check, call>>

Next ==
    \/ \E c \in Caller : GetNode(c) \/ RecordStart(c) \/ RecordEnd(c)
    \/ \E n \in Node : \/ \E t \in Thread : Probe(n, t) \/ Mark(n, t)
                      \/ Age(n) \/ Turn(n)

Spec == Init /\ [][Next]_vars

\* A probe ends within its timeout of 5 s, time passes, and requests keep coming
\* and end: what the promise below is for.
Fairness ==
    /\ \A n \in Node : /\ \A t \in Thread : WF_vars(Probe(n, t)) /\ WF_vars(Mark(n, t))
                       /\ WF_vars(Age(n))
    /\ \A c \in Caller : /\ WF_vars(GetNode(c))
                         /\ WF_vars(RecordStart(c)) /\ WF_vars(RecordEnd(c))

-----------------------------------------------------------------------------
(* Properties                                                                *)

\* A node that stays up is in use again for good, also after all of them were
\* down, and in spite of checks that were slow to say what they once found.
UpIsFoundHealthy ==
    \A n \in Node : <>[](up[n]) => <>[](healthy[n])
=============================================================================
