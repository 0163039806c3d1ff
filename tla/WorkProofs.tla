----------------------------- MODULE WorkProofs -----------------------------
(***************************************************************************)
(* Proofs about Webhooks and IngestionTasks, for any number of workers and *)
(* Celery processes, deaths of either and redeliveries.                    *)
(*                                                                         *)
(* A webhook is repeated only when something went wrong, because a         *)
(* delivery is in one place at a time (OnePlace) and its trouble was       *)
(* counted before it was put back (Paid).  An ingestion row is             *)
(* 'processing' only while a task for the document waits or runs: every    *)
(* step that lets a task go has another for it or writes a verdict first   *)
(* (ProcessingKept).                                                       *)
(***************************************************************************)
EXTENDS MCWork, TLAPS

-----------------------------------------------------------------------------
(* Webhooks *)

Delivery == [hook : Hook, retries : Nat]
WRun == [pc : {"idle"}] \cup [pc : {"post"} \cup W!Answers, hook : Hook, retries : Nat]
Serving(c) == run[c].pc # "idle"

WTypes ==
    /\ waiting \subseteq Delivery
    /\ run \in [Celery -> WRun]
    /\ result \in [Hook -> W!Results \cup {"new", "sent"}]
    /\ got \in [Hook -> Nat] /\ trouble \in [Hook -> Nat]

(* A delivery is in one place: on the queue, with one worker, or over.       *)
OnePlace ==
    /\ \A m \in waiting : result[m.hook] = "sent"
    /\ \A c \in Celery : Serving(c) => result[run[c].hook] = "sent"
    /\ \A m, n \in waiting : m.hook = n.hook => m = n
    /\ \A m \in waiting, c \in Celery : Serving(c) => m.hook # run[c].hook
    /\ \A b, c \in Celery : Serving(b) /\ Serving(c) /\ run[b].hook = run[c].hook => b = c

(* Until the endpoint has answered, what it took in is paid for.             *)
Paid ==
    /\ \A h \in Hook : result[h] = "new" => got[h] <= trouble[h]
    /\ \A m \in waiting : got[m.hook] <= trouble[m.hook]
    /\ \A c \in Celery : Serving(c) /\ run[c].pc # "2xx" => got[run[c].hook] <= trouble[run[c].hook]

WInv == WTypes /\ OnePlace /\ Paid /\ DuplicatesArePaidFor

(* dispatch_event: a delivery for the endpoint is queued.                    *)
LEMMA DispatchInv == ASSUME WInv, NEW h \in Hook, W!Dispatch(h) PROVE WInv'
  <1>1. WTypes'
    BY DEF W!Dispatch, WInv, WTypes, Delivery
  <1>2. OnePlace'
    BY DEF W!Dispatch, WInv, WTypes, OnePlace, Serving, Delivery
  <1>3. Paid'
    BY DEF W!Dispatch, WInv, WTypes, Paid, Serving, Delivery
  <1>4. DuplicatesArePaidFor'
    BY DEF W!Dispatch, WInv, DuplicatesArePaidFor, W!DuplicatesArePaidFor
  <1> QED
    BY <1>1, <1>2, <1>3, <1>4 DEF WInv

(* What a worker that serves a delivery holds.                               *)
LEMMA RunTypes ==
    ASSUME WTypes, NEW c \in Celery, Serving(c)
    PROVE  /\ run[c].pc \in {"post"} \cup W!Answers
           /\ run[c].hook \in Hook /\ run[c].retries \in Nat
  BY DEF WTypes, Serving, WRun

(* A worker takes a delivery from the queue.                                 *)
LEMMA WTakeInv == ASSUME WInv, NEW c \in Celery, W!Take(c) PROVE WInv'
  <1>1. PICK m \in waiting :
          /\ waiting' = waiting \ {m}
          /\ run' = [run EXCEPT ![c] = [pc |-> "post", hook |-> m.hook, retries |-> m.retries]]
    BY DEF W!Take
  <1>2. UNCHANGED <<result, got, trouble>>
    BY DEF W!Take
  <1>3. m.hook \in Hook /\ m.retries \in Nat
    BY DEF WInv, WTypes, Delivery
  <1>4. run'[c] = [pc |-> "post", hook |-> m.hook, retries |-> m.retries]
        /\ \A b \in Celery \ {c} : run'[b] = run[b]
    BY <1>1 DEF WInv, WTypes
  <1>5. WTypes'
    BY <1>1, <1>2, <1>3 DEF WInv, WTypes, WRun
  <1>6. OnePlace'
    BY <1>1, <1>2, <1>3, <1>4 DEF WInv, OnePlace, Serving
  <1>7. Paid'
    BY <1>1, <1>2, <1>3, <1>4 DEF WInv, Paid, Serving
  <1>8. DuplicatesArePaidFor'
    BY <1>2 DEF WInv, DuplicatesArePaidFor, W!DuplicatesArePaidFor
  <1> QED
    BY <1>5, <1>6, <1>7, <1>8 DEF WInv

(* The POST, and what the endpoint answers, if anything.                     *)
LEMMA PostInv == ASSUME WInv, NEW c \in Celery, NEW answer \in W!Answers, W!Post(c, answer) PROVE WInv'
  <1> DEFINE h == run[c].hook
  <1>1. /\ run[c].pc = "post" /\ UNCHANGED <<waiting, result>>
        /\ run' = [run EXCEPT ![c] = [pc |-> answer, hook |-> h, retries |-> run[c].retries]]
        /\ got' = [got EXCEPT ![h] = @ + (IF answer \in W!TakenIn THEN 1 ELSE 0)]
        /\ trouble' = [trouble EXCEPT ![h] = @ + (IF answer = "late" THEN 1 ELSE 0)]
    BY DEF W!Post
  <1>2. Serving(c) /\ h \in Hook /\ run[c].retries \in Nat
    BY <1>1, RunTypes DEF WInv, Serving
  <1>3. run'[c] = [pc |-> answer, hook |-> h, retries |-> run[c].retries]
        /\ \A b \in Celery \ {c} : run'[b] = run[b]
    BY <1>1 DEF WInv, WTypes
  <1>4. /\ got' \in [Hook -> Nat] /\ trouble' \in [Hook -> Nat]
        /\ \A x \in Hook \ {h} : got'[x] = got[x] /\ trouble'[x] = trouble[x]
        /\ got'[h] <= trouble'[h] + 1
        /\ answer # "2xx" => got'[h] <= trouble'[h]
    <2>1. got[h] <= trouble[h] /\ got[h] \in Nat /\ trouble[h] \in Nat
      BY <1>1, <1>2 DEF WInv, Paid, WTypes
    <2> QED
      BY <1>1, <1>2, <2>1 DEF WInv, WTypes, W!TakenIn
  <1>5. answer # "idle"
    BY DEF W!Answers
  <1>6. WTypes'
    BY <1>1, <1>2, <1>4 DEF WInv, WTypes, WRun
  <1>7. OnePlace'
    BY <1>1, <1>2, <1>3, <1>5 DEF WInv, OnePlace, Serving
  <1>8. Paid'
    <2>1. \A m \in waiting : m.hook \in Hook /\ m.hook # h
      BY <1>2 DEF WInv, WTypes, Delivery, OnePlace
    <2>2. \A b \in Celery \ {c} : Serving(b) => run[b].hook \in Hook /\ run[b].hook # h
      BY <1>2, RunTypes DEF WInv, OnePlace
    <2>3. result[h] = "sent"
      BY <1>2 DEF WInv, OnePlace
    <2> HIDE DEF h
    <2> QED
      BY <1>1, <1>2, <1>3, <1>4, <2>1, <2>2, <2>3 DEF WInv, Paid, Serving
  <1>9. DuplicatesArePaidFor'
    BY <1>4 DEF WInv, DuplicatesArePaidFor, W!DuplicatesArePaidFor
  <1> QED
    BY <1>6, <1>7, <1>8, <1>9 DEF WInv

(* A worker lets its delivery go: back to the queue, or ended.               *)
LEMMA WReleaseInv ==
    ASSUME WInv, NEW c \in Celery, Serving(c), run' = [run EXCEPT ![c] = [pc |-> "idle"]],
           got' = got, trouble' \in [Hook -> Nat], \A h \in Hook : trouble[h] <= trouble'[h],
           \/ \E m \in Delivery : /\ m.hook = run[c].hook /\ waiting' = waiting \cup {m}
                                  /\ got[m.hook] <= trouble'[m.hook] /\ result' = result
           \/ /\ waiting' = waiting
              /\ \E r \in W!Results : result' = [result EXCEPT ![run[c].hook] = r]
    PROVE  WInv'
  <1> DEFINE h == run[c].hook
  <1>1. h \in Hook
    BY RunTypes DEF WInv
  <1>2. run' \in [Celery -> WRun]
        /\ \A b \in Celery : Serving(b)' <=> b # c /\ Serving(b)
    BY DEF WInv, WTypes, WRun, Serving
  <1>3. \A b \in Celery \ {c} : run'[b] = run[b]
    BY DEF WInv, WTypes
  <1>4. /\ \A m \in waiting : m.hook \in Hook /\ m.hook # h
        /\ \A b \in Celery \ {c} : Serving(b) => run[b].hook \in Hook /\ run[b].hook # h
    BY RunTypes DEF WInv, WTypes, Delivery, OnePlace
  <1>5. \A x \in Hook : got[x] \in Nat /\ trouble[x] \in Nat /\ trouble'[x] \in Nat
    BY DEF WInv, WTypes
  <1>6. CASE \E m \in Delivery : /\ m.hook = h /\ waiting' = waiting \cup {m}
                                 /\ got[m.hook] <= trouble'[m.hook] /\ result' = result
    <2>1. PICK m \in Delivery : /\ m.hook = h /\ waiting' = waiting \cup {m}
                                /\ got[m.hook] <= trouble'[m.hook] /\ result' = result
      BY <1>6
    <2>2. WTypes'
      BY <1>2, <2>1 DEF WInv, WTypes
    <2>3. result[h] = "sent"
      BY DEF WInv, OnePlace
    <2> HIDE DEF h
    <2>4. OnePlace'
      BY <1>1, <1>2, <1>3, <1>4, <2>1, <2>3 DEF WInv, OnePlace
    <2>5. Paid'
      BY <1>1, <1>2, <1>3, <1>4, <1>5, <2>1, <2>3 DEF WInv, Paid
    <2>6. DuplicatesArePaidFor'
      BY <1>5 DEF WInv, DuplicatesArePaidFor, W!DuplicatesArePaidFor
    <2> QED
      BY <2>2, <2>4, <2>5, <2>6 DEF WInv
  <1>7. CASE waiting' = waiting /\ \E r \in W!Results : result' = [result EXCEPT ![h] = r]
    <2>1. PICK r \in W!Results : result' = [result EXCEPT ![h] = r]
      BY <1>7
    <2>2. WTypes'
      BY <1>2, <1>7, <2>1 DEF WInv, WTypes
    <2>3. r # "new" /\ \A x \in Hook : result'[x] = IF x = h THEN r ELSE result[x]
      BY <2>1 DEF WInv, WTypes, W!Results
    <2> HIDE DEF h
    <2>4. OnePlace'
      BY <1>1, <1>2, <1>3, <1>4, <1>7, <2>3 DEF WInv, OnePlace
    <2>5. Paid'
      BY <1>1, <1>2, <1>3, <1>4, <1>5, <1>7, <2>3 DEF WInv, Paid
    <2>6. DuplicatesArePaidFor'
      BY <1>5 DEF WInv, DuplicatesArePaidFor, W!DuplicatesArePaidFor
    <2> QED
      BY <2>2, <2>4, <2>5, <2>6 DEF WInv
  <1> QED
    BY <1>6, <1>7

(* The steps with which a delivery leaves its worker.                        *)
LEMMA EndsInv ==
    ASSUME WInv, NEW c \in Celery, W!End(c) \/ W!Again(c) \/ W!GiveUp(c) \/ W!WorkerLost(c)
    PROVE  WInv'
  <1> DEFINE h == run[c].hook
  <1>1. /\ run' = [run EXCEPT ![c] = [pc |-> "idle"]] /\ got' = got
        /\ Serving(c)
    BY DEF W!End, W!Again, W!GiveUp, W!WorkerLost, W!Idle, W!Final, W!Answers, Serving, WInv, WTypes, WRun
  <1>2. h \in Hook /\ run[c].retries \in Nat
    BY <1>1, RunTypes DEF WInv
  <1>3. got[h] \in Nat /\ trouble[h] \in Nat /\ got[h] <= trouble[h] + 1
        /\ (run[c].pc # "2xx" => got[h] <= trouble[h])
    BY <1>1, <1>2 DEF WInv, WTypes, Paid, DuplicatesArePaidFor, W!DuplicatesArePaidFor
  <1>4. CASE W!End(c) \/ W!GiveUp(c)
    <2>1. /\ waiting' = waiting /\ trouble' = trouble
          /\ \E r \in W!Results : result' = [result EXCEPT ![h] = r]
      BY <1>4 DEF W!End, W!GiveUp, W!Results
    <2> QED
      <3>1. trouble' \in [Hook -> Nat] /\ \A x \in Hook : trouble[x] <= trouble'[x]
        BY <2>1 DEF WInv, WTypes
      <3> QED
        BY <1>1, <2>1, <3>1, WReleaseInv
  <1>5. CASE W!Again(c)
    <2> DEFINE m == [hook |-> h, retries |-> run[c].retries + 1]
    <2>1. waiting' = waiting \cup {m} /\ trouble' = trouble /\ result' = result /\ run[c].pc # "2xx"
      BY <1>5 DEF W!Again, W!Final
    <2>2. m \in Delivery /\ m.hook = h
      BY <1>2 DEF Delivery
    <2>3. trouble' \in [Hook -> Nat] /\ \A x \in Hook : trouble[x] <= trouble'[x]
      BY <2>1 DEF WInv, WTypes
    <2> HIDE DEF m
    <2> QED
      BY <1>1, <1>3, <2>1, <2>2, <2>3, WReleaseInv
  <1>6. CASE W!WorkerLost(c)
    <2> DEFINE m == [hook |-> h, retries |-> run[c].retries]
    <2>1. /\ waiting' = waiting \cup {m} /\ result' = result
          /\ trouble' = [trouble EXCEPT ![h] = @ + (IF run[c].pc = "2xx" THEN 1 ELSE 0)]
      BY <1>6 DEF W!WorkerLost, W!Redelivered
    <2>2. m \in Delivery /\ m.hook = h
      BY <1>2 DEF Delivery
    <2>3. /\ trouble' \in [Hook -> Nat] /\ \A x \in Hook : trouble[x] <= trouble'[x]
          /\ got[h] <= trouble'[h]
      BY <1>2, <1>3, <2>1 DEF WInv, WTypes
    <2> HIDE DEF m
    <2> QED
      BY <1>1, <1>3, <2>1, <2>2, <2>3, WReleaseInv
  <1> QED
    BY <1>4, <1>5, <1>6

(* However many workers there are and die, an endpoint gets an event again   *)
(* only after a lost answer, an error or the loss of a worker, one time for  *)
(* each.                                                                     *)
THEOREM DuplicatesStayPaidFor == W!Spec => []DuplicatesArePaidFor
  <1>1. W!Init => WInv
    <2> SUFFICES ASSUME W!Init PROVE WInv
      OBVIOUS
    <2>1. WTypes
      BY DEF W!Init, W!Idle, WTypes, WRun
    <2> QED
      BY <2>1 DEF W!Init, W!Idle, WInv, OnePlace, Serving, Paid, DuplicatesArePaidFor, W!DuplicatesArePaidFor
  <1>2. WInv /\ [W!Next]_wvars => WInv'
    <2> SUFFICES ASSUME WInv, [W!Next]_wvars PROVE WInv'
      OBVIOUS
    <2>1. CASE W!Next
      BY <2>1, DispatchInv, WTakeInv, PostInv, EndsInv DEF W!Next, W!Run
    <2>2. CASE UNCHANGED wvars
      BY <2>2 DEF wvars, WInv, WTypes, OnePlace, Serving, Paid, DuplicatesArePaidFor, W!DuplicatesArePaidFor
    <2> QED
      BY <2>1, <2>2
  <1>3. WInv => DuplicatesArePaidFor
    BY DEF WInv
  <1> QED
    BY <1>1, <1>2, <1>3, PTL DEF W!Spec, W!vars, wvars

-----------------------------------------------------------------------------
(* Ingestion tasks *)

IRow == [status : {"pending", "processing", "done", "failed"}, content : Content]
ITask == [doc : Doc, retries : Nat]
Run == [pc : {"start", "ingest", "raised", "retry"}, task : ITask]
UploadReq == [pc : {"insert", "enqueue"}, doc : Doc, content : Content]
RetryReq  == [pc : {"reset", "again"}, doc : Doc]
IReq == [pc : {"idle"}] \cup UploadReq \cup RetryReq

ITypes ==
    /\ row \in [I!Rows -> IRow]
    /\ queue \in [DOMAIN queue -> Nat \ {0}] /\ DOMAIN queue \subseteq ITask
    /\ task \in [Celery -> {[pc |-> "idle"]} \cup Run]
    /\ req \in [Worker -> IReq]

IInv == ITypes /\ ProcessingHasTask

(* Tasks are told apart by their document only. *)
Running(c, d) == task[c] # [pc |-> "idle"] /\ task[c].task.doc = d
Waits(d) == \E t \in DOMAIN queue : t.doc = d

(* A document has a task on the queue or with a worker.                      *)
LEMMA HasTaskIs == \A d : I!HasTask(d) <=> Waits(d) \/ \E c \in Celery : Running(c, d)
  BY DEF I!HasTask, I!Idle, Waits, Running

(* What is on the queue after a task is put there or taken.                  *)
LEMMA QueueAdds ==
    ASSUME NEW q, NEW t
    PROVE DOMAIN I!BagAdd(q, t) = DOMAIN q \cup {t}
  BY DEF I!BagAdd
LEMMA QueueRemoves ==
    ASSUME NEW q, NEW t \in DOMAIN q
    PROVE DOMAIN I!BagRemove(q, t) \cup {t} = DOMAIN q
  BY DEF I!BagRemove

(* A row keeps its document, and whoever becomes 'processing' has a task.     *)
LEMMA ProcessingKept ==
    ASSUME IInv,
           \A d \in I!Rows' : \/ row'[d].status # "processing"
                              \/ d \in I!Rows /\ row[d].status = "processing"
                              \/ \E c \in Celery : Running(c, d)',
           \A d : Waits(d) \/ (\E c \in Celery : Running(c, d)) =>
                      \/ Waits(d)'
                      \/ \E c \in Celery : Running(c, d)'
                      \/ d \in I!Rows' => row'[d].status # "processing"
    PROVE  ProcessingHasTask'
  <1> SUFFICES ASSUME NEW d \in I!Rows', row'[d].status = "processing"
               PROVE  I!HasTask(d)'
    BY DEF ProcessingHasTask, I!ProcessingHasTask
  <1>1. Waits(d)' \/ \E c \in Celery : Running(c, d)'
    <2>1. CASE \E c \in Celery : Running(c, d)'
      BY <2>1
    <2>2. CASE d \in I!Rows /\ row[d].status = "processing"
      BY <2>2, HasTaskIs DEF IInv, ProcessingHasTask, I!ProcessingHasTask
    <2> QED
      BY <2>1, <2>2
  <1> QED
    BY <1>1 DEF I!HasTask, I!Idle, Waits, Running

(* The steps that touch neither queue nor tasks: what they write of a row is  *)
(* not "processing".                                                          *)
LEMMA RequestInv ==
    ASSUME IInv, row' \in [I!Rows' -> IRow], req' \in [Worker -> IReq], UNCHANGED <<queue, task>>,
           \A d \in I!Rows' : \/ row'[d].status # "processing"
                              \/ d \in I!Rows /\ row'[d] = row[d]
    PROVE  IInv'
  <1>1. ITypes'
    BY DEF IInv, ITypes
  <1>2. \A d : /\ Waits(d)' <=> Waits(d)
               /\ \A c \in Celery : Running(c, d)' <=> Running(c, d)
    BY DEF Waits, Running
  <1> QED
    BY <1>1, <1>2, ProcessingKept DEF IInv

(* _update_status writes the row of one document.                            *)
LEMMA StatusSet ==
    ASSUME ITypes, NEW d, NEW s \in {"pending", "processing", "done", "failed"}, I!SetStatus(d, s)
    PROVE  /\ I!Rows' = I!Rows /\ row' \in [I!Rows' -> IRow]
           /\ \A e \in I!Rows : IF e = d THEN row'[e].status = s ELSE row'[e] = row[e]
  BY DEF ITypes, I!SetStatus, I!Rows, IRow

(* A request moves on to its next step.                                      *)
LEMMA RequestPc ==
    ASSUME NEW q \in IReq, NEW r, NEW to
    PROVE  /\ q.pc = "insert" /\ to = "enqueue" /\ r = [q EXCEPT !.pc = to] => r \in IReq
           /\ q.pc = "reset" /\ to = "again" /\ r = [q EXCEPT !.pc = to] => r \in IReq
  <1>1. ASSUME NEW p \in UploadReq, r = [p EXCEPT !.pc = "enqueue"] PROVE r \in UploadReq
    BY <1>1 DEF UploadReq
  <1>2. ASSUME NEW p \in RetryReq, r = [p EXCEPT !.pc = "again"] PROVE r \in RetryReq
    BY <1>2 DEF RetryReq
  <1>3. q.pc = "insert" => q \in UploadReq
    BY DEF IReq, UploadReq, RetryReq
  <1>4. q.pc = "reset" => q \in RetryReq
    BY DEF IReq, UploadReq, RetryReq
  <1> QED
    BY <1>1, <1>2, <1>3, <1>4, Zenon DEF IReq

(* The requests of the API: upload_async, retry_ingestion, delete_doc.       *)
LEMMA UploadInv ==
    ASSUME IInv, NEW w \in Worker, NEW d \in Doc, NEW x \in Content, I!UploadStart(w, d, x)
    PROVE  IInv'
  <1> DEFINE r == [pc |-> "insert", doc |-> d, content |-> x]
  <1>1. PICK removed : row' = [e \in I!Rows \ removed |-> row[e]]
    BY DEF I!UploadStart
  <1>2. row' \in [I!Rows' -> IRow] /\ \A e \in I!Rows' : e \in I!Rows /\ row'[e] = row[e]
    BY <1>1 DEF I!Rows, IInv, ITypes
  <1>3. req' = [req EXCEPT ![w] = r] /\ UNCHANGED <<queue, task>>
    BY DEF I!UploadStart
  <1>4. r \in IReq
    BY DEF IReq, UploadReq
  <1>5. req' \in [Worker -> IReq]
    BY <1>3, <1>4 DEF IInv, ITypes
  <1> QED
    BY <1>2, <1>3, <1>5, RequestInv

LEMMA ServeInv ==
    ASSUME IInv, NEW w \in Worker,
           \/ I!UploadInsert(w) \/ I!UploadQueueDown(w) \/ I!RetryReset(w)
           \/ I!RetryQueueDown(w) \/ I!ApiLost(w)
           \/ \E d \in Doc : I!RetryRead(w, d) \/ I!Delete(w, d)
    PROVE  IInv'
  <1>1. UNCHANGED <<queue, task>>
    BY DEF I!UploadInsert, I!UploadQueueDown, I!RetryRead, I!RetryReset, I!RetryQueueDown, I!Delete, I!ApiLost
  <1>2. ITypes /\ req[w] \in IReq /\ row \in [I!Rows -> IRow] /\ [pc |-> "idle"] \in IReq
    BY DEF IInv, ITypes, IReq
  <1>3. CASE I!UploadInsert(w)
    <2>1. req[w].doc \in Doc /\ req[w].content \in Content /\ req[w].pc = "insert"
      BY <1>2, <1>3 DEF I!UploadInsert, IReq, UploadReq, RetryReq
    <2>2. PICK r : r = [req[w] EXCEPT !.pc = "enqueue"]
      OBVIOUS
    <2>3. req' = [req EXCEPT ![w] = r]
      BY <1>3, <2>2, Zenon DEF I!UploadInsert
    <2>4. req' \in [Worker -> IReq]
      BY <1>2, <2>1, <2>2, <2>3, RequestPc DEF ITypes
    <2>5. PICK e, n : e = req[w].doc /\ n = [status |-> "pending", content |-> req[w].content]
      OBVIOUS
    <2>6. row' = [y \in I!Rows \cup {e} |-> IF y = e THEN n ELSE row[y]]
      BY <1>3, <2>5, Zenon DEF I!UploadInsert
    <2>7. n \in IRow /\ n.status # "processing"
      BY <2>1, <2>5 DEF IRow
    <2>8. /\ row' \in [I!Rows' -> IRow]
          /\ \A y \in I!Rows' : (y = e /\ row'[y] = n) \/ (y \in I!Rows /\ row'[y] = row[y])
      BY <1>2, <2>6, <2>7 DEF I!Rows
    <2> QED
      BY <1>1, <2>4, <2>7, <2>8, RequestInv
  <1>4. CASE I!UploadQueueDown(w)
    <2>1. req' \in [Worker -> IReq]
      BY <1>2, <1>4 DEF I!UploadQueueDown, I!Idle, ITypes
    <2> QED
      BY <1>1, <1>2, <1>4, <2>1, StatusSet, RequestInv DEF I!UploadQueueDown
  <1>5. CASE I!RetryReset(w)
    <2>1. PICK r : r = [req[w] EXCEPT !.pc = "again"]
      OBVIOUS
    <2>2. req' = [req EXCEPT ![w] = r] /\ req[w].pc = "reset"
      BY <1>5, <2>1, Zenon DEF I!RetryReset
    <2>3. req' \in [Worker -> IReq]
      BY <1>2, <2>1, <2>2, RequestPc DEF ITypes
    <2> QED
      BY <1>1, <1>2, <1>5, <2>3, StatusSet, RequestInv DEF I!RetryReset
  <1>6. ASSUME NEW d \in Doc, I!RetryRead(w, d) PROVE IInv'
    <2> DEFINE r == [pc |-> "reset", doc |-> d]
    <2>1. r \in IReq
      BY DEF IReq, RetryReq
    <2>2. req' \in [Worker -> IReq] /\ row' = row
      BY <1>2, <1>6, <2>1 DEF I!RetryRead, ITypes
    <2> QED
      BY <1>1, <1>2, <2>2, RequestInv DEF I!Rows
  <1>7. CASE I!RetryQueueDown(w) \/ I!ApiLost(w)
    <2>1. req' \in [Worker -> IReq] /\ row' = row
      BY <1>2, <1>7 DEF I!RetryQueueDown, I!ApiLost, I!Idle, ITypes
    <2> QED
      BY <1>1, <1>2, <2>1, RequestInv DEF I!Rows
  <1>8. ASSUME NEW d \in Doc, I!Delete(w, d) PROVE IInv'
    <2>1. /\ req' = req /\ row' \in [I!Rows' -> IRow]
          /\ \A y \in I!Rows' : y \in I!Rows /\ row'[y] = row[y]
      BY <1>2, <1>8 DEF I!Delete, I!Rows
    <2> QED
      BY <1>1, <1>2, <2>1, RequestInv DEF ITypes
  <1> QED
    BY <1>3, <1>4, <1>5, <1>6, <1>7, <1>8

(* The steps that put a task on the queue or give it to a worker.            *)
LEMMA EnqueueInv ==
    ASSUME IInv, NEW w \in Worker, I!UploadEnqueue(w) \/ I!RetryEnqueue(w)
    PROVE  IInv'
  <1>1. PICK t : t = I!First(req[w].doc)
    OBVIOUS
  <1>2. queue' = I!BagAdd(queue, t) /\ req' = [req EXCEPT ![w] = [pc |-> "idle"]] /\ UNCHANGED <<row, task>>
    BY <1>1 DEF I!UploadEnqueue, I!RetryEnqueue, I!Enqueue, I!Idle
  <1>3. req[w].doc \in Doc
    BY DEF I!UploadEnqueue, I!RetryEnqueue, IInv, ITypes, IReq, UploadReq, RetryReq
  <1>4. t \in ITask
    BY <1>1, <1>3 DEF I!First, ITask
  <1>5. /\ DOMAIN queue' = DOMAIN queue \cup {t} /\ queue' \in [DOMAIN queue' -> Nat \ {0}]
    BY <1>2 DEF I!BagAdd, IInv, ITypes
  <1>6. ITypes'
    BY <1>2, <1>4, <1>5 DEF IInv, ITypes, IReq, I!Rows
  <1>7. \A d : (Waits(d) => Waits(d)') /\ \A c \in Celery : Running(c, d) <=> Running(c, d)'
    BY <1>2, <1>5 DEF Waits, Running
  <1>8. ProcessingHasTask'
    BY <1>2, <1>7, ProcessingKept DEF I!Rows
  <1> QED
    BY <1>6, <1>8 DEF IInv

LEMMA TakeInv ==
    ASSUME IInv, NEW c \in Celery, I!Take(c)
    PROVE  IInv'
  <1>1. PICK t \in DOMAIN queue :
          /\ queue' = I!BagRemove(queue, t)
          /\ task' = [task EXCEPT ![c] = [pc |-> "start", task |-> t]]
    BY DEF I!Take
  <1>2. task[c] = [pc |-> "idle"] /\ UNCHANGED <<row, req>>
    BY DEF I!Take, I!Idle
  <1>3. t \in ITask
    BY DEF IInv, ITypes
  <1>4. /\ DOMAIN queue \subseteq DOMAIN queue' \cup {t} /\ DOMAIN queue' \subseteq DOMAIN queue
        /\ queue' \in [DOMAIN queue' -> Nat \ {0}]
    BY <1>1 DEF I!BagRemove, IInv, ITypes
  <1> DEFINE r == [pc |-> "start", task |-> t]
  <1>5. r \in Run /\ r # [pc |-> "idle"] /\ r.task = t
    BY <1>3 DEF Run
  <1> HIDE DEF r
  <1>6. task'[c] = r /\ \A b \in Celery \ {c} : task'[b] = task[b]
    BY <1>1 DEF IInv, ITypes, r
  <1>7. ITypes'
    <2>1. task' = [task EXCEPT ![c] = r]
      BY <1>1 DEF r
    <2> QED
      BY <1>2, <1>4, <1>5, <2>1 DEF IInv, ITypes, I!Rows
  <1>8. \A d : Waits(d) => Waits(d)' \/ Running(c, d)'
    BY <1>4, <1>5, <1>6 DEF Waits, Running
  <1>9. \A d : \A b \in Celery : Running(b, d) => Running(b, d)'
    BY <1>2, <1>6 DEF Running
  <1>10. ProcessingHasTask'
    BY <1>2, <1>8, <1>9, ProcessingKept DEF I!Rows
  <1> QED
    BY <1>7, <1>10 DEF IInv

(* A task moves on to its next step.                                         *)
LEMMA RunPc ==
    ASSUME NEW q \in Run, NEW to \in {"ingest", "raised", "retry"}, NEW r, r = [q EXCEPT !.pc = to]
    PROVE  r \in Run /\ r.task = q.task /\ r # [pc |-> "idle"]
  <1>1. r \in Run
    BY DEF Run
  <1>2. r.task = q.task
    BY DEF Run
  <1> QED
    BY <1>1, <1>2 DEF Run

(* A worker that is not idle has a task.                                     *)
LEMMA IsRunning ==
    ASSUME ITypes, NEW c \in Celery, task[c].pc # "idle"
    PROVE  task[c] \in Run /\ task[c].task \in ITask /\ Running(c, task[c].task.doc)
  <1>1. task[c] \in Run
    BY DEF ITypes
  <1> QED
    BY <1>1 DEF Run, ITask, Running

(* A worker goes on with its task.                                           *)
LEMMA GoOnInv ==
    ASSUME IInv, NEW c \in Celery, I!Start(c) \/ I!Raise(c) \/ I!RetryLater(c)
    PROVE  IInv'
  <1>1. task[c].pc # "idle" /\ UNCHANGED <<queue, req>>
    BY DEF I!Start, I!Raise, I!RetryLater
  <1>2. PICK to \in {"ingest", "raised", "retry"} : task' = [task EXCEPT ![c].pc = to]
    BY DEF I!Start, I!Raise, I!RetryLater
  <1>3. PICK r : r = [task[c] EXCEPT !.pc = to]
    OBVIOUS
  <1>4. task' = [task EXCEPT ![c] = r]
    BY <1>2, <1>3, Zenon
  <1>5. ITypes /\ task[c] \in Run /\ task[c].task \in ITask
    BY <1>1, IsRunning DEF IInv
  <1>6. r \in Run /\ r.task = task[c].task /\ r # [pc |-> "idle"]
    BY <1>3, <1>5, RunPc
  <1>7. task'[c] = r /\ \A b \in Celery \ {c} : task'[b] = task[b]
    BY <1>4, <1>5 DEF ITypes
  <1>8. \A d : /\ Waits(d) <=> Waits(d)'
               /\ \A b \in Celery : Running(b, d) => Running(b, d)'
    BY <1>1, <1>6, <1>7 DEF Waits, Running
  <1>9. \/ row' = row
        \/ I!SetStatus(task[c].task.doc, "processing")
        \/ I!SetStatus(task[c].task.doc, "pending")
    BY DEF I!Start, I!Raise, I!RetryLater
  <1>10. /\ I!Rows' = I!Rows /\ row' \in [I!Rows' -> IRow]
         /\ \A e \in I!Rows : e = task[c].task.doc \/ row'[e] = row[e]
    BY <1>5, <1>9, StatusSet DEF ITypes, I!Rows
  <1>11. ITypes'
    BY <1>1, <1>4, <1>5, <1>6, <1>10 DEF ITypes
  <1>12. Running(c, task[c].task.doc)
    BY <1>1, IsRunning DEF IInv
  <1>13. ProcessingHasTask'
    BY <1>8, <1>10, <1>12, ProcessingKept
  <1> QED
    BY <1>11, <1>13 DEF IInv

(* A worker lets its task go: to the queue, or with a verdict.               *)
LEMMA ReleaseInv ==
    ASSUME IInv, NEW c \in Celery, I!Retry(c) \/ I!GiveUp(c) \/ I!WorkerLost(c)
    PROVE  IInv'
  <1>1. PICK d : d = task[c].task.doc
    OBVIOUS
  <1>2. task[c].pc # "idle" /\ task' = [task EXCEPT ![c] = [pc |-> "idle"]] /\ req' = req
    BY DEF I!Retry, I!GiveUp, I!WorkerLost, I!Idle, IInv, ITypes, Run
  <1>3. ITypes /\ task[c] \in Run /\ task[c].task \in ITask
    BY <1>2, IsRunning DEF IInv
  <1>4. task'[c] = [pc |-> "idle"] /\ \A b \in Celery \ {c} : task'[b] = task[b]
    BY <1>2, <1>3 DEF ITypes
  <1>5. \A e : \A b \in Celery : Running(b, e) => Running(b, e)' \/ e = d
    BY <1>4, <1>1 DEF Running
  <1>6. CASE I!Retry(c) \/ I!WorkerLost(c)
    <2>1. PICK t \in ITask : t.doc = d /\ queue' = I!BagAdd(queue, t)
      <3>1. PICK t : t = [task[c].task EXCEPT !.retries = @ + 1]
        OBVIOUS
      <3>2. t \in ITask /\ t.doc = d
        BY <1>3, <1>1, <3>1 DEF ITask
      <3>3. CASE I!Retry(c)
        BY <3>1, <3>2, <3>3 DEF I!Retry, I!Enqueue
      <3>4. CASE I!WorkerLost(c)
        BY <1>3, <1>1, <3>4 DEF I!WorkerLost, I!Redelivered
      <3> QED
        BY <1>6, <3>3, <3>4
    <2>2. row' = row
      BY <1>6 DEF I!Retry, I!WorkerLost
    <2>3. DOMAIN queue' = DOMAIN queue \cup {t} /\ queue' \in [DOMAIN queue' -> Nat \ {0}]
      BY <1>3, <2>1 DEF I!BagAdd, ITypes
    <2>4. Waits(d)' /\ \A e : Waits(e) => Waits(e)'
      BY <2>1, <2>3 DEF Waits
    <2>5. ITypes'
      BY <1>2, <1>3, <2>2, <2>3 DEF ITypes, I!Rows
    <2>6. ProcessingHasTask'
      BY <1>5, <2>2, <2>4, ProcessingKept DEF I!Rows
    <2> QED
      BY <2>5, <2>6 DEF IInv
  <1>7. CASE I!GiveUp(c)
    <2>1. queue' = queue /\ I!SetStatus(d, "failed")
      BY <1>7, <1>1 DEF I!GiveUp, I!Verdict
    <2>2. /\ I!Rows' = I!Rows /\ row' \in [I!Rows' -> IRow]
          /\ \A e \in I!Rows : IF e = d THEN row'[e].status = "failed" ELSE row'[e] = row[e]
      BY <1>3, <2>1, StatusSet
    <2>3. \A e : Waits(e) => Waits(e)'
      BY <2>1 DEF Waits
    <2>4. ITypes'
      BY <1>2, <1>3, <2>1, <2>2 DEF ITypes
    <2>5. ProcessingHasTask'
      BY <1>5, <2>2, <2>3, ProcessingKept
    <2> QED
      BY <2>4, <2>5 DEF IInv
  <1> QED
    BY <1>6, <1>7

(* However many workers there are and die, a document shown as 'processing'  *)
(* has a task that will deal with it: one waits on the queue or runs.        *)
THEOREM ProcessingKeepsTask == I!Spec => []ProcessingHasTask
  <1>1. I!Init => IInv
    <2> SUFFICES ASSUME I!Init PROVE IInv
      OBVIOUS
    <2>1. DOMAIN queue = {} /\ queue \in [DOMAIN queue -> Nat \ {0}]
      BY DEF I!Init
    <2>2. I!Rows = {} /\ row \in [I!Rows -> IRow]
      BY DEF I!Init, I!Rows
    <2>3. ITypes
      BY <2>1, <2>2 DEF I!Init, I!Idle, ITypes, IReq
    <2> QED
      BY <2>2, <2>3 DEF IInv, ProcessingHasTask, I!ProcessingHasTask
  <1>2. IInv /\ [I!Next]_ivars => IInv'
    <2> SUFFICES ASSUME IInv, [I!Next]_ivars PROVE IInv'
      OBVIOUS
    <2>1. ASSUME NEW w \in Worker, I!Serve(w) \/ I!ApiLost(w) PROVE IInv'
      BY <2>1, ServeInv, EnqueueInv DEF I!Serve
    <2>2. ASSUME NEW w \in Worker, NEW d \in Doc,
                 I!RetryRead(w, d) \/ I!Delete(w, d) \/ \E x \in Content : I!UploadStart(w, d, x)
          PROVE  IInv'
      BY <2>2, ServeInv, UploadInv
    <2>3. ASSUME NEW c \in Celery, I!Consume(c) \/ I!WorkerLost(c) PROVE IInv'
      BY <2>3, TakeInv, GoOnInv, ReleaseInv DEF I!Consume
    <2>4. CASE UNCHANGED ivars
      BY <2>4 DEF ivars, IInv, ITypes, ProcessingHasTask, I!ProcessingHasTask, I!HasTask, I!Rows
    <2> QED
      BY <2>1, <2>2, <2>3, <2>4 DEF I!Next
  <1>3. IInv => ProcessingHasTask
    BY DEF IInv
  <1> QED
    BY <1>1, <1>2, <1>3, PTL DEF I!Spec, I!vars, ivars

=============================================================================
