--------------------------- MODULE IngestionTasks --------------------------
(***************************************************************************)
(* Asynchronous ingestion: POST /documents/upload-async and                *)
(* POST /documents/{id}/retry put a Celery task on the queue, a Celery     *)
(* worker runs it and keeps documents.ingestion_status.                    *)
(* backend/app/api/document_routes.py, backend/app/workers/                *)
(* ingestion_tasks.py and the delivery settings of celery_app.py.          *)
(*                                                                         *)
(* Tasks are acknowledged late and rejected on worker loss: a task whose   *)
(* worker died is delivered again, with the attempt number it had.         *)
(*                                                                         *)
(* Left out: validation and rate limit of the upload, the job id and its   *)
(* result (read only), the copy of the status in PostgreSQL, delays.       *)
(***************************************************************************)
EXTENDS Integers, FiniteSets, Bags, BagsExt

CONSTANTS
    Worker,      \* uvicorn worker processes
    Celery,      \* Celery worker processes of the queue "ingestion"
    Doc,         \* document ids that may ever be issued
    Content,     \* contents that are uploaded
    max_retries, \* 3 in the code
    MaxTasks,    \* bound: tasks for one document at a time
    MaxLost      \* bound: Celery workers lost in the middle of a task

VARIABLES
    row,       \* table documents: ingestion_status and content of the rows
    issued,    \* document ids given to an upload
    disk,      \* documents whose file is in the upload directory
    queue,     \* the bag of tasks that wait for a worker
    task,      \* what each Celery worker runs
    req,       \* the request each uvicorn worker serves
    lost       \* Celery workers lost so far

vars == <<row, issued, disk, queue, task, req, lost>>

Idle  == [pc |-> "idle"]
Rows  == DOMAIN row
Tasks == [doc : Doc, retries : 0..max_retries]

TypeOK ==
    /\ Rows \subseteq Doc
    /\ \A d \in Rows : row[d] \in [status : {"pending", "processing", "done", "failed"},
                                   content : Content]
    /\ Rows \subseteq issued /\ disk \subseteq issued /\ issued \subseteq Doc
    /\ BagToSet(queue) \subseteq Tasks
    /\ \A c \in Celery : task[c] = Idle \/ task[c].task \in Tasks
    /\ DOMAIN req = Worker
    /\ lost \in 0..MaxLost

Init ==
    /\ row = [d \in {} |-> Idle] /\ disk = {} /\ issued = {}
    /\ queue = [t \in {} |-> 0]
    /\ task = [c \in Celery |-> Idle]
    /\ req = [w \in Worker |-> Idle]
    /\ lost = 0

\* _update_status: nothing happens to a row that is gone.
SetStatus(d, s) == row' = [x \in Rows |-> IF x = d THEN [row[x] EXCEPT !.status = s] ELSE row[x]]
Enqueue(t) == queue' = BagAdd(queue, t)
First(d)   == [doc |-> d, retries |-> 0]

TasksOf(d) == BagCardinality([t \in {x \in BagToSet(queue) : x.doc = d} |-> queue[t]])
              + Cardinality({c \in Celery : task[c] # Idle /\ task[c].task.doc = d})
HasTask(d) == \/ \E t \in DOMAIN queue : t.doc = d
              \/ \E c \in Celery : task[c] # Idle /\ task[c].task.doc = d

-----------------------------------------------------------------------------
(* POST /documents/upload-async *)

\* The document with the same content, if there is one, is removed, its tasks
\* stay; then the file is written.
UploadStart(w, d, x) ==
    LET dup == {e \in Rows : row[e].content = x}
    IN  /\ req[w] = Idle /\ d \notin issued
        /\ issued' = issued \cup {d}
        /\ \E gone \in IF dup = {} THEN {{}} ELSE {{e} : e \in dup} :
              /\ row' = [e \in Rows \ gone |-> row[e]]
              /\ disk' = (disk \ gone) \cup {d}
        /\ req' = [req EXCEPT ![w] = [pc |-> "insert", doc |-> d, content |-> x]]
        /\ UNCHANGED <<queue, task, lost>>
UploadInsert(w) ==
    /\ req[w].pc = "insert"
    /\ row' = [e \in Rows \cup {req[w].doc} |->
                  IF e = req[w].doc THEN [status |-> "pending", content |-> req[w].content] ELSE row[e]]
    /\ req' = [req EXCEPT ![w].pc = "enqueue"]
    /\ UNCHANGED <<issued, disk, queue, task, lost>>
UploadEnqueue(w) ==
    /\ req[w].pc = "enqueue"
    /\ Enqueue(First(req[w].doc))
    /\ req' = [req EXCEPT ![w] = Idle]
    /\ UNCHANGED <<issued, row, disk, task, lost>>
\* The broker does not answer: marked as failed, so that it can be retried.
UploadQueueDown(w) ==
    /\ req[w].pc = "enqueue"
    /\ SetStatus(req[w].doc, "failed")
    /\ req' = [req EXCEPT ![w] = Idle]
    /\ UNCHANGED <<issued, disk, queue, task, lost>>

-----------------------------------------------------------------------------
(* POST /documents/{id}/retry: a document that waits for its next attempt is *)
(* 'pending' as well, and gets a second task.                                *)

MayRetry(d) == row[d].status \notin {"processing", "done"}

RetryRead(w, d) ==
    /\ req[w] = Idle
    /\ d \in Rows /\ MayRetry(d) /\ d \in disk
    /\ TasksOf(d) < MaxTasks
    /\ req' = [req EXCEPT ![w] = [pc |-> "reset", doc |-> d]]
    /\ UNCHANGED <<issued, row, disk, queue, task, lost>>
RetryReset(w) ==
    /\ req[w].pc = "reset"
    /\ SetStatus(req[w].doc, "pending")
    /\ req' = [req EXCEPT ![w].pc = "again"]
    /\ UNCHANGED <<issued, disk, queue, task, lost>>
RetryEnqueue(w) ==
    /\ req[w].pc = "again"
    /\ Enqueue(First(req[w].doc))
    /\ req' = [req EXCEPT ![w] = Idle]
    /\ UNCHANGED <<issued, row, disk, task, lost>>
\* Here the document stays 'pending' without a task.
RetryQueueDown(w) ==
    /\ req[w].pc = "again"
    /\ req' = [req EXCEPT ![w] = Idle]
    /\ UNCHANGED <<issued, row, disk, queue, task, lost>>

\* DELETE /documents/{id}.
Delete(w, d) ==
    /\ req[w] = Idle /\ d \in Rows
    /\ row' = [e \in Rows \ {d} |-> row[e]] /\ disk' = disk \ {d}
    /\ UNCHANGED <<issued, queue, task, req, lost>>

-----------------------------------------------------------------------------
(* ingest_document *)

Take(c) ==
    /\ task[c] = Idle
    /\ \E t \in DOMAIN queue :
          /\ queue' = BagRemove(queue, t)
          /\ task' = [task EXCEPT ![c] = [pc |-> "start", task |-> t]]
    /\ UNCHANGED <<issued, row, disk, req, lost>>
Start(c) ==
    /\ task[c].pc = "start"
    /\ SetStatus(task[c].task.doc, "processing")
    /\ task' = [task EXCEPT ![c].pc = "ingest"]
    /\ UNCHANGED <<issued, disk, queue, req, lost>>

\* pipeline.ingest(file_path=..., document_id=...): IngestionPipeline.ingest has
\* neither parameter, so that every call raises a TypeError ...
Raise(c) ==
    /\ task[c].pc = "ingest"
    /\ task' = [task EXCEPT ![c].pc = "raised"]
    /\ UNCHANGED <<issued, row, disk, queue, req, lost>>
\* ... and the except clause counts the attempt.
Attempt(t) == t.retries + 1
RetryLater(c) ==
    LET t == task[c].task
    IN  /\ task[c].pc = "raised" /\ Attempt(t) <= max_retries
        /\ SetStatus(t.doc, "pending")
        /\ task' = [task EXCEPT ![c].pc = "retry"]
        /\ UNCHANGED <<issued, disk, queue, req, lost>>
Retry(c) ==
    /\ task[c].pc = "retry"
    /\ Enqueue([task[c].task EXCEPT !.retries = @ + 1])
    /\ task' = [task EXCEPT ![c] = Idle]
    /\ UNCHANGED <<issued, row, disk, req, lost>>
Verdict_Left == "processing"
Verdict == "failed"
GiveUp(c) ==
    LET t == task[c].task
    IN  /\ task[c].pc = "raised" /\ Attempt(t) > max_retries
        /\ SetStatus(t.doc, Verdict)
        /\ task' = [task EXCEPT ![c] = Idle]
        /\ UNCHANGED <<issued, disk, queue, req, lost>>

\* task_acks_late, task_reject_on_worker_lost: the broker delivers the task again.
Redelivered_AcksEarly(t) == queue
Redelivered(t) == BagAdd(queue, t)
WorkerLost(c) ==
    /\ task[c] # Idle /\ lost < MaxLost
    /\ queue' = Redelivered(task[c].task)
    /\ task' = [task EXCEPT ![c] = Idle]
    /\ lost' = lost + 1
    /\ UNCHANGED <<issued, row, disk, req>>
\* An API process dies in the middle of a request.
ApiLost(w) ==
    /\ req[w] # Idle
    /\ req' = [req EXCEPT ![w] = Idle]
    /\ UNCHANGED <<issued, row, disk, queue, task, lost>>

Serve(w)   == UploadInsert(w) \/ UploadEnqueue(w) \/ UploadQueueDown(w)
              \/ RetryReset(w) \/ RetryEnqueue(w) \/ RetryQueueDown(w)
Consume(c) == Take(c) \/ Start(c) \/ Raise(c) \/ RetryLater(c) \/ Retry(c) \/ GiveUp(c)

Next ==
    \/ \E w \in Worker : Serve(w) \/ ApiLost(w)
    \/ \E w \in Worker, d \in Doc :
          RetryRead(w, d) \/ Delete(w, d) \/ \E x \in Content : UploadStart(w, d, x)
    \/ \E c \in Celery : Consume(c) \/ WorkerLost(c)

(* A Celery worker process keeps taking and finishing tasks; nobody has to   *)
(* upload, retry or delete anything.                                         *)
Fairness == \A c \in Celery : WF_vars(Consume(c))

Spec == Init /\ [][Next]_vars /\ Fairness

-----------------------------------------------------------------------------
(* Properties *)

(* A document shown as 'processing', which cannot be retried, has a task     *)
(* that is running or will be delivered again: lost workers, second tasks    *)
(* for one document and replaced documents included.                         *)
ProcessingHasTask ==
    \A d \in Rows : row[d].status = "processing" => HasTask(d)

(* Every task ends in a verdict for its document, if that is still there:    *)
(* retries, redeliveries and second tasks do not leave it undecided.  What a *)
(* retry request reset without a task behind it is excepted.                 *)
TasksEndInVerdict ==
    \A d \in Doc : HasTask(d) ~> d \notin Rows \/ row[d].status \in {"done", "failed"}

(* "Celery worker handles ingestion in the background": a document whose     *)
(* upload put a task on the queue is eventually ingested.  The code breaks   *)
(* this, it never is.                                                        *)
UploadIsIngested ==
    \A d \in Doc : HasTask(d) ~> d \notin Rows \/ row[d].status = "done"
=============================================================================
