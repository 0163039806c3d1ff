-------------------------- MODULE BackgroundTasks --------------------------
(***************************************************************************)
(* Background jobs of the API processes: the table background_tasks, the   *)
(* cancellation flags and the job functions themselves.                    *)
(* backend/app/core/background_tasks.py and the task endpoints of          *)
(* backend/app/api/admin_routes.py.                                        *)
(*                                                                         *)
(* A job runs on a thread of the process that created its task and shares  *)
(* with that process's event loop a dictionary of flags; the table is      *)
(* shared by all processes.  Every access to the table is a transaction of *)
(* its own, so the steps below interleave freely.                          *)
(*                                                                         *)
(* A write the database refuses is logged and forgotten, whatever it was   *)
(* to say.                                                                 *)
(*                                                                         *)
(* Left out: progress, results, error texts, and callbacks (nothing        *)
(* registers one).                                                         *)
(***************************************************************************)
EXTENDS Integers, Sequences, FiniteSets, SequencesExt

CONSTANTS
    Worker,            \* uvicorn worker processes
    Task,              \* task ids that may ever be issued
    MAX_TASK_HISTORY,  \* 200 in the code
    MaxRestarts        \* bound: how many processes are restarted over running jobs

VARIABLES
    status,    \* background_tasks.status, "none" without a row
    table,     \* the rows of background_tasks, oldest first
    home,      \* the process a task was created in
    flag,      \* _cancel_flags of that process
    job,       \* what the job of a task still has to do
    silent,    \* history: tasks whose last verdict was refused, or whose job has none to give
    overdue,   \* tasks whose started_at lies more than STALE_TASK_TIMEOUT back
    cancel,    \* cancel_task, as far as a process has got with it
    killed     \* tasks whose job died with its process

vars == <<status, table, home, flag, job, silent, overdue, cancel, killed>>

Terminal == {"completed", "failed", "cancelled"}
Status   == {"pending", "running"} \cup Terminal
Steps    == {"running", "check", "work", "release"} \cup Terminal
Idle     == [pc |-> "idle"]

(* The bodies of bg_index_document and of bg_generate_report, which differ by  *)
(* the report asked for: the update_task and is_cancelled calls they make, and *)
(* the work between them, which may raise: the registry, the ingestion and the *)
(* invalidation of the cache after the verdict, or the queries of a report.    *)
(* A report of any other name is left without a verdict.  A terminal           *)
(* update_task ends by dropping the flag: "release".                           *)
Programs ==
    [index     |-> <<"running", "check", "work", "running", "check", "work",
                     "completed", "release", "work">>,
     audit     |-> <<"running", "check", "work", "running", "work", "completed", "release">>,
     analytics |-> <<"running", "check", "work", "completed", "release">>,
     unknown   |-> <<"running", "check", "work">>]
Kind == DOMAIN Programs

TypeOK ==
    /\ status \in [Task -> Status \cup {"none"}]
    /\ \A i \in DOMAIN table : table[i] \in Task
    /\ home \in [Task -> Worker \cup {"none"}]
    /\ flag \in [Task -> {"none", "clear", "set"}]
    /\ \A t \in Task : \A i \in DOMAIN job[t] : job[t][i] \in Steps
    /\ silent \subseteq Task /\ overdue \subseteq Task /\ killed \subseteq Task
    /\ \A w \in Worker : cancel[w] = Idle \/ cancel[w].task \in Task

Init ==
    /\ status = [t \in Task |-> "none"] /\ table = <<>>
    /\ home = [t \in Task |-> "none"] /\ flag = [t \in Task |-> "none"]
    /\ job = [t \in Task |-> <<>>]
    /\ silent = {} /\ overdue = {} /\ killed = {}
    /\ cancel = [w \in Worker |-> Idle]

Rows == ToSet(table)

\* UPDATE background_tasks SET status=? WHERE task_id=?, whatever the status was.
SetStatus(t, s) == status' = IF t \in Rows THEN [status EXCEPT ![t] = s] ELSE status
DropFlag(t) == flag' = [flag EXCEPT ![t] = "none"]

-----------------------------------------------------------------------------
(* create_task and _prune_old_tasks, then BackgroundTasks.add_task.          *)

\* The rows that stay: the newest MAX_TASK_HISTORY, whatever their jobs are doing.
Pruned(rows) == SubSeq(rows, Len(rows) - MAX_TASK_HISTORY + 1, Len(rows))

\* Both transactions may fail, and the job is started all the same.
CreateTask(w, t, kind, inserted, pruned) ==
    /\ home[t] = "none"
    /\ LET rows == IF inserted THEN Append(table, t) ELSE table
       IN  table' = IF pruned /\ Len(rows) > MAX_TASK_HISTORY THEN Pruned(rows) ELSE rows
    /\ status' = [u \in Task |-> IF u \notin ToSet(table') THEN "none"
                                 ELSE IF u = t THEN "pending" ELSE status[u]]
    /\ flag' = [flag EXCEPT ![t] = "clear"]
    /\ home' = [home EXCEPT ![t] = w]
    /\ job' = [job EXCEPT ![t] = Programs[kind]]
    /\ silent' = IF kind = "unknown" THEN silent \cup {t} ELSE silent
    /\ UNCHANGED <<overdue, cancel, killed>>

-----------------------------------------------------------------------------
(* The job *)

\* update_task, its first half: the row.
JobUpdate(t) ==
    /\ job[t] # <<>> /\ Head(job[t]) \in Status
    /\ SetStatus(t, Head(job[t]))
    /\ silent' = IF Head(job[t]) \in Terminal THEN silent \ {t} ELSE silent
    /\ job' = [job EXCEPT ![t] = Tail(@)]
    /\ UNCHANGED <<table, home, flag, overdue, cancel, killed>>
\* The write fails: a warning, and the job goes on.
JobUpdateFails(t) ==
    /\ job[t] # <<>> /\ Head(job[t]) \in Status
    /\ silent' = IF Head(job[t]) \in Terminal THEN silent \cup {t} ELSE silent
    /\ job' = [job EXCEPT ![t] = Tail(@)]
    /\ UNCHANGED <<status, table, home, flag, overdue, cancel, killed>>

\* is_cancelled: a flag that is gone counts as not set.
JobCheck(t) ==
    /\ job[t] # <<>> /\ Head(job[t]) = "check"
    /\ job' = [job EXCEPT ![t] = IF flag[t] = "set" THEN <<"cancelled", "release">> ELSE Tail(@)]
    /\ UNCHANGED <<status, table, home, flag, silent, overdue, cancel, killed>>

\* What a job does between its writes; what it raises ends in the except clause.
JobWork(t) ==
    /\ job[t] # <<>> /\ Head(job[t]) = "work"
    /\ job' = [job EXCEPT ![t] = Tail(@)]
    /\ UNCHANGED <<status, table, home, flag, silent, overdue, cancel, killed>>
Handled_Swallowed == <<>>
Handled == <<"failed", "release">>
JobRaises(t) ==
    /\ job[t] # <<>> /\ Head(job[t]) = "work"
    /\ job' = [job EXCEPT ![t] = Handled]
    /\ UNCHANGED <<status, table, home, flag, silent, overdue, cancel, killed>>

\* update_task, its second half: a settled task loses its flag.
JobRelease(t) ==
    /\ job[t] # <<>> /\ Head(job[t]) = "release"
    /\ DropFlag(t)
    /\ job' = [job EXCEPT ![t] = Tail(@)]
    /\ UNCHANGED <<status, table, home, silent, overdue, cancel, killed>>

-----------------------------------------------------------------------------
(* cancel_task, called by POST /admin/tasks/{id}/cancel.                     *)

CancelRead(w, t) ==
    /\ cancel[w] = Idle
    /\ t \in Rows /\ status[t] \in {"pending", "running"}
    /\ cancel' = [cancel EXCEPT ![w] = [pc |-> "flag", task |-> t]]
    /\ UNCHANGED <<status, table, home, flag, job, silent, overdue, killed>>
\* Only the process of the job has the flag.
CancelFlag(w) ==
    /\ cancel[w].pc = "flag"
    /\ LET t == cancel[w].task
       IN  flag' = IF home[t] = w /\ flag[t] # "none" THEN [flag EXCEPT ![t] = "set"] ELSE flag
    /\ cancel' = [cancel EXCEPT ![w].pc = "update"]
    /\ UNCHANGED <<status, table, home, job, silent, overdue, killed>>
CancelUpdate(w) ==
    /\ cancel[w].pc = "update"
    /\ SetStatus(cancel[w].task, "cancelled") \/ UNCHANGED status
    /\ cancel' = [cancel EXCEPT ![w].pc = "release"]
    /\ UNCHANGED <<table, home, flag, job, silent, overdue, killed>>
\* The flag just set is dropped: a job that has not looked yet will never see it.
CancelRelease(w) ==
    /\ cancel[w].pc = "release"
    /\ IF home[cancel[w].task] = w THEN DropFlag(cancel[w].task) ELSE UNCHANGED flag
    /\ cancel' = [cancel EXCEPT ![w] = Idle]
    /\ UNCHANGED <<status, table, home, job, silent, overdue, killed>>

-----------------------------------------------------------------------------
(* Time, clean-up and restarts *)

Age(t) ==
    /\ status[t] = "running" /\ overdue' = overdue \cup {t}
    /\ UNCHANGED <<status, table, home, flag, job, silent, cancel, killed>>
\* POST /admin/tasks/cleanup-stale.
CleanupStale ==
    /\ status' = [t \in Task |-> IF t \in Rows \cap overdue /\ status[t] = "running"
                                 THEN "failed" ELSE status[t]]
    /\ UNCHANGED <<table, home, flag, job, silent, overdue, cancel, killed>>

\* The threads and the flags of a process go with it, the table stays.
Restart(w) ==
    LET mine == {t \in Task : home[t] = w}
    IN  /\ \E t \in mine : job[t] # <<>>
        /\ Cardinality({home[t] : t \in killed}) < MaxRestarts
        /\ killed' = killed \cup {t \in mine : job[t] # <<>>}
        /\ job' = [t \in Task |-> IF t \in mine THEN <<>> ELSE job[t]]
        /\ flag' = [t \in Task |-> IF t \in mine THEN "none" ELSE flag[t]]
        /\ cancel' = [cancel EXCEPT ![w] = Idle]
        /\ UNCHANGED <<status, table, home, silent, overdue>>

JobStep(t) ==
    \/ JobUpdate(t) \/ JobUpdateFails(t) \/ JobCheck(t)
    \/ JobWork(t) \/ JobRaises(t) \/ JobRelease(t)

Next ==
    \/ \E w \in Worker, t \in Task :
          \/ CancelRead(w, t)
          \/ \E kind \in Kind, inserted, pruned \in BOOLEAN :
                CreateTask(w, t, kind, inserted, pruned)
    \/ \E w \in Worker : CancelFlag(w) \/ CancelUpdate(w) \/ CancelRelease(w) \/ Restart(w)
    \/ \E t \in Task : JobStep(t) \/ Age(t)
    \/ CleanupStale

Spec == Init /\ [][Next]_vars

-----------------------------------------------------------------------------
(* Properties *)

(* A job that is over has left a verdict in its row, whatever came between:  *)
(* a cancellation, a clean-up, writes refused on the way, an exception before *)
(* or after the verdict.  Three ways are left to end without one: the process *)
(* dies, the write of the verdict itself is refused, which nobody repeats,    *)
(* and a report of an unknown name.  Those tasks stay 'pending' or 'running'  *)
(* until cleanup_stale_tasks is asked for, 'pending' ones for good.           *)
JobsLeaveAVerdict ==
    \A t \in Rows : job[t] = <<>> /\ t \notin killed \cup silent => status[t] \in Terminal
=============================================================================
