----------------------------- MODULE TaskEngine -----------------------------
(***************************************************************************)
(* The task engine (tasks/executor.py, tasks/batch_executor.py,            *)
(* services/task_service.py) and its dead letter queue, as the API         *)
(* handlers of api/v1/tasks.py and the Celery job of workers/dlq_worker.py *)
(* drive them.                                                             *)
(*                                                                         *)
(* Every request or job has a database session of its own, opened with     *)
(* expire_on_commit=False: a row is read once, the copy in memory decides  *)
(* whether the state machine allows a move, and the commit overwrites the  *)
(* row whatever it holds by then.  No row is locked and no row has a       *)
(* version, so the copy may be stale.  Each action below is one database   *)
(* round trip; a session may stop after any of them (Close).               *)
(***************************************************************************)
EXTENDS TaskTransitions, Naturals, Sequences

CONSTANTS Task,        \* identifiers of tasks
          Run,         \* identifiers of task runs
          Entry,       \* identifiers of dead letter entries
          Session,     \* database sessions: API requests and Celery jobs
          Null,        \* no task, no run, no entry
          Serial,      \* TRUE when requests and jobs never overlap
          MaxRetries   \* bound on the retries of one entry

ASSUME NullAssumption ==
    Null \notin Task /\ Null \notin Run /\ Null \notin Entry
ASSUME SerialAssumption == Serial \in BOOLEAN
ASSUME MaxRetriesAssumption == MaxRetries \in Nat

VARIABLES status,   \* [Task -> tasks.status, or "absent"]
          runs,     \* [Run -> task_runs row and the entry whose retry made it]
          dlq,      \* [Entry -> dead_letter_queue_entries row]
          events,   \* the webhook events emitted
          ses       \* [Session -> where the call is and what it has in memory]

vars == <<status, runs, dlq, events, ses>>
db   == <<status, runs, dlq, events>>

----------------------------------------------------------------------------
(* Rows and sessions                                                       *)

RunStatus == {"absent", "queued", "running", "completed", "failed"}

NoRun   == [task |-> Null, status |-> "absent", entry |-> Null]
NoEntry == [task |-> Null, status |-> "absent", retries |-> 0, history |-> <<>>]

Closed ==
    [pc |-> "closed", task |-> Null, status |-> "absent", run |-> Null,
     entry |-> Null, row |-> NoEntry]

EventType == {"task.completed", "task.failed"}

RunRow == [task : Task \cup {Null}, status : RunStatus,
           entry : Entry \cup {Null}]

EntryRow == [task    : Task \cup {Null},
             status  : {"absent", "failed", "requeued", "discarded"},
             retries : Nat,
             history : Seq(Run \cup {Null})]

SessionState ==
    [pc     : {"closed", "created", "planned", "open", "batch", "finished",
               "pushed", "loaded", "retry", "requeued"},
     task   : Task \cup {Null},
     status : TaskStatus \cup {"absent"},
     run    : Run \cup {Null},
     entry  : Entry \cup {Null},
     row    : EntryRow]

\* Every table and every session holds values of its columns' types.
TypeOK ==
    /\ status \in [Task -> TaskStatus \cup {"absent"}]
    /\ runs \in [Run -> RunRow]
    /\ dlq \in [Entry -> EntryRow]
    /\ events \subseteq [type : EventType, run : Run \cup {Null},
                         entry : Entry \cup {Null}]
    /\ ses \in [Session -> SessionState]

Init ==
    /\ status = [t \in Task |-> "absent"]
    /\ runs = [r \in Run |-> NoRun]
    /\ dlq = [e \in Entry |-> NoEntry]
    /\ events = {}
    /\ ses = [s \in Session |-> Closed]

\* A request or job starts; when Serial, only if no other one is under way.
Begin(s) ==
    /\ ses[s].pc = "closed"
    /\ Serial => \A q \in Session : ses[q].pc = "closed"

----------------------------------------------------------------------------
(* Creating, planning and queueing                                         *)

\* create_task commits a pending row; plan_and_queue does the same for the
\* one task that TaskPlanner.plan returns, and goes on to queue it.
CreateTask(s, t, planned) ==
    /\ Begin(s)
    /\ status[t] = "absent"
    /\ status' = [status EXCEPT ![t] = "pending"]
    /\ ses' = [ses EXCEPT ![s] =
                 [Closed EXCEPT !.pc = IF planned THEN "planned" ELSE "created",
                                !.task = t, !.status = "pending"]]
    /\ UNCHANGED <<runs, dlq, events>>

\* session.refresh(task) after that commit reads the row again.
RefreshTask(s) ==
    /\ ses[s].pc \in {"created", "planned"}
    /\ ses' = [ses EXCEPT ![s] =
        [@ EXCEPT !.status = status[ses[s].task],
                  !.pc = IF ses[s].pc = "planned" THEN "batch" ELSE "open"]]
    /\ UNCHANGED db

\* get_task: a handler reads the task it was asked about.
LoadTask(s, t) ==
    /\ Begin(s)
    /\ status[t] # "absent"
    /\ ses' = [ses EXCEPT ![s] = [Closed EXCEPT !.pc = "open", !.task = t,
                                                !.status = status[t]]]
    /\ UNCHANGED db

\* Mutant: queue_task that does not ask the state machine.
WriteQueuedUnchecked(s, e, r, pc) ==
    LET t == ses[s].task IN
    /\ runs[r].status = "absent"
    /\ status' = [status EXCEPT ![t] = "queued"]
    /\ runs' = [runs EXCEPT ![r] = [task |-> t, status |-> "queued",
                                    entry |-> e]]
    /\ ses' = [ses EXCEPT ![s] =
        [@ EXCEPT !.status = "queued", !.run = r, !.pc = pc]]
    /\ UNCHANGED <<dlq, events>>

\* The one commit of queue_task and of requeue_failed: the task's row and a
\* new run, on behalf of dead letter entry e (or Null).
WriteQueued(s, e, r, pc) ==
    LET t == ses[s].task IN
    /\ CanMove(ses[s].status, "queued")
    /\ runs[r].status = "absent"
    /\ status' = [status EXCEPT ![t] = "queued"]
    /\ runs' = [runs EXCEPT ![r] = [task |-> t, status |-> "queued",
                                    entry |-> e]]
    /\ ses' = [ses EXCEPT ![s] =
        [@ EXCEPT !.status = "queued", !.run = r, !.pc = pc]]
    /\ UNCHANGED <<dlq, events>>

\* TaskExecutor.queue_task and requeue_failed, called by a handler or by
\* BatchExecutor.queue_many.
QueueTask(s, r) ==
    /\ ses[s].pc \in {"open", "batch"}
    /\ WriteQueued(s, Null, r, "open")

----------------------------------------------------------------------------
(* Executing a run: the caller passes the task and the run it queued       *)

\* Mutant: the task's row is written and the run's row is forgotten.
WriteTaskOnly(s, new, pc) ==
    LET t == ses[s].task IN
    /\ ses[s].pc = "open" /\ ses[s].run # Null
    /\ CanMove(ses[s].status, new)
    /\ status' = [status EXCEPT ![t] = new]
    /\ ses' = [ses EXCEPT ![s] = [@ EXCEPT !.status = new, !.pc = pc]]
    /\ UNCHANGED <<runs, dlq, events>>

\* Mutant: the state machine is not asked.
WriteRunUnchecked(s, new, pc) ==
    LET t == ses[s].task
        r == ses[s].run IN
    /\ ses[s].pc = "open" /\ r # Null
    /\ status' = [status EXCEPT ![t] = new]
    /\ runs' = [runs EXCEPT ![r].status = new]
    /\ ses' = [ses EXCEPT ![s] = [@ EXCEPT !.status = new, !.pc = pc]]
    /\ UNCHANGED <<dlq, events>>

\* The one commit of start_run, complete_run and fail_run.
WriteRun(s, new, pc) ==
    LET t == ses[s].task
        r == ses[s].run IN
    /\ ses[s].pc = "open"
    /\ r # Null
    /\ CanMove(ses[s].status, new)
    /\ status' = [status EXCEPT ![t] = new]
    /\ runs' = [runs EXCEPT ![r].status = new]
    /\ ses' = [ses EXCEPT ![s] = [@ EXCEPT !.status = new, !.pc = pc]]
    /\ UNCHANGED <<dlq, events>>

StartRun(s) == WriteRun(s, "running", "open")

\* complete_run and fail_run commit first and emit the event afterwards.
CompleteRun(s) == WriteRun(s, "completed", "finished")
FailRun(s)     == WriteRun(s, "failed", "finished")

EmitFinished(s) ==
    /\ ses[s].pc = "finished"
    /\ events' = events \cup
         {[type  |-> IF ses[s].status = "completed" THEN "task.completed"
                                                    ELSE "task.failed",
           run   |-> ses[s].run,
           entry |-> Null]}
    /\ ses' = [ses EXCEPT ![s].pc = "open"]
    /\ UNCHANGED <<status, runs, dlq>>

----------------------------------------------------------------------------
(* The dead letter queue                                                   *)

\* push_to_dlq: a caller stores the failure of the task it holds, or of work
\* that has no task; the payload names the task.
PushToDLQ(s, e, t) ==
    /\ ses[s].pc = "open"
    /\ t = Null \/ (t = ses[s].task /\ ses[s].status = "failed")
    /\ dlq[e].status = "absent"
    /\ dlq' = [dlq EXCEPT ![e] = [task |-> t, status |-> "failed",
                                  retries |-> 0, history |-> <<>>]]
    /\ ses' = [ses EXCEPT ![s] = [@ EXCEPT !.pc = "pushed", !.entry = e]]
    /\ UNCHANGED <<status, runs, events>>

EmitPushed(s) ==
    /\ ses[s].pc = "pushed"
    /\ events' = events \cup {[type |-> "task.failed", run |-> Null,
                               entry |-> ses[s].entry]}
    /\ ses' = [ses EXCEPT ![s] = [@ EXCEPT !.pc = "open", !.entry = Null]]
    /\ UNCHANGED <<status, runs, dlq>>

\* get_dlq_entry, first step of the retry and discard endpoints and of
\* workers/dlq_worker.py.
LoadEntry(s, e) ==
    /\ Begin(s)
    /\ dlq[e].status # "absent"
    /\ ses' = [ses EXCEPT ![s] = [Closed EXCEPT !.pc = "loaded", !.entry = e,
                                                !.row = dlq[e]]]
    /\ UNCHANGED db

\* retry_dlq_entry reads the task that the payload names.
RetryReadTask(s) ==
    /\ ses[s].pc = "loaded"
    /\ ses[s].row.task # Null
    /\ ses' = [ses EXCEPT ![s] =
        [@ EXCEPT !.pc = "retry",
                  !.task = ses[s].row.task,
                  !.status = status[ses[s].row.task]]]
    /\ UNCHANGED db

\* requeue_failed commits on its own, before the entry is touched.
RetryRequeue(s, r) ==
    /\ ses[s].pc = "retry"
    /\ WriteQueued(s, ses[s].entry, r, "requeued")

\* SQLAlchemy writes a column only when its value in memory changed.
WriteColumn(read, new, current) == IF read = new THEN current ELSE new

\* Mutant: the entry is committed before its task is requeued.
RetryCommitFirst(s) ==
    LET e   == ses[s].entry
        row == ses[s].row IN
    /\ ses[s].pc \in {"loaded", "retry"}
    /\ row.retries < MaxRetries
    /\ dlq' = [dlq EXCEPT ![e] =
        [@ EXCEPT !.retries = row.retries + 1,
                  !.history = Append(row.history, ses[s].run),
                  !.status = WriteColumn(row.status, "requeued", dlq[e].status)]]
    /\ ses' = [ses EXCEPT ![s] = Closed]
    /\ UNCHANGED <<status, runs, events>>

\* Mutant: the count is incremented in SQL, the history still in memory.
RetryCommitMixed(s) ==
    LET e   == ses[s].entry
        row == ses[s].row IN
    /\ \/ ses[s].pc = "requeued"
       \/ ses[s].pc = "loaded" /\ row.task = Null
    /\ dlq[e].retries < MaxRetries
    /\ dlq' = [dlq EXCEPT ![e] =
        [@ EXCEPT !.retries = @ + 1,
                  !.history = Append(row.history, ses[s].run),
                  !.status = WriteColumn(row.status, "requeued", dlq[e].status)]]
    /\ ses' = [ses EXCEPT ![s] = Closed]
    /\ UNCHANGED <<status, runs, events>>

\* The second commit of retry_dlq_entry: count, history and status.
RetryCommit(s) ==
    LET e   == ses[s].entry
        row == ses[s].row IN
    /\ \/ ses[s].pc = "requeued"
       \/ ses[s].pc = "loaded" /\ row.task = Null
    /\ row.retries < MaxRetries
    /\ dlq' = [dlq EXCEPT ![e] =
        [@ EXCEPT !.retries = row.retries + 1,
                  !.history = Append(row.history, ses[s].run),
                  !.status = WriteColumn(row.status, "requeued", dlq[e].status)]]
    /\ ses' = [ses EXCEPT ![s] = Closed]
    /\ UNCHANGED <<status, runs, events>>

\* discard_dlq_entry has no guard on the entry's status.
DiscardEntry(s) ==
    LET e == ses[s].entry IN
    /\ ses[s].pc = "loaded"
    /\ dlq' = [dlq EXCEPT
                 ![e].status = WriteColumn(ses[s].row.status, "discarded",
                                            dlq[e].status)]
    /\ ses' = [ses EXCEPT ![s] = Closed]
    /\ UNCHANGED <<status, runs, events>>

----------------------------------------------------------------------------
\* The handler returns, a transition raises, or the process dies: what was
\* not committed is gone and nothing picks the call up again.
Close(s) ==
    /\ ses[s].pc # "closed"
    /\ ses' = [ses EXCEPT ![s] = Closed]
    /\ UNCHANGED db

Next == \E s \in Session :
    \/ \E t \in Task, planned \in BOOLEAN : CreateTask(s, t, planned)
    \/ RefreshTask(s)
    \/ \E t \in Task : LoadTask(s, t)
    \/ \E r \in Run : QueueTask(s, r)
    \/ StartRun(s)
    \/ CompleteRun(s)
    \/ FailRun(s)
    \/ EmitFinished(s)
    \/ \E e \in Entry, t \in Task \cup {Null} : PushToDLQ(s, e, t)
    \/ EmitPushed(s)
    \/ \E e \in Entry : LoadEntry(s, e)
    \/ RetryReadTask(s)
    \/ \E r \in Run : RetryRequeue(s, r)
    \/ RetryCommit(s)
    \/ DiscardEntry(s)
    \/ Close(s)

Spec == Init /\ [][Next]_vars

----------------------------------------------------------------------------
(* What holds however requests interleave                                  *)

\* The task row and the run row are written in one commit, so whatever the
\* stale copies of other sessions overwrite, the status a reader sees is
\* that of one of the task's runs (tasks/executor.py).
StatusBackedByRun ==
    \A t \in Task : status[t] \notin {"absent", "pending"} =>
        \E r \in Run : runs[r].task = t /\ runs[r].status = status[t]

\* A run is handled by the session that created it, so its own history obeys
\* the table even when the history of its task does not.
RunsFollowTheTable ==
    [][\A r \in Run : runs'[r].status # runs[r].status =>
          \/ runs[r].status = "absent" /\ runs'[r].status = "queued"
          \/ CanMove(runs[r].status, runs'[r].status)]_vars

\* An entry is marked requeued only after its task really got a new run: the
\* requeue is committed before the entry is (services/task_service.py).
RequeuedEntryHasRun ==
    \A e \in Entry : dlq[e].status = "requeued" /\ dlq[e].task # Null =>
        \E r \in Run : runs[r].entry = e /\ runs[r].task = dlq[e].task

\* retry_count and error_history stay in step under concurrent retries that
\* overwrite each other, and the history never names a run twice nor a run
\* that another entry's retry created.
HistoryMatchesRetries ==
    \A e \in Entry :
        LET h == dlq[e].history IN
        /\ Len(h) = dlq[e].retries
        /\ \A i \in DOMAIN h :
              IF dlq[e].task = Null THEN h[i] = Null
              ELSE /\ h[i] # Null
                   /\ runs[h[i]].entry = e
                   /\ \A j \in DOMAIN h : h[j] = h[i] => i = j

----------------------------------------------------------------------------
(* What holds only when requests do not overlap                            *)

active == {runs[r].task : r \in {q \in Run : runs[q].status \in
                                               {"queued", "running"}}}

Machine == INSTANCE TaskMachine WITH Task <- Task, status <- status, active <- active

\* One request at a time, the engine implements the task machine: the status
\* column makes only the moves of TASK_TRANSITIONS, and no task is queued
\* while one of its runs is live.
ImplementsTaskMachine == Machine!Spec

\* The same promise as an action property on the status column alone.
StatusFollowsTheTable ==
    [][\A t \in Task : status[t] # "absent" /\ status'[t] # status[t] =>
          CanMove(status[t], status'[t])]_vars
=============================================================================
