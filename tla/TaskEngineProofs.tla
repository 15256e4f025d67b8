-------------------------- MODULE TaskEngineProofs --------------------------
(***************************************************************************)
(* Proofs about TaskEngine for any number of tasks, runs, entries and      *)
(* sessions, and about TaskGraph for any plan.                             *)
(***************************************************************************)
EXTENDS TaskEngine, TaskGraph, NumberFacts, SequenceTheorems

\* A session that remembers a status, or that is about to read one back,
\* holds a task.
HoldsTask ==
    \A s \in Session :
        ses[s].pc \in {"created", "planned"} \/ ses[s].status # "absent"
            => ses[s].task \in Task

\* The run that a session holds is its own: its row is what the session
\* remembers and no other session holds it.  A session that is about to read
\* a status back holds no run yet.
OwnsRun ==
    \A s \in Session : ses[s].run # Null =>
        /\ ses[s].pc \notin {"created", "planned", "loaded", "retry"}
        /\ runs[ses[s].run].task = ses[s].task
        /\ runs[ses[s].run].status = ses[s].status
        /\ ses[s].status # "absent"
        /\ \A q \in Session : ses[q].run = ses[s].run => q = s

\* The inductive invariant behind StatusBackedByRun and RunsFollowTheTable.
IInv == TypeOK /\ HoldsTask /\ OwnsRun /\ StatusBackedByRun

----------------------------------------------------------------------------
(* Typing                                                                  *)

LEMMA ClosedType == Closed \in SessionState /\ NoEntry \in EntryRow
  BY DEF Closed, SessionState, NoEntry, EntryRow, TaskStatus

LEMMA MoveTypes ==
  ASSUME NEW a, NEW b, CanMove(a, b)
  PROVE  a \in TaskStatus /\ b \in TaskStatus /\ a # "absent" /\ b # "absent"
  BY DEF CanMove, TASK_TRANSITIONS, TaskStatus

LEMMA InitType == Init => TypeOK
  BY ClosedType, NullAssumption
     DEF Init, TypeOK, NoRun, RunRow, RunStatus, TaskStatus

\* The sessions table stays well typed when session s gets a well-typed state.
LEMMA SesUpdate ==
  ASSUME NEW s \in Session, NEW v \in SessionState,
         ses \in [Session -> SessionState],
         ses' = [ses EXCEPT ![s] = v]
  PROVE  ses' \in [Session -> SessionState]
  OBVIOUS

LEMMA NextType == TypeOK /\ HoldsTask /\ [Next]_vars => TypeOK'
<1> SUFFICES ASSUME TypeOK, HoldsTask, [Next]_vars PROVE TypeOK'
  OBVIOUS
<1> USE NullAssumption
<1>1. CASE UNCHANGED vars
  BY <1>1 DEF vars, TypeOK
<1>2. ASSUME NEW s \in Session, NEW t \in Task, NEW planned \in BOOLEAN,
             CreateTask(s, t, planned)
      PROVE  TypeOK'
  BY <1>2, ClosedType DEF CreateTask, TypeOK, Closed, SessionState, TaskStatus
<1>3. ASSUME NEW s \in Session, RefreshTask(s) PROVE TypeOK'
  <2>1. ses[s].task \in Task
    BY <1>3 DEF RefreshTask, HoldsTask
  <2> DEFINE v == [ses[s] EXCEPT
                     !.status = status[ses[s].task],
                     !.pc = IF ses[s].pc = "planned" THEN "batch" ELSE "open"]
  <2>2. v \in SessionState
    BY ZenonT(30), <2>1 DEF TypeOK, SessionState
  <2>3. ses' = [ses EXCEPT ![s] = v]
    BY <1>3 DEF RefreshTask
  <2>4. QED
    BY <1>3, <2>2, <2>3, SesUpdate DEF RefreshTask, TypeOK, db
<1>4. ASSUME NEW s \in Session, NEW t \in Task, LoadTask(s, t) PROVE TypeOK'
  BY <1>4, ClosedType DEF LoadTask, TypeOK, Closed, SessionState, db
<1>5. ASSUME NEW s \in Session, NEW e \in Entry \cup {Null}, NEW r \in Run,
             NEW pc \in {"open", "requeued"}, WriteQueued(s, e, r, pc)
      PROVE  TypeOK'
  <2>1. ses[s].status # "absent" /\ ses[s].task \in Task
    BY <1>5, MoveTypes DEF WriteQueued, HoldsTask
  <2>2. [task |-> ses[s].task, status |-> "queued", entry |-> e] \in RunRow
    BY <2>1 DEF RunRow, RunStatus
  <2> DEFINE v == [ses[s] EXCEPT !.status = "queued", !.run = r, !.pc = pc]
  <2>a. v \in SessionState
    BY ZenonT(30) DEF TypeOK, SessionState, TaskStatus
  <2>b. ses' = [ses EXCEPT ![s] = v]
    BY <1>5 DEF WriteQueued
  <2>3. ses' \in [Session -> SessionState]
    BY <2>a, <2>b, SesUpdate DEF TypeOK
  <2>4. status' \in [Task -> TaskStatus \cup {"absent"}]
    BY <1>5 DEF WriteQueued, TypeOK, TaskStatus
  <2>5. runs' \in [Run -> RunRow]
    BY <1>5, <2>2 DEF WriteQueued, TypeOK
  <2>6. QED
    BY <1>5, <2>3, <2>4, <2>5 DEF WriteQueued, TypeOK
<1>6. ASSUME NEW s \in Session,
             NEW new \in {"running", "completed", "failed"},
             NEW pc \in {"open", "finished"}, WriteRun(s, new, pc)
      PROVE  TypeOK'
  <2>1. ses[s].run \in Run
    BY <1>6 DEF WriteRun, TypeOK, SessionState
  <2>2. runs' \in [Run -> RunRow]
    BY <1>6, <2>1 DEF WriteRun, TypeOK, RunRow, RunStatus
  <2>3. status' \in [Task -> TaskStatus \cup {"absent"}]
    BY <1>6 DEF WriteRun, TypeOK, TaskStatus
  <2> DEFINE v == [ses[s] EXCEPT !.status = new, !.pc = pc]
  <2>a. v \in SessionState
    BY ZenonT(30) DEF TypeOK, SessionState, TaskStatus
  <2>b. ses' = [ses EXCEPT ![s] = v]
    BY <1>6 DEF WriteRun
  <2>4. ses' \in [Session -> SessionState]
    BY <2>a, <2>b, SesUpdate DEF TypeOK
  <2>5. QED
    BY <1>6, <2>2, <2>3, <2>4 DEF WriteRun, TypeOK
<1>7. ASSUME NEW s \in Session, EmitFinished(s) PROVE TypeOK'
  <2> DEFINE v == [ses[s] EXCEPT !.pc = "open"]
  <2>1. v \in SessionState /\ ses[s].run \in Run \cup {Null}
    BY DEF TypeOK, SessionState
  <2>2. ses' = [ses EXCEPT ![s] = v]
    BY <1>7 DEF EmitFinished
  <2>3. ses' \in [Session -> SessionState]
    BY <2>1, <2>2, SesUpdate DEF TypeOK
  <2>4. QED
    BY <1>7, <2>1, <2>3 DEF EmitFinished, TypeOK, EventType
<1>8. ASSUME NEW s \in Session, NEW e \in Entry, NEW t \in Task \cup {Null},
             PushToDLQ(s, e, t)
      PROVE  TypeOK'
  <2> DEFINE v == [ses[s] EXCEPT !.pc = "pushed", !.entry = e]
             new == [task |-> t, status |-> "failed", retries |-> 0,
                     history |-> <<>>]
  <2>1. v \in SessionState
    BY ZenonT(30) DEF TypeOK, SessionState
  <2>2. new \in EntryRow
    BY DEF EntryRow
  <2>3. ses' = [ses EXCEPT ![s] = v]
    BY <1>8 DEF PushToDLQ
  <2>4. ses' \in [Session -> SessionState]
    BY <2>1, <2>3, SesUpdate DEF TypeOK
  <2>5. QED
    BY <1>8, <2>2, <2>4 DEF PushToDLQ, TypeOK
<1>9. ASSUME NEW s \in Session, EmitPushed(s) PROVE TypeOK'
  <2> DEFINE v == [ses[s] EXCEPT !.pc = "open", !.entry = Null]
  <2>1. v \in SessionState /\ ses[s].entry \in Entry \cup {Null}
    BY ZenonT(30) DEF TypeOK, SessionState
  <2>2. ses' = [ses EXCEPT ![s] = v]
    BY <1>9 DEF EmitPushed
  <2>3. ses' \in [Session -> SessionState]
    BY <2>1, <2>2, SesUpdate DEF TypeOK
  <2>4. QED
    BY <1>9, <2>1, <2>3 DEF EmitPushed, TypeOK, EventType
<1>10. ASSUME NEW s \in Session, NEW e \in Entry, LoadEntry(s, e)
       PROVE  TypeOK'
  BY <1>10, ClosedType DEF LoadEntry, TypeOK, Closed, SessionState, db
<1>11. ASSUME NEW s \in Session, RetryReadTask(s) PROVE TypeOK'
  <2>1. ses[s].row.task \in Task
    BY <1>11 DEF RetryReadTask, TypeOK, SessionState, EntryRow
  <2> DEFINE v == [ses[s] EXCEPT !.pc = "retry", !.task = ses[s].row.task,
                                 !.status = status[ses[s].row.task]]
  <2>2. v \in SessionState
    BY ZenonT(30), <2>1 DEF TypeOK, SessionState
  <2>3. ses' = [ses EXCEPT ![s] = v]
    BY <1>11 DEF RetryReadTask
  <2>4. QED
    BY <1>11, <2>2, <2>3, SesUpdate DEF RetryReadTask, TypeOK, db
<1>12. ASSUME NEW s \in Session, RetryCommit(s) PROVE TypeOK'
  <2> DEFINE e == ses[s].entry
             row == ses[s].row
             new == [dlq[e] EXCEPT
                       !.retries = row.retries + 1,
                       !.history = Append(row.history, ses[s].run),
                       !.status  = WriteColumn(row.status, "requeued", dlq[e].status)]
  <2>1. row \in EntryRow /\ ses[s].run \in Run \cup {Null}
    BY DEF TypeOK, SessionState
  <2>2. row.retries + 1 \in Nat
        /\ Append(row.history, ses[s].run) \in Seq(Run \cup {Null})
    BY <2>1 DEF EntryRow
  <2>3. e \in Entry => new \in EntryRow
    BY <2>1, <2>2 DEF EntryRow, TypeOK, WriteColumn
  <2>4. dlq' = [dlq EXCEPT ![e] = new]
    BY <1>12 DEF RetryCommit, WriteColumn
  <2>5. dlq' \in [Entry -> EntryRow]
    BY <2>3, <2>4 DEF TypeOK
  <2>6. QED
    BY <1>12, <2>5, ClosedType DEF RetryCommit, TypeOK
<1>13. ASSUME NEW s \in Session, DiscardEntry(s) PROVE TypeOK'
  <2> DEFINE e == ses[s].entry
             new == WriteColumn(ses[s].row.status, "discarded", dlq[e].status)
  <2>1. e \in Entry => [dlq[e] EXCEPT !.status = new] \in EntryRow
    BY DEF TypeOK, EntryRow, WriteColumn
  <2>2. dlq' = [dlq EXCEPT ![e] = [dlq[e] EXCEPT !.status = new]]
    BY <1>13 DEF DiscardEntry
  <2>3. dlq' \in [Entry -> EntryRow]
    BY <2>1, <2>2 DEF TypeOK
  <2>4. QED
    BY <1>13, <2>3, ClosedType DEF DiscardEntry, TypeOK
<1>14. ASSUME NEW s \in Session, Close(s) PROVE TypeOK'
  BY <1>14, ClosedType DEF Close, TypeOK, db
<1>15. \A s \in Session : ses[s].entry \in Entry \cup {Null}
  BY DEF TypeOK, SessionState
<1>16. QED
  BY <1>1, <1>2, <1>3, <1>4, <1>5, <1>6, <1>7, <1>8, <1>9, <1>10, <1>11,
     <1>12, <1>13, <1>14, <1>15
     DEF Next, QueueTask, RetryRequeue, StartRun, CompleteRun, FailRun
----------------------------------------------------------------------------
(* What the sessions hold                                                  *)

\* The calls that change only a session's pc and the entry it holds.
KeepsTask(s) ==
    /\ ses' = [ses EXCEPT ![s] = ses'[s]]
    /\ ses'[s].task = ses[s].task /\ ses'[s].status = ses[s].status
    /\ ses'[s].run = ses[s].run
    /\ ses'[s].pc \in {"open", "pushed"}
    /\ ses[s].pc # "closed"
    /\ UNCHANGED <<status, runs>>

\* The calls after which a session holds no run, and the runs are untouched.
HoldsNothing(s) ==
    /\ ses' = [ses EXCEPT ![s] = ses'[s]]
    /\ ses'[s].run = Null
    /\ ses'[s].pc \in {"created", "planned"} \/ ses'[s].status # "absent"
          => ses'[s].task \in Task
    /\ ses'[s].status # "absent" =>
          ses'[s].pc # "closed" /\ status'[ses'[s].task] = ses'[s].status
    /\ UNCHANGED runs
    /\ \/ UNCHANGED status /\ ses[s].pc # "closed"
       \/ /\ Serial => \A q \in Session : ses[q].pc = "closed"
          /\ \/ UNCHANGED status
             \/ \E t \in Task : /\ status[t] = "absent"
                               /\ status' = [status EXCEPT ![t] = "pending"]

\* Every step is one of four kinds as far as tasks and runs are concerned.
LEMMA StepKinds ==
  ASSUME TypeOK, HoldsTask, OwnsRun, Next
  PROVE  \E s \in Session :
           \/ KeepsTask(s)
           \/ HoldsNothing(s)
           \/ \E e \in Entry \cup {Null}, r \in Run,
                 pc \in {"open", "requeued"} : WriteQueued(s, e, r, pc)
           \/ \E new \in {"running", "completed", "failed"},
                 pc \in {"open", "finished"} : WriteRun(s, new, pc)
<1> USE NullAssumption
<1> DEFINE Goal(s) ==
           \/ KeepsTask(s)
           \/ HoldsNothing(s)
           \/ \E e \in Entry \cup {Null}, r \in Run,
                 pc \in {"open", "requeued"} : WriteQueued(s, e, r, pc)
           \/ \E new \in {"running", "completed", "failed"},
                 pc \in {"open", "finished"} : WriteRun(s, new, pc)
<1>0. \A s \in Session : ses[s] \in SessionState
  BY DEF TypeOK
<1>1. ASSUME NEW s \in Session, NEW t \in Task, NEW planned \in BOOLEAN,
             CreateTask(s, t, planned)
      PROVE  HoldsNothing(s)
  BY <1>1 DEF CreateTask, Begin, HoldsNothing, Closed, TypeOK
<1>2. ASSUME NEW s \in Session, RefreshTask(s) PROVE HoldsNothing(s)
  BY <1>0, <1>2 DEF RefreshTask, HoldsNothing, HoldsTask, OwnsRun,
                    SessionState, TypeOK, db
<1>3. ASSUME NEW s \in Session, NEW t \in Task, LoadTask(s, t)
      PROVE  HoldsNothing(s)
  BY <1>3 DEF LoadTask, Begin, HoldsNothing, Closed, TypeOK, db
<1>4. ASSUME NEW s \in Session, NEW e \in Entry, LoadEntry(s, e)
      PROVE  HoldsNothing(s)
  BY <1>4 DEF LoadEntry, Begin, HoldsNothing, Closed, TypeOK, db
<1>5. ASSUME NEW s \in Session, RetryReadTask(s) PROVE HoldsNothing(s)
  BY <1>0, <1>5 DEF RetryReadTask, HoldsNothing, OwnsRun, SessionState,
                    EntryRow, TypeOK, db
<1>6. ASSUME NEW s \in Session, RetryCommit(s) \/ DiscardEntry(s) \/ Close(s)
      PROVE  HoldsNothing(s)
  BY <1>6 DEF RetryCommit, DiscardEntry, Close, HoldsNothing, Closed, TypeOK,
              db
<1>7. ASSUME NEW s \in Session, EmitFinished(s) \/ EmitPushed(s)
      PROVE  KeepsTask(s)
  <2>1. CASE EmitFinished(s)
    BY <1>0, <2>1 DEF EmitFinished, KeepsTask, SessionState, TypeOK
  <2>2. CASE EmitPushed(s)
    BY <1>0, <2>2 DEF EmitPushed, KeepsTask, SessionState, TypeOK
  <2>3. QED
    BY <1>7, <2>1, <2>2
<1>8. ASSUME NEW s \in Session, NEW e \in Entry, NEW t \in Task \cup {Null},
             PushToDLQ(s, e, t)
      PROVE  KeepsTask(s)
  BY <1>0, <1>8 DEF PushToDLQ, KeepsTask, SessionState, TypeOK
<1>9. ASSUME NEW s \in Session, NEW r \in Run,
             QueueTask(s, r) \/ RetryRequeue(s, r)
      PROVE  Goal(s)
  BY <1>0, <1>9 DEF QueueTask, RetryRequeue, SessionState
<1>10. ASSUME NEW s \in Session, StartRun(s) \/ CompleteRun(s) \/ FailRun(s)
       PROVE  Goal(s)
  BY <1>10 DEF StartRun, CompleteRun, FailRun
<1>11. QED
  BY <1>1, <1>2, <1>3, <1>4, <1>5, <1>6, <1>7, <1>8, <1>9, <1>10 DEF Next

LEMMA NextHolds ==
  TypeOK /\ HoldsTask /\ OwnsRun /\ [Next]_vars => HoldsTask' /\ OwnsRun'
<1> SUFFICES ASSUME TypeOK, HoldsTask, OwnsRun, [Next]_vars
             PROVE  HoldsTask' /\ OwnsRun'
  OBVIOUS
<1> USE NullAssumption
<1>0. \A s \in Session : ses[s] \in SessionState
  BY DEF TypeOK
<1>1. CASE UNCHANGED vars
  BY <1>1 DEF vars, HoldsTask, OwnsRun
<1>2. ASSUME NEW s \in Session, KeepsTask(s) PROVE HoldsTask' /\ OwnsRun'
  BY <1>2 DEF KeepsTask, HoldsTask, OwnsRun, TypeOK
<1>3. ASSUME NEW s \in Session, HoldsNothing(s) PROVE HoldsTask' /\ OwnsRun'
  BY <1>3 DEF HoldsNothing, HoldsTask, OwnsRun, TypeOK
<1>4. ASSUME NEW s \in Session, NEW e \in Entry \cup {Null}, NEW r \in Run,
             NEW pc \in {"open", "requeued"}, WriteQueued(s, e, r, pc)
      PROVE  HoldsTask' /\ OwnsRun'
  <2> DEFINE v == [ses[s] EXCEPT !.status = "queued", !.run = r, !.pc = pc]
  <2>1. ses' = [ses EXCEPT ![s] = v] /\ ses'[s] = v
    BY <1>4 DEF WriteQueued, TypeOK
  <2>2. v.status = "queued" /\ v.run = r /\ v.pc = pc /\ v.task = ses[s].task
    BY <1>0 DEF SessionState
  <2>3. ses[s].task \in Task /\ runs[r].status = "absent"
    BY <1>4, MoveTypes DEF WriteQueued, HoldsTask
  <2>4. /\ runs'[r].task = ses[s].task /\ runs'[r].status = "queued"
        /\ \A x \in Run \ {r} : runs'[x] = runs[x]
    BY <1>4 DEF WriteQueued, TypeOK
  <2>5. \A q \in Session : ses[q].run # r
    BY <2>3 DEF OwnsRun
  <2>6. \A q \in Session \ {s} : ses'[q] = ses[q]
    BY <2>1 DEF TypeOK
  <2>7. HoldsTask'
    BY <2>1, <2>2, <2>3, <2>6 DEF HoldsTask
  <2>8. OwnsRun'
    <3>1. \A q \in Session : ses[q].run \in Run \cup {Null}
      BY <1>0 DEF SessionState
    <3>2. SUFFICES ASSUME NEW q \in Session, ses'[q].run # Null
                   PROVE
                     /\ ses'[q].pc \notin {"created", "planned", "loaded",
                                           "retry"}
                     /\ runs'[ses'[q].run].task = ses'[q].task
                     /\ runs'[ses'[q].run].status = ses'[q].status
                     /\ ses'[q].status # "absent"
                     /\ \A p \in Session : ses'[p].run = ses'[q].run => p = q
      BY DEF OwnsRun
    <3>3. CASE q = s
      <4>1. /\ ses'[q].run = r /\ ses'[q].status = "queued"
            /\ ses'[q].pc = pc /\ ses'[q].task = ses[s].task
        BY <3>3, <2>1, <2>2
      <4>2. \A p \in Session : ses'[p].run = r => p = s
        BY <2>5, <2>6
      <4>3. QED
        BY <4>1, <4>2, <3>3, <2>4
    <3>4. CASE q # s
      BY <3>1, <3>2, <3>4, <2>1, <2>2, <2>4, <2>5, <2>6 DEF OwnsRun
    <3>5. QED
      BY <3>3, <3>4
  <2>9. QED
    BY <2>7, <2>8
<1>5. ASSUME NEW s \in Session,
             NEW new \in {"running", "completed", "failed"},
             NEW pc \in {"open", "finished"}, WriteRun(s, new, pc)
      PROVE  HoldsTask' /\ OwnsRun'
  <2> DEFINE v == [ses[s] EXCEPT !.status = new, !.pc = pc]
             r == ses[s].run
  <2>1. ses' = [ses EXCEPT ![s] = v] /\ ses'[s] = v
    BY <1>5 DEF WriteRun, TypeOK
  <2>2. v.status = new /\ v.run = r /\ v.pc = pc /\ v.task = ses[s].task
    BY <1>0 DEF SessionState
  <2>3. r # Null /\ r \in Run /\ ses[s].task \in Task
    BY <1>0, <1>5, MoveTypes DEF WriteRun, HoldsTask, SessionState
  <2>4. /\ runs'[r].task = runs[r].task /\ runs'[r].status = new
        /\ \A x \in Run \ {r} : runs'[x] = runs[x]
    BY <1>5, <2>3 DEF WriteRun, TypeOK, RunRow
  <2>5. \A q \in Session : ses[q].run = r => q = s
    BY <2>3 DEF OwnsRun
  <2>6. \A q \in Session \ {s} : ses'[q] = ses[q]
    BY <2>1 DEF TypeOK
  <2>7. \A q \in Session : ses[q].run \in Run \cup {Null}
    BY <1>0 DEF SessionState
  <2>8. HoldsTask'
    BY <2>1, <2>2, <2>3, <2>6 DEF HoldsTask
  <2>9. OwnsRun'
    <3>1. /\ ses'[s].run = r /\ ses'[s].status = new
          /\ ses'[s].pc = pc /\ ses'[s].task = ses[s].task
      BY <2>1, <2>2
    <3>2. \A p \in Session : ses'[p].run = ses[p].run
      BY <3>1, <2>6
    <3>3. SUFFICES ASSUME NEW q \in Session, ses'[q].run # Null
                   PROVE
                     /\ ses'[q].pc \notin {"created", "planned", "loaded",
                                           "retry"}
                     /\ runs'[ses'[q].run].task = ses'[q].task
                     /\ runs'[ses'[q].run].status = ses'[q].status
                     /\ ses'[q].status # "absent"
                     /\ \A p \in Session : ses'[p].run = ses'[q].run => p = q
      BY DEF OwnsRun
    <3>4. \A p \in Session : ses'[p].run = ses'[q].run => p = q
      BY <3>2, <3>3 DEF OwnsRun
    <3>5. CASE q = s
      <4>1. runs[r].task = ses[s].task
        BY <2>3 DEF OwnsRun
      <4>2. QED
        BY <4>1, <3>1, <3>4, <3>5, <2>4
    <3>6. CASE q # s
      <4>1. ses'[q] = ses[q] /\ ses[q].run \in Run \ {r}
        BY <3>3, <3>6, <2>5, <2>6, <2>7
      <4>2. QED
        BY <4>1, <3>3, <3>4, <2>4 DEF OwnsRun
    <3>7. QED
      BY <3>5, <3>6
  <2>10. QED
    BY <2>8, <2>9
<1>6. QED
  BY <1>1, <1>2, <1>3, <1>4, <1>5, StepKinds
----------------------------------------------------------------------------
(* Safety for any interleaving                                             *)

\* A commit that moves a task keeps its status backed by the run it writes.
LEMMA NextBacked ==
  IInv /\ [Next]_vars => StatusBackedByRun'
<1> SUFFICES ASSUME IInv, [Next]_vars PROVE StatusBackedByRun'
  OBVIOUS
<1> USE NullAssumption DEF IInv
<1>1. CASE UNCHANGED vars
  BY <1>1 DEF vars, StatusBackedByRun
<1>2. ASSUME NEW s \in Session, KeepsTask(s) PROVE StatusBackedByRun'
  BY <1>2 DEF KeepsTask, StatusBackedByRun
<1>3. ASSUME NEW s \in Session, HoldsNothing(s) PROVE StatusBackedByRun'
  BY <1>3 DEF HoldsNothing, StatusBackedByRun, TypeOK
<1>4. ASSUME NEW s \in Session, NEW e \in Entry \cup {Null}, NEW r \in Run,
             NEW pc \in {"open", "requeued"}, WriteQueued(s, e, r, pc)
      PROVE  StatusBackedByRun'
  <2>1. ses[s].task \in Task
    BY <1>4, MoveTypes DEF WriteQueued, HoldsTask
  <2>2. /\ runs'[r].task = ses[s].task /\ runs'[r].status = "queued"
        /\ \A x \in Run \ {r} : runs'[x] = runs[x]
        /\ runs[r].status = "absent"
    BY <1>4 DEF WriteQueued, TypeOK
  <2>3. /\ status'[ses[s].task] = "queued"
        /\ \A t \in Task \ {ses[s].task} : status'[t] = status[t]
    BY <1>4, <2>1 DEF WriteQueued, TypeOK
  <2>4. QED
    BY <2>1, <2>2, <2>3 DEF StatusBackedByRun
<1>5. ASSUME NEW s \in Session,
             NEW new \in {"running", "completed", "failed"},
             NEW pc \in {"open", "finished"}, WriteRun(s, new, pc)
      PROVE  StatusBackedByRun'
  <2> DEFINE r == ses[s].run
  <2>1. r \in Run /\ runs[r].task = ses[s].task /\ ses[s].task \in Task
    BY <1>5, MoveTypes DEF WriteRun, HoldsTask, OwnsRun, TypeOK, SessionState
  <2>2. /\ runs'[r].task = ses[s].task /\ runs'[r].status = new
        /\ \A x \in Run \ {r} : runs'[x] = runs[x]
    BY <1>5, <2>1 DEF WriteRun, TypeOK, RunRow
  <2>3. /\ status'[ses[s].task] = new
        /\ \A t \in Task \ {ses[s].task} : status'[t] = status[t]
    BY <1>5, <2>1 DEF WriteRun, TypeOK
  <2>4. QED
    BY <2>1, <2>2, <2>3 DEF StatusBackedByRun
<1>6. QED
  BY <1>1, <1>2, <1>3, <1>4, <1>5, StepKinds

LEMMA InitIInv == Init => IInv
  BY InitType, NullAssumption
     DEF Init, IInv, HoldsTask, OwnsRun, StatusBackedByRun, Closed

LEMMA NextIInv == IInv /\ [Next]_vars => IInv'
  BY NextType, NextHolds, NextBacked DEF IInv

THEOREM Invariance == Spec => []IInv
<1>1. QED
  BY InitIInv, NextIInv, PTL DEF Spec

\* Every table and session keeps its type whatever requests interleave.
THEOREM TypeCorrect == Spec => []TypeOK
<1>1. IInv => TypeOK
  BY DEF IInv
<1>2. QED
  BY <1>1, Invariance, PTL

\* Stale copies and lost updates never leave a task in a status that none of
\* its runs has (tasks/executor.py commits both rows together).
THEOREM Backed == Spec => []StatusBackedByRun
<1>1. IInv => StatusBackedByRun
  BY DEF IInv
<1>2. QED
  BY <1>1, Invariance, PTL

\* What one step may do to the runs.
LEMMA StepRuns ==
  IInv /\ [Next]_vars =>
    \A r \in Run : runs'[r].status # runs[r].status =>
          \/ runs[r].status = "absent" /\ runs'[r].status = "queued"
          \/ CanMove(runs[r].status, runs'[r].status)
<1> SUFFICES ASSUME IInv, [Next]_vars, NEW r \in Run,
                    runs'[r].status # runs[r].status
             PROVE  \/ runs[r].status = "absent" /\ runs'[r].status = "queued"
                    \/ CanMove(runs[r].status, runs'[r].status)
  OBVIOUS
<1> USE NullAssumption DEF IInv
<1>1. CASE UNCHANGED vars
  BY <1>1 DEF vars
<1>2. ASSUME NEW s \in Session, KeepsTask(s) \/ HoldsNothing(s) PROVE FALSE
  BY <1>2 DEF KeepsTask, HoldsNothing
<1>3. ASSUME NEW s \in Session, NEW e \in Entry \cup {Null}, NEW x \in Run,
             NEW pc \in {"open", "requeued"}, WriteQueued(s, e, x, pc)
      PROVE  runs[r].status = "absent" /\ runs'[r].status = "queued"
  BY <1>3 DEF WriteQueued, TypeOK
<1>4. ASSUME NEW s \in Session,
             NEW new \in {"running", "completed", "failed"},
             NEW pc \in {"open", "finished"}, WriteRun(s, new, pc)
      PROVE  CanMove(runs[r].status, runs'[r].status)
  <2>1. ses[s].run \in Run /\ runs[ses[s].run].status = ses[s].status
    BY <1>4 DEF WriteRun, OwnsRun, TypeOK, SessionState
  <2>2. runs'[ses[s].run].status = new
        /\ \A x \in Run \ {ses[s].run} : runs'[x] = runs[x]
    BY <1>4, <2>1 DEF WriteRun, TypeOK, RunRow
  <2>3. r = ses[s].run
    BY <2>2
  <2>4. QED
    BY <1>4, <2>1, <2>2, <2>3 DEF WriteRun
<1>5. QED
  BY <1>1, <1>2, <1>3, <1>4, StepKinds

\* A run only makes the moves of TASK_TRANSITIONS, however its task is
\* overwritten.
THEOREM RunMoves == Spec => RunsFollowTheTable
<1>1. IInv /\ [Next]_vars =>
        [\A r \in Run : runs'[r].status # runs[r].status =>
            \/ runs[r].status = "absent" /\ runs'[r].status = "queued"
            \/ CanMove(runs[r].status, runs'[r].status)]_vars
  BY StepRuns
<1>2. QED
  BY <1>1, Invariance, PTL DEF Spec, RunsFollowTheTable
----------------------------------------------------------------------------
(* The dead letter queue                                                   *)

\* The sessions whose copy of a dead letter row will be written back.
Holding(s) == ses[s].pc \in {"loaded", "retry", "requeued"}

\* What HistoryMatchesRetries asks of a row of entry e, be it the one in the
\* table or one that a session read before, when the runs' table is rs.
RowMatches(rs, e, row) ==
    /\ Len(row.history) = row.retries
    /\ \A i \in DOMAIN row.history :
          IF row.task = Null THEN row.history[i] = Null
          ELSE /\ row.history[i] # Null
               /\ rs[row.history[i]].entry = e
               /\ \A j \in DOMAIN row.history :
                     row.history[j] = row.history[i] => i = j

\* A run that no history names yet.
Named(r, row) == \E i \in DOMAIN row.history : row.history[i] = r
Unnamed(r) ==
    /\ \A e \in Entry : ~Named(r, dlq[e])
    /\ \A s \in Session : Holding(s) => ~Named(r, ses[s].row)

\* A copy may be stale, but it is of an entry that exists, with the task that
\* the entry still has, and it was true of some moment.
CopiesMatch ==
    \A s \in Session : Holding(s) =>
        /\ ses[s].entry \in Entry
        /\ dlq[ses[s].entry].status # "absent"
        /\ ses[s].row.task = dlq[ses[s].entry].task
        /\ RowMatches(runs, ses[s].entry, ses[s].row)
        /\ ses[s].pc # "loaded" =>
              ses[s].row.task # Null /\ ses[s].task = ses[s].row.task

\* The run of a retry that has not been committed yet is the entry's and is in
\* nobody's history.
RetriesAreFresh ==
    \A s \in Session : ses[s].pc = "requeued" =>
        /\ ses[s].run # Null
        /\ runs[ses[s].run].entry = ses[s].entry
        /\ Unnamed(ses[s].run)

\* The inductive invariant behind RequeuedEntryHasRun and
\* HistoryMatchesRetries, beside IInv.
DLQInv ==
    /\ \A e \in Entry : RowMatches(runs, e, dlq[e])
    /\ CopiesMatch
    /\ RetriesAreFresh
    /\ \A r \in Run : runs[r].status = "absent" => runs[r].entry = Null
    /\ RequeuedEntryHasRun

LEMMA HistoryRange ==
  ASSUME NEW row \in EntryRow, NEW i \in DOMAIN row.history
  PROVE  row.history[i] \in Run \cup {Null}
<1>1. row.history \in Seq(Run \cup {Null})
  BY DEF EntryRow
<1>2. QED
  BY <1>1, LenProperties, ElementOfSeq

\* A row stays true as long as no run leaves the entry it belongs to.
LEMMA RowKept ==
  ASSUME NEW e \in Entry, NEW row \in EntryRow, NEW rs, NEW new,
         RowMatches(rs, e, row),
         \A r \in Run : rs[r].entry # Null => new[r].entry = rs[r].entry
  PROVE  RowMatches(new, e, row)
  BY HistoryRange, NullAssumption DEF RowMatches

\* A retry appends a run that its row does not name, or none at all.
LEMMA RowExtended ==
  ASSUME NEW e \in Entry, NEW row \in EntryRow, NEW rs,
         RowMatches(rs, e, row),
         NEW r \in Run \cup {Null},
         IF row.task = Null THEN r = Null
         ELSE r # Null /\ rs[r].entry = e /\ ~Named(r, row),
         NEW new \in EntryRow,
         new.task = row.task, new.retries = row.retries + 1,
         new.history = Append(row.history, r)
  PROVE  /\ RowMatches(rs, e, new)
         /\ \A x : Named(x, new) => x = r \/ Named(x, row)
<1> DEFINE h == row.history
<1>1. h \in Seq(Run \cup {Null}) /\ row.retries \in Nat
  BY DEF EntryRow
<1>2. /\ Append(h, r) \in Seq(Run \cup {Null})
      /\ Len(Append(h, r)) = Len(h) + 1
      /\ \A i \in 1..Len(h) : Append(h, r)[i] = h[i]
      /\ Append(h, r)[Len(h) + 1] = r
  BY <1>1, AppendProperties
<1>3. Len(h) \in Nat /\ DOMAIN h = 1..Len(h)
      /\ DOMAIN Append(h, r) = 1..(Len(h) + 1)
  BY <1>1, <1>2, LenProperties
<1>4. \A i \in DOMAIN new.history :
         \/ i \in DOMAIN h /\ new.history[i] = h[i]
         \/ i = Len(h) + 1 /\ new.history[i] = r
  BY <1>2, <1>3
<1>5. \A x : Named(x, new) => x = r \/ Named(x, row)
  BY <1>4 DEF Named
<1>6. ASSUME NEW i \in DOMAIN new.history
      PROVE  IF new.task = Null THEN new.history[i] = Null
             ELSE /\ new.history[i] # Null
                  /\ rs[new.history[i]].entry = e
                  /\ \A j \in DOMAIN new.history :
                        new.history[j] = new.history[i] => i = j
  <2>1. CASE row.task = Null
    BY <1>4, <2>1 DEF RowMatches
  <2>2. CASE row.task # Null
    <3>1. \A j \in DOMAIN h : h[j] # r
      BY <2>2 DEF Named
    <3>2. \A j \in DOMAIN h : /\ h[j] # Null /\ rs[h[j]].entry = e
                              /\ \A k \in DOMAIN h : h[k] = h[j] => j = k
      BY <2>2 DEF RowMatches
    <3>3. QED
      BY <1>4, <2>2, <3>1, <3>2
  <2>3. QED
    BY <2>1, <2>2
<1>7. Len(new.history) = new.retries
  BY <1>1, <1>2 DEF RowMatches
<1>8. QED
  BY <1>5, <1>6, <1>7 DEF RowMatches

\* What CopiesMatch and RetriesAreFresh ask of one session.
CopyMatches(s) ==
    Holding(s) =>
        /\ ses[s].entry \in Entry
        /\ dlq[ses[s].entry].status # "absent"
        /\ ses[s].row.task = dlq[ses[s].entry].task
        /\ RowMatches(runs, ses[s].entry, ses[s].row)
        /\ ses[s].pc # "loaded" =>
              ses[s].row.task # Null /\ ses[s].task = ses[s].row.task

RetryIsFresh(s) ==
    ses[s].pc = "requeued" =>
        /\ ses[s].run # Null
        /\ runs[ses[s].run].entry = ses[s].entry
        /\ Unnamed(ses[s].run)

\* A step of session s that writes no dead letter row keeps the invariant if
\* it keeps what its runs say of entries and leaves s with a copy that matches.
LEMMA StepBesideDLQ ==
  ASSUME TypeOK, TypeOK', DLQInv,
         NEW s \in Session,
         ses' = [ses EXCEPT ![s] = ses'[s]],
         UNCHANGED dlq,
         \A r \in Run : runs[r].entry # Null =>
            runs'[r].entry = runs[r].entry /\ runs'[r].task = runs[r].task,
         \A r \in Run : runs'[r].status = "absent" => runs'[r].entry = Null,
         CopyMatches(s)', RetryIsFresh(s)',
         Holding(s)' => \A x : Named(x, ses'[s].row) =>
            \/ \E e \in Entry : Named(x, dlq[e])
            \/ Holding(s) /\ Named(x, ses[s].row)
  PROVE  DLQInv'
<1> USE NullAssumption
<1>1. \A q \in Session \ {s} : ses'[q] = ses[q]
  BY DEF TypeOK
<1>2. \A e \in Entry : RowMatches(runs', e, dlq'[e])
  <2> SUFFICES ASSUME NEW e \in Entry PROVE RowMatches(runs', e, dlq[e])
    OBVIOUS
  <2>1. dlq[e] \in EntryRow /\ RowMatches(runs, e, dlq[e])
    BY DEF TypeOK, DLQInv
  <2>2. QED
    BY <2>1, RowKept
<1>3. CopiesMatch'
  <2> SUFFICES ASSUME NEW q \in Session PROVE CopyMatches(q)'
    BY DEF CopiesMatch, CopyMatches
  <2>1. CASE q = s
    BY <2>1
  <2>2. CASE q # s
    <3> SUFFICES ASSUME Holding(q) PROVE CopyMatches(q)'
      BY <1>1, <2>2 DEF CopyMatches, Holding
    <3>1. ses[q].row \in EntryRow /\ ses'[q] = ses[q]
      BY <1>1, <2>2 DEF TypeOK, SessionState
    <3>2. ses[q].entry \in Entry /\ RowMatches(runs, ses[q].entry, ses[q].row)
      BY DEF DLQInv, CopiesMatch
    <3>3. RowMatches(runs', ses[q].entry, ses[q].row)
      BY <3>1, <3>2, RowKept
    <3>4. QED
      BY <3>1, <3>3 DEF DLQInv, CopiesMatch, CopyMatches
  <2>3. QED
    BY <2>1, <2>2
<1>4. RetriesAreFresh'
  <2> SUFFICES ASSUME NEW q \in Session PROVE RetryIsFresh(q)'
    BY DEF RetriesAreFresh, RetryIsFresh
  <2>1. CASE q = s
    BY <2>1
  <2>2. CASE q # s
    <3> SUFFICES ASSUME ses[q].pc = "requeued" PROVE RetryIsFresh(q)'
      BY <1>1, <2>2 DEF RetryIsFresh
    <3>1. ses'[q] = ses[q] /\ ses[q].run \in Run \cup {Null}
      BY <1>1, <2>2 DEF TypeOK, SessionState
    <3>2. /\ ses[q].run # Null /\ runs[ses[q].run].entry = ses[q].entry
          /\ Unnamed(ses[q].run) /\ ses[q].entry # Null
      BY DEF DLQInv, RetriesAreFresh, CopiesMatch, Holding
    <3>3. Unnamed(ses[q].run)'
      BY <1>1, <3>1, <3>2 DEF Unnamed, Holding
    <3>4. QED
      BY <3>1, <3>2, <3>3 DEF RetryIsFresh
  <2>3. QED
    BY <2>1, <2>2
<1>5. RequeuedEntryHasRun'
  BY DEF DLQInv, RequeuedEntryHasRun
<1>6. QED
  BY <1>2, <1>3, <1>4, <1>5 DEF DLQInv

\* So does one that writes row new of entry e and leaves s without a copy, if
\* the row matches, is still of the same task, and names only what was named
\* before and the run of s.
LEMMA StepOnDLQ ==
  ASSUME TypeOK, TypeOK', OwnsRun, DLQInv,
         NEW s \in Session, NEW e \in Entry, NEW new \in EntryRow,
         ses' = [ses EXCEPT ![s] = ses'[s]],
         dlq' = [dlq EXCEPT ![e] = new],
         UNCHANGED runs,
         ~Holding(s)',
         RowMatches(runs, e, new),
         new.status # "absent",
         dlq[e].status = "absent" \/ new.task = dlq[e].task,
         \A x : Named(x, new) =>
            \/ Named(x, dlq[e])
            \/ Holding(s) /\ Named(x, ses[s].row)
            \/ x = ses[s].run,
         new.status = "requeued" /\ new.task # Null =>
            \E r \in Run : runs[r].entry = e /\ runs[r].task = new.task
  PROVE  DLQInv'
<1> USE NullAssumption
<1>1. \A q \in Session \ {s} : ses'[q] = ses[q]
  BY DEF TypeOK
<1>2. dlq'[e] = new /\ \A x \in Entry \ {e} : dlq'[x] = dlq[x]
  BY DEF TypeOK
<1>3. \A x \in Entry : RowMatches(runs', x, dlq'[x])
  BY <1>2 DEF DLQInv
<1>4. CopiesMatch'
  <2> SUFFICES ASSUME NEW q \in Session, q # s, Holding(q)
               PROVE  CopyMatches(q)'
    BY <1>1 DEF CopiesMatch, CopyMatches, Holding
  <2>1. CopyMatches(q) /\ ses'[q] = ses[q]
    BY <1>1 DEF DLQInv, CopiesMatch, CopyMatches
  <2>2. QED
    BY <1>2, <2>1 DEF CopyMatches, Holding
<1>5. RetriesAreFresh'
  <2> SUFFICES ASSUME NEW q \in Session, q # s, ses[q].pc = "requeued"
               PROVE  RetryIsFresh(q)'
    BY <1>1 DEF RetriesAreFresh, RetryIsFresh, Holding
  <2>1. RetryIsFresh(q) /\ ses'[q] = ses[q]
    BY <1>1 DEF DLQInv, RetriesAreFresh, RetryIsFresh
  <2>2. ses[q].run # ses[s].run
    BY <2>1 DEF RetryIsFresh, OwnsRun
  <2>3. ~Named(ses[q].run, new)
    BY <2>1, <2>2 DEF RetryIsFresh, Unnamed
  <2>4. Unnamed(ses[q].run)'
    BY <1>1, <1>2, <2>1, <2>3 DEF RetryIsFresh, Unnamed, Holding
  <2>5. QED
    BY <2>1, <2>4 DEF RetryIsFresh
<1>6. RequeuedEntryHasRun'
  BY <1>2 DEF DLQInv, RequeuedEntryHasRun
<1>7. QED
  BY <1>3, <1>4, <1>5, <1>6 DEF DLQInv

LEMMA NextDLQ == IInv /\ IInv' /\ DLQInv /\ [Next]_vars => DLQInv'
<1> SUFFICES ASSUME IInv, IInv', DLQInv, [Next]_vars PROVE DLQInv'
  OBVIOUS
<1> USE NullAssumption DEF IInv
<1>0. \A s \in Session : ses[s] \in SessionState
  BY DEF TypeOK
<1>1. CASE UNCHANGED vars
  BY <1>1 DEF vars, DLQInv, RowMatches, CopiesMatch, RetriesAreFresh, Holding,
              Unnamed, Named, RequeuedEntryHasRun
<1>2. ASSUME NEW s \in Session, NEW v,
             ses' = [ses EXCEPT ![s] = v],
             v.pc \notin {"loaded", "retry", "requeued"},
             UNCHANGED <<runs, dlq>>
      PROVE  DLQInv'
  <2>1. ses'[s] = v
    BY <1>2 DEF TypeOK
  <2>2. QED
    BY <1>2, <2>1, StepBesideDLQ
       DEF DLQInv, CopyMatches, RetryIsFresh, Holding
<1>3. ASSUME NEW s \in Session,
             \/ \E t \in Task, planned \in BOOLEAN : CreateTask(s, t, planned)
             \/ RefreshTask(s)
             \/ \E t \in Task : LoadTask(s, t)
             \/ EmitFinished(s)
             \/ EmitPushed(s)
             \/ Close(s)
      PROVE  DLQInv'
  <2> DEFINE Quiet == \E v : /\ ses' = [ses EXCEPT ![s] = v]
                            /\ v.pc \notin {"loaded", "retry", "requeued"}
  <2>1. Quiet
    <3>1. ASSUME NEW t \in Task, NEW planned \in BOOLEAN,
                 CreateTask(s, t, planned)
          PROVE  Quiet
      <4> DEFINE v == [Closed EXCEPT
                         !.pc = IF planned THEN "planned" ELSE "created",
                         !.task = t, !.status = "pending"]
      <4>1. v.pc \notin {"loaded", "retry", "requeued"}
        BY DEF Closed
      <4>2. ses' = [ses EXCEPT ![s] = v]
        BY <3>1 DEF CreateTask
      <4> HIDE DEF v
      <4>3. QED
        BY <4>1, <4>2
    <3>2. ASSUME NEW t \in Task, LoadTask(s, t) PROVE Quiet
      <4> DEFINE v == [Closed EXCEPT !.pc = "open", !.task = t,
                                     !.status = status[t]]
      <4>1. v.pc \notin {"loaded", "retry", "requeued"}
        BY DEF Closed
      <4>2. ses' = [ses EXCEPT ![s] = v]
        BY <3>2 DEF LoadTask
      <4> HIDE DEF v
      <4>3. QED
        BY <4>1, <4>2
    <3>3. CASE RefreshTask(s)
      <4> DEFINE v == [ses[s] EXCEPT
                         !.status = status[ses[s].task],
                         !.pc = IF ses[s].pc = "planned" THEN "batch" ELSE "open"]
      <4>1. v.pc \notin {"loaded", "retry", "requeued"}
        BY <1>0 DEF SessionState
      <4>2. ses' = [ses EXCEPT ![s] = v]
        BY <3>3 DEF RefreshTask, TypeOK
      <4> HIDE DEF v
      <4>3. QED
        BY <4>1, <4>2
    <3>4. CASE EmitFinished(s) \/ EmitPushed(s)
      <4>1. PICK v \in {[ses[s] EXCEPT !.pc = "open"],
                        [ses[s] EXCEPT !.pc = "open", !.entry = Null]} :
                    ses' = [ses EXCEPT ![s] = v]
        BY <3>4 DEF EmitFinished, EmitPushed, TypeOK
      <4>2. v.pc \notin {"loaded", "retry", "requeued"}
        BY <1>0 DEF SessionState
      <4>3. QED
        BY <4>1, <4>2
    <3>5. CASE Close(s)
      <4>1. Closed.pc \notin {"loaded", "retry", "requeued"}
        BY DEF Closed
      <4>2. QED
        BY <3>5, <4>1 DEF Close
    <3> HIDE DEF Quiet
    <3>6. QED
      BY <1>3, <3>1, <3>2, <3>3, <3>4, <3>5
  <2>2. UNCHANGED <<runs, dlq>>
    BY <1>3 DEF CreateTask, RefreshTask, LoadTask, EmitFinished, EmitPushed,
                Close, db
  <2>3. QED
    BY <1>2, <2>1, <2>2
<1>4. ASSUME NEW s \in Session,
             NEW new \in {"running", "completed", "failed"},
             NEW pc \in {"open", "finished"}, WriteRun(s, new, pc)
      PROVE  DLQInv'
  <2> DEFINE v == [ses[s] EXCEPT !.status = new, !.pc = pc]
             r == ses[s].run
  <2>1. ses' = [ses EXCEPT ![s] = v] /\ ses'[s] = v /\ v.pc = pc
    BY <1>0, <1>4 DEF WriteRun, SessionState, TypeOK
  <2>2. r \in Run /\ UNCHANGED dlq
    BY <1>0, <1>4 DEF WriteRun, SessionState
  <2>3. /\ runs'[r].entry = runs[r].entry /\ runs'[r].task = runs[r].task
        /\ runs'[r].status = new
        /\ \A x \in Run \ {r} : runs'[x] = runs[x]
    BY <1>4, <2>2 DEF WriteRun, TypeOK, RunRow
  <2>4. \A x \in Run : /\ runs'[x].entry = runs[x].entry
                       /\ runs'[x].task = runs[x].task
    BY <2>3
  <2>5. \A x \in Run : runs'[x].status = "absent" => runs'[x].entry = Null
    BY <2>3, <2>4 DEF DLQInv
  <2>6. ~Holding(s)' /\ CopyMatches(s)' /\ RetryIsFresh(s)'
    BY <2>1 DEF CopyMatches, RetryIsFresh, Holding
  <2>7. ses' = [ses EXCEPT ![s] = ses'[s]]
    BY <2>1
  <2>8. QED
    BY <2>2, <2>4, <2>5, <2>6, <2>7, StepBesideDLQ
<1>5. ASSUME NEW s \in Session, NEW e \in Entry \cup {Null}, NEW r \in Run,
             NEW pc \in {"open", "requeued"}, WriteQueued(s, e, r, pc),
             pc = "requeued" => ses[s].pc = "retry" /\ e = ses[s].entry
      PROVE  DLQInv'
  <2> DEFINE v == [ses[s] EXCEPT !.status = "queued", !.run = r, !.pc = pc]
  <2>1. ses' = [ses EXCEPT ![s] = v] /\ ses'[s] = v
    BY <1>5 DEF WriteQueued, TypeOK
  <2>2. /\ v.pc = pc /\ v.run = r /\ v.entry = ses[s].entry
        /\ v.row = ses[s].row /\ v.task = ses[s].task /\ v.row \in EntryRow
    BY <1>0 DEF SessionState
  <2>3. /\ runs[r].status = "absent" /\ runs[r].entry = Null
        /\ runs'[r].status = "queued" /\ runs'[r].entry = e
        /\ \A x \in Run \ {r} : runs'[x] = runs[x]
        /\ UNCHANGED dlq
    BY <1>5 DEF WriteQueued, TypeOK, DLQInv
  <2>4. \A x \in Run : runs[x].entry # Null =>
           runs'[x].entry = runs[x].entry /\ runs'[x].task = runs[x].task
    BY <2>3
  <2>5. \A x \in Run : runs'[x].status = "absent" => runs'[x].entry = Null
    BY <2>3 DEF DLQInv
  <2>6. pc = "requeued" => CopyMatches(s) /\ Holding(s)
    BY <1>5 DEF Holding, CopyMatches, DLQInv, CopiesMatch
  <2>7. CopyMatches(s)'
    <3> SUFFICES ASSUME pc = "requeued" PROVE CopyMatches(s)'
      BY <2>1, <2>2 DEF CopyMatches, Holding
    <3>1. RowMatches(runs', ses[s].entry, ses[s].row)
      <4>1. /\ ses[s].entry \in Entry /\ ses[s].row \in EntryRow
            /\ RowMatches(runs, ses[s].entry, ses[s].row)
        BY <1>0, <2>6 DEF CopyMatches, SessionState
      <4>2. QED
        BY <2>4, <4>1, RowKept
    <3>2. QED
      BY <1>5, <2>1, <2>2, <2>3, <2>6, <3>1 DEF CopyMatches, Holding
  <2>8. Unnamed(r)
    <3>1. ASSUME NEW x \in Entry, NEW row \in EntryRow,
                 RowMatches(runs, x, row), row.task # Null
          PROVE  ~Named(r, row)
      BY <2>3, <3>1 DEF RowMatches, Named
    <3>2. ASSUME NEW x \in Entry, NEW row \in EntryRow,
                 RowMatches(runs, x, row), row.task = Null
          PROVE  ~Named(r, row)
      BY <3>2 DEF RowMatches, Named
    <3>3. QED
      BY <1>0, <3>1, <3>2
         DEF Unnamed, DLQInv, CopiesMatch, TypeOK, SessionState
  <2>9. RetryIsFresh(s)'
    <3> SUFFICES ASSUME pc = "requeued" PROVE RetryIsFresh(s)'
      BY <2>1, <2>2 DEF RetryIsFresh
    <3>1. \A q \in Session \ {s} : ses'[q] = ses[q]
      BY <2>1 DEF TypeOK
    <3>2. Unnamed(r)'
      BY <2>1, <2>2, <2>3, <2>6, <2>8, <3>1 DEF Unnamed, Holding
    <3>3. QED
      BY <1>5, <2>1, <2>2, <2>3, <3>2 DEF RetryIsFresh
  <2>10. Holding(s)' => Holding(s) /\ ses'[s].row = ses[s].row
    BY <1>5, <2>1, <2>2 DEF Holding
  <2>11. Holding(s)' => \A x : Named(x, ses'[s].row) =>
            Holding(s) /\ Named(x, ses[s].row)
    BY <2>10
  <2>12. ses' = [ses EXCEPT ![s] = ses'[s]]
    BY <2>1
  <2>13. QED
    BY <2>3, <2>7, <2>9, <2>11, <2>4, <2>5, <2>12, StepBesideDLQ
<1>6. ASSUME NEW s \in Session, NEW e \in Entry, NEW t \in Task \cup {Null},
             PushToDLQ(s, e, t)
      PROVE  DLQInv'
  <2> DEFINE v == [ses[s] EXCEPT !.pc = "pushed", !.entry = e]
             new == [task |-> t, status |-> "failed", retries |-> 0,
                     history |-> <<>>]
  <2>1. ses' = [ses EXCEPT ![s] = v] /\ ses'[s] = v /\ v.pc = "pushed"
    BY <1>0, <1>6 DEF PushToDLQ, SessionState, TypeOK
  <2>2. new \in EntryRow /\ RowMatches(runs, e, new) /\ \A x : ~Named(x, new)
    BY DEF EntryRow, RowMatches, Named
  <2>3. dlq' = [dlq EXCEPT ![e] = new] /\ dlq[e].status = "absent"
        /\ UNCHANGED runs
    BY <1>6 DEF PushToDLQ
  <2>4. QED
    BY <2>1, <2>2, <2>3, StepOnDLQ DEF Holding
<1>7. ASSUME NEW s \in Session, NEW e \in Entry, LoadEntry(s, e)
      PROVE  DLQInv'
  <2> DEFINE v == [Closed EXCEPT !.pc = "loaded", !.entry = e, !.row = dlq[e]]
  <2>1. /\ ses' = [ses EXCEPT ![s] = v] /\ ses'[s] = v
        /\ v.pc = "loaded" /\ v.entry = e /\ v.row = dlq[e]
    BY <1>7 DEF LoadEntry, Closed, TypeOK
  <2>2. dlq[e].status # "absent" /\ UNCHANGED <<runs, dlq>>
    BY <1>7 DEF LoadEntry, db
  <2>3. CopyMatches(s)' /\ RetryIsFresh(s)'
    BY <2>1, <2>2 DEF DLQInv, CopyMatches, RetryIsFresh
  <2>4. QED
    BY <2>1, <2>2, <2>3, StepBesideDLQ DEF DLQInv
<1>8. ASSUME NEW s \in Session, RetryReadTask(s) PROVE DLQInv'
  <2> DEFINE v == [ses[s] EXCEPT !.pc = "retry", !.task = ses[s].row.task,
                                 !.status = status[ses[s].row.task]]
  <2>1. /\ ses' = [ses EXCEPT ![s] = v] /\ ses'[s] = v
        /\ v.pc = "retry" /\ v.entry = ses[s].entry /\ v.row = ses[s].row
        /\ v.task = ses[s].row.task
    BY <1>0, <1>8 DEF RetryReadTask, SessionState, TypeOK
  <2>2. /\ ses[s].pc = "loaded" /\ ses[s].row.task # Null
        /\ UNCHANGED <<runs, dlq>>
    BY <1>8 DEF RetryReadTask, db
  <2>3. CopyMatches(s)' /\ RetryIsFresh(s)' /\ Holding(s)
    BY <2>1, <2>2 DEF DLQInv, CopiesMatch, CopyMatches, RetryIsFresh, Holding
  <2>4. QED
    BY <2>1, <2>2, <2>3, StepBesideDLQ DEF DLQInv
<1>9. ASSUME NEW s \in Session, RetryCommit(s) PROVE DLQInv'
  <2> DEFINE e == ses[s].entry
             row == ses[s].row
             r == ses[s].run
             new == [dlq[e] EXCEPT
                       !.retries = row.retries + 1,
                       !.history = Append(row.history, ses[s].run),
                       !.status  = WriteColumn(row.status, "requeued", dlq[e].status)]
  <2>1. /\ ses' = [ses EXCEPT ![s] = Closed] /\ ses'[s] = Closed
        /\ dlq' = [dlq EXCEPT ![e] = new]
        /\ UNCHANGED runs
    BY <1>9 DEF RetryCommit, WriteColumn, TypeOK
  <2>2. Holding(s) /\ CopyMatches(s)
    BY <1>9 DEF RetryCommit, Holding, DLQInv, CopiesMatch, CopyMatches
  <2>3. /\ e \in Entry /\ row.task = dlq[e].task /\ RowMatches(runs, e, row)
        /\ dlq[e].status # "absent"
    BY <2>2 DEF CopyMatches
  <2>4. row \in EntryRow /\ r \in Run \cup {Null} /\ dlq[e] \in EntryRow
    BY <1>0, <2>3 DEF SessionState, TypeOK
  <2>5. IF row.task = Null THEN r = Null
        ELSE r # Null /\ runs[r].entry = e /\ ~Named(r, row)
    <3>1. CASE ses[s].pc = "requeued"
      BY <2>2, <3>1 DEF CopyMatches, Holding, DLQInv, RetriesAreFresh, Unnamed
    <3>2. CASE ses[s].pc = "loaded" /\ row.task = Null
      BY <3>2 DEF OwnsRun
    <3>3. QED
      BY <1>9, <3>1, <3>2 DEF RetryCommit
  <2>6. /\ new \in EntryRow /\ new.task = row.task
        /\ new.retries = row.retries + 1
        /\ new.history = Append(row.history, r)
        /\ new.status = WriteColumn(row.status, "requeued", dlq[e].status)
    <3>1. row.retries + 1 \in Nat
          /\ Append(row.history, r) \in Seq(Run \cup {Null})
      BY <2>4, AppendProperties DEF EntryRow
    <3>2. QED
      BY <2>3, <2>4, <3>1 DEF EntryRow, WriteColumn
  <2>7. RowMatches(runs, e, new) /\ \A x : Named(x, new) => x = r \/ Named(x, row)
    <3> HIDE DEF new, row, r
    <3>1. QED
      BY <2>3, <2>4, <2>5, <2>6, RowExtended
  <2>8. new.task # Null => runs[r].task = new.task /\ r \in Run
    BY <1>9, <2>2, <2>3, <2>4, <2>5, <2>6
       DEF RetryCommit, CopyMatches, OwnsRun
  <2>9. new.status # "absent"
    BY <2>3, <2>6 DEF WriteColumn
  <2>10. ~Holding(s)'
    BY <2>1 DEF Holding, Closed
  <2>11. new.status = "requeued" /\ new.task # Null =>
            \E x \in Run : runs[x].entry = e /\ runs[x].task = new.task
    BY <2>5, <2>6, <2>8
  <2>12. QED
    <3> HIDE DEF new
    <3>1. QED
      BY <2>1, <2>2, <2>3, <2>6, <2>7, <2>9, <2>10, <2>11, StepOnDLQ
<1>10. ASSUME NEW s \in Session, DiscardEntry(s) PROVE DLQInv'
  <2> DEFINE e == ses[s].entry
             new == [dlq[e] EXCEPT !.status =
                       WriteColumn(ses[s].row.status, "discarded", dlq[e].status)]
  <2>1. /\ ses' = [ses EXCEPT ![s] = Closed] /\ ses'[s] = Closed
        /\ dlq' = [dlq EXCEPT ![e] = new]
        /\ UNCHANGED runs
    BY <1>10 DEF DiscardEntry, WriteColumn, TypeOK
  <2>2. e \in Entry /\ dlq[e].status # "absent"
    BY <1>10 DEF DiscardEntry, Holding, DLQInv, CopiesMatch
  <2>3. dlq[e] \in EntryRow /\ RowMatches(runs, e, dlq[e])
    BY <2>2 DEF TypeOK, DLQInv
  <2>4. /\ new \in EntryRow /\ new.task = dlq[e].task
        /\ new.history = dlq[e].history /\ new.retries = dlq[e].retries
        /\ new.status \in {"discarded", dlq[e].status}
    BY <2>3 DEF EntryRow, WriteColumn
  <2>5. RowMatches(runs, e, new) /\ \A x : Named(x, new) => Named(x, dlq[e])
    BY <2>3, <2>4 DEF RowMatches, Named
  <2>6. ~Holding(s)'
    BY <2>1 DEF Holding, Closed
  <2>7. new.status = "requeued" /\ new.task # Null =>
            \E x \in Run : runs[x].entry = e /\ runs[x].task = new.task
    BY <2>2, <2>4 DEF DLQInv, RequeuedEntryHasRun
  <2>8. QED
    <3> HIDE DEF new
    <3>1. QED
      BY <2>1, <2>2, <2>4, <2>5, <2>6, <2>7, StepOnDLQ
<1>11. \A s \in Session : ses[s].entry \in Entry \cup {Null}
  BY <1>0 DEF SessionState
<1>12. ASSUME NEW s \in Session, StartRun(s) \/ CompleteRun(s) \/ FailRun(s)
       PROVE  DLQInv'
  BY <1>4, <1>12 DEF StartRun, CompleteRun, FailRun
<1>13. ASSUME NEW s \in Session, NEW r \in Run,
              QueueTask(s, r) \/ RetryRequeue(s, r)
       PROVE  DLQInv'
  BY <1>5, <1>11, <1>13 DEF QueueTask, RetryRequeue
<1>14. QED
  BY <1>1, <1>3, <1>6, <1>7, <1>8, <1>9, <1>10, <1>12, <1>13 DEF Next

LEMMA InitDLQ == Init => DLQInv
  BY NullAssumption
     DEF Init, DLQInv, RowMatches, CopiesMatch, RetriesAreFresh, Holding,
         RequeuedEntryHasRun, NoEntry, NoRun, Closed

THEOREM DLQInvariance == Spec => []DLQInv
<1>1. QED
  BY InitDLQ, NextDLQ, Invariance, PTL DEF Spec

\* An entry says requeued only if a retry gave its task a run, although the
\* requeue is a commit of its own and retries and discards overwrite each
\* other's rows (services/task_service.py).
THEOREM RequeuedHasRun == Spec => []RequeuedEntryHasRun
<1>1. DLQInv => RequeuedEntryHasRun
  BY DEF DLQInv
<1>2. QED
  BY <1>1, DLQInvariance, PTL

\* However retries of one entry overlap, its count is the length of its
\* history, and the history names only its own runs, none of them twice.
THEOREM HistoryCounts == Spec => []HistoryMatchesRetries
<1>1. DLQInv => HistoryMatchesRetries
  BY DEF DLQInv, RowMatches, HistoryMatchesRetries
<1>2. QED
  BY <1>1, DLQInvariance, PTL

----------------------------------------------------------------------------
(* One request at a time                                                   *)

Live(r) == runs[r].status \in {"queued", "running"}

\* When requests never overlap, at most one session is open and what it
\* remembers of its task is what the table holds; a live run has the status
\* of its task, and a task has at most one live run.
SerialInv ==
    /\ \A s, q \in Session :
          ses[s].pc # "closed" /\ ses[q].pc # "closed" => s = q
    /\ \A s \in Session : ses[s].status # "absent" =>
          ses[s].pc # "closed" /\ status[ses[s].task] = ses[s].status
    /\ \A r \in Run : Live(r) =>
          runs[r].task \in Task /\ status[runs[r].task] = runs[r].status
    /\ \A r, x \in Run :
          Live(r) /\ Live(x) /\ runs[r].task = runs[x].task => r = x

\* A step of the engine maps to a step of the task machine, or to a stutter.
LEMMA SerialStep ==
  ASSUME Serial, IInv, SerialInv, [Next]_vars
  PROVE  SerialInv' /\ [Machine!Next]_(Machine!vars)
<1> USE NullAssumption DEF IInv
<1>0. \A s \in Session : ses[s] \in SessionState
  BY DEF TypeOK
<1> DEFINE Goal == SerialInv' /\ [Machine!Next]_(Machine!vars)
<1>1. CASE UNCHANGED vars
  BY <1>1 DEF vars, SerialInv, Live, Machine!vars, active
<1>2. ASSUME NEW s \in Session, KeepsTask(s) PROVE Goal
  <2>1. \A q \in Session \ {s} : ses'[q] = ses[q]
    BY <1>2 DEF KeepsTask, TypeOK
  <2>2. SerialInv'
    BY <1>2, <2>1 DEF KeepsTask, SerialInv, Live
  <2>3. UNCHANGED Machine!vars
    BY <1>2 DEF KeepsTask, Machine!vars, active
  <2>4. QED
    BY <2>2, <2>3
<1>3. ASSUME NEW s \in Session, HoldsNothing(s) PROVE Goal
  <2>1. \A q \in Session \ {s} : ses'[q] = ses[q] /\ ses[q].pc = "closed"
    BY <1>3 DEF HoldsNothing, TypeOK, SerialInv
  <2>2. UNCHANGED active
    BY <1>3 DEF HoldsNothing, active
  <2>3. \/ UNCHANGED status
        \/ \E t \in Task : /\ status[t] = "absent"
                          /\ status' = [status EXCEPT ![t] = "pending"]
    BY <1>3 DEF HoldsNothing
  <2>4. [Machine!Next]_(Machine!vars)
    BY <2>2, <2>3 DEF Machine!Next, Machine!Create, Machine!vars
  <2>5. \A r \in Run : Live(r) => status'[runs[r].task] = status[runs[r].task]
    BY <2>3 DEF SerialInv, Live, TypeOK
  <2>6. \A q \in Session \ {s} : ses'[q].status = "absent"
    BY <2>1 DEF SerialInv
  <2>7. SerialInv'
    BY <1>3, <2>1, <2>5, <2>6 DEF HoldsNothing, SerialInv, Live
  <2>8. QED
    BY <2>4, <2>7
<1>4. ASSUME NEW s \in Session, NEW e \in Entry \cup {Null}, NEW r \in Run,
             NEW pc \in {"open", "requeued"}, WriteQueued(s, e, r, pc)
      PROVE  Goal
  <2> DEFINE t == ses[s].task
             v == [ses[s] EXCEPT !.status = "queued", !.run = r, !.pc = pc]
  <2>1. t \in Task /\ ses[s].pc # "closed" /\ status[t] = ses[s].status
    BY <1>4, MoveTypes DEF WriteQueued, HoldsTask, SerialInv
  <2>2. CanMove(status[t], "queued") /\ status[t] \notin {"queued", "running"}
    BY <1>4, <2>1 DEF WriteQueued, CanMove, TASK_TRANSITIONS, TaskStatus
  <2>3. /\ runs'[r].task = t /\ runs'[r].status = "queued"
        /\ \A x \in Run \ {r} : runs'[x] = runs[x]
        /\ runs[r].status = "absent"
    BY <1>4 DEF WriteQueued, TypeOK
  <2>4. status' = [status EXCEPT ![t] = "queued"]
    BY <1>4 DEF WriteQueued
  <2>5. \A x \in Run : Live(x) => runs[x].task # t
    BY <2>2 DEF SerialInv, Live
  <2>6. t \notin active
    BY <2>5 DEF active, Live
  <2>7. active' = active \cup {t}
    BY <2>3 DEF active
  <2>8. Machine!Queue(t)
    BY <2>2, <2>4, <2>6, <2>7 DEF Machine!Queue, Machine!CanMove, CanMove,
       Machine!TASK_TRANSITIONS, TASK_TRANSITIONS, Machine!TaskStatus,
       TaskStatus
  <2>9. /\ ses'[s].status = "queued" /\ ses'[s].task = t /\ ses'[s].pc = pc
        /\ \A q \in Session \ {s} : ses'[q] = ses[q] /\ ses[q].pc = "closed"
    <3>1. ses' = [ses EXCEPT ![s] = v] /\ ses'[s] = v
      BY <1>4 DEF WriteQueued, TypeOK
    <3>2. v.status = "queued" /\ v.pc = pc /\ v.task = t
      BY <1>0 DEF SessionState
    <3>3. QED
      BY <2>1, <3>1, <3>2 DEF SerialInv, TypeOK
  <2>10. status'[t] = "queued" /\ \A u \in Task \ {t} : status'[u] = status[u]
    BY <2>1, <2>4 DEF TypeOK
  <2>11. \A q \in Session \ {s} : ses'[q].status = "absent"
    BY <2>9 DEF SerialInv
  <2>12. \A x \in Run : Live(x)' =>
           runs'[x].task \in Task /\ status'[runs'[x].task] = runs'[x].status
    BY <2>1, <2>3, <2>5, <2>10 DEF SerialInv, Live
  <2>13. \A x, y \in Run : Live(x)' /\ Live(y)' /\ runs'[x].task = runs'[y].task
            => x = y
    BY <2>3, <2>5 DEF SerialInv, Live
  <2>14. SerialInv'
    BY <2>9, <2>10, <2>11, <2>12, <2>13 DEF SerialInv
  <2>15. QED
    BY <2>1, <2>8, <2>14 DEF Machine!Next
<1>5. ASSUME NEW s \in Session,
             NEW new \in {"running", "completed", "failed"},
             NEW pc \in {"open", "finished"}, WriteRun(s, new, pc)
      PROVE  Goal
  <2> DEFINE t == ses[s].task
             r == ses[s].run
             v == [ses[s] EXCEPT !.status = new, !.pc = pc]
  <2>1. /\ t \in Task /\ ses[s].pc # "closed" /\ status[t] = ses[s].status
        /\ r \in Run /\ runs[r].task = t /\ runs[r].status = ses[s].status
    BY <1>0, <1>5, MoveTypes
       DEF WriteRun, HoldsTask, OwnsRun, SerialInv, SessionState
  <2>2. CanMove(status[t], new) /\ status[t] \in {"queued", "running"}
    BY <1>5, <2>1 DEF WriteRun, CanMove, TASK_TRANSITIONS, TaskStatus
  <2>3. /\ runs'[r].task = t /\ runs'[r].status = new
        /\ \A x \in Run \ {r} : runs'[x] = runs[x]
    BY <1>5, <2>1 DEF WriteRun, TypeOK, RunRow
  <2>4. status' = [status EXCEPT ![t] = new]
    BY <1>5 DEF WriteRun
  <2>5. Live(r) /\ t \in active
    BY <2>1, <2>2 DEF Live, active
  <2>6. \A x \in Run \ {r} : Live(x) => runs[x].task # t
    BY <2>1, <2>5 DEF SerialInv
  <2>7. status'[t] = new /\ \A u \in Task \ {t} : status'[u] = status[u]
    BY <2>1, <2>4 DEF TypeOK
  <2>8. Machine!Next
    <3> USE DEF Machine!CanMove, Machine!TASK_TRANSITIONS, Machine!TaskStatus,
                CanMove, TASK_TRANSITIONS, TaskStatus
    <3>1. CASE new = "running"
      <4>1. active' = active
        BY <3>1, <2>1, <2>3, <2>5 DEF active, Live
      <4>2. Machine!Start(t)
        BY <3>1, <4>1, <2>2, <2>4, <2>5 DEF Machine!Start
      <4>3. QED
        BY <4>2, <2>1 DEF Machine!Next
    <3>2. CASE new \in {"completed", "failed"}
      <4>1. active' = active \ {t}
        BY <3>2, <2>1, <2>3, <2>6 DEF active, Live
      <4>2. Machine!Finish(t, new)
        BY <3>2, <4>1, <2>2, <2>4, <2>5 DEF Machine!Finish
      <4>3. QED
        BY <4>2, <3>2, <2>1 DEF Machine!Next
    <3>3. QED
      BY <3>1, <3>2
  <2>9. /\ ses'[s].status = new /\ ses'[s].task = t /\ ses'[s].pc = pc
        /\ \A q \in Session \ {s} : ses'[q] = ses[q] /\ ses[q].pc = "closed"
    <3>1. ses' = [ses EXCEPT ![s] = v] /\ ses'[s] = v
      BY <1>5 DEF WriteRun, TypeOK
    <3>2. v.status = new /\ v.pc = pc /\ v.task = t
      BY <1>0 DEF SessionState
    <3>3. QED
      BY <2>1, <3>1, <3>2 DEF SerialInv, TypeOK
  <2>10. \A q \in Session \ {s} : ses'[q].status = "absent"
    BY <2>9 DEF SerialInv
  <2>11. \A x \in Run : Live(x)' =>
           runs'[x].task \in Task /\ status'[runs'[x].task] = runs'[x].status
    BY <2>1, <2>3, <2>6, <2>7 DEF SerialInv, Live
  <2>12. \A x, y \in Run : Live(x)' /\ Live(y)' /\ runs'[x].task = runs'[y].task
            => x = y
    BY <2>3, <2>6 DEF SerialInv, Live
  <2>13. SerialInv'
    BY <2>7, <2>9, <2>10, <2>11, <2>12 DEF SerialInv
  <2>14. QED
    BY <2>8, <2>13
<1>6. QED
  BY <1>1, <1>2, <1>3, <1>4, <1>5, StepKinds

\* With requests one at a time, the engine implements the task machine: the
\* status column makes only legal moves and no task has two live runs.
THEOREM SerialRefinement ==
  ASSUME Serial PROVE Spec => ImplementsTaskMachine
<1>1. Init => SerialInv /\ Machine!Init
  BY DEF Init, SerialInv, Live, Closed, NoRun, Machine!Init, active
<1>2. IInv /\ SerialInv /\ [Next]_vars
        => SerialInv' /\ [Machine!Next]_(Machine!vars)
  BY SerialStep
<1>3. QED
  BY <1>1, <1>2, Invariance, PTL
     DEF Spec, ImplementsTaskMachine, Machine!Spec

----------------------------------------------------------------------------
(* The order of a plan                                                     *)

CycleError == "Task graph contains a cycle."

Taken == {ordered[k] : k \in DOMAIN ordered}
Waiting == {queue[k] : k \in DOMAIN queue}

\* The dependencies of a name that were not taken yet.
Open(name) == {e \in Edges(name) : Target(e) \notin Taken}

Once(names) == \A i, j \in DOMAIN names : names[i] = names[j] => i = j

\* What was taken or is waiting is what has nothing open, and only counts of what is
\* open are kept; a task that was taken came after all it depends on.
GraphInv ==
    /\ plan \in Plans
    /\ ordered \in Seq(NamesOf(plan)) /\ queue \in Seq(NamesOf(plan))
    /\ UnknownNames # {} <=> error = "Unknown dependency"
    /\ error \in {NoError, "Unknown dependency", CycleError}
    /\ error = CycleError => queue = <<>> /\ Len(ordered) # Len(plan)
    /\ indegree = [name \in NamesOf(plan) |-> Cardinality(Open(name))]
    /\ Once(ordered) /\ Once(queue) /\ Taken \cap Waiting = {}
    /\ \A name \in NamesOf(plan) : Open(name) = {} <=> name \in Taken \cup Waiting
    /\ \A j \in DOMAIN ordered : \A e \in Edges(ordered[j]) :
          \E k \in 1 .. j - 1 : ordered[k] = Target(e)

LEMMA PlanIsASequence ==
  ASSUME plan \in Plans
  PROVE  /\ Len(plan) \in Nat /\ DOMAIN plan = 1 .. Len(plan)
         /\ \A i \in DOMAIN plan :
               /\ Len(plan[i].dependencies) \in Nat
               /\ DOMAIN plan[i].dependencies = 1 .. Len(plan[i].dependencies)
BY GraphAssumption

LEMMA EdgeIsADependency ==
  ASSUME NEW name, NEW e
  PROVE  e \in Edges(name) <=>
            \E i \in DOMAIN plan : \E k \in DOMAIN plan[i].dependencies :
               e = <<i, k>> /\ plan[i].name = name
BY DEF Edges

LEMMA EdgesFinite ==
  ASSUME plan \in Plans, NEW name
  PROVE  IsFiniteSet(Edges(name))
<1>1. PICK lengths : lengths = [i \in DOMAIN plan |-> Len(plan[i].dependencies)]
  OBVIOUS
<1>2. \A i \in 1 .. Len(plan) : lengths[i] \in Nat
  BY <1>1, PlanIsASequence
<1>3. PICK b \in Nat : \A i \in 1 .. Len(plan) : lengths[i] <= b
  BY <1>2, PlanIsASequence, ValuesBounded
<1>4. IsFiniteSet(1 .. Len(plan)) /\ IsFiniteSet(1 .. b)
  BY PlanIsASequence, FS_Interval
<1>5. IsFiniteSet((1 .. Len(plan)) \X (1 .. b))
  BY <1>4, FS_Product
<1>6. Edges(name) \subseteq (1 .. Len(plan)) \X (1 .. b)
  <2> SUFFICES ASSUME NEW e \in Edges(name) PROVE e \in (1 .. Len(plan)) \X (1 .. b)
    OBVIOUS
  <2>1. PICK i \in DOMAIN plan : \E k \in DOMAIN plan[i].dependencies : e = <<i, k>>
    BY EdgeIsADependency
  <2>2. PICK k \in DOMAIN plan[i].dependencies : e = <<i, k>>
    BY <2>1
  <2>3. i \in 1 .. Len(plan) /\ k \in 1 .. Len(plan[i].dependencies)
    BY PlanIsASequence
  <2>4. Len(plan[i].dependencies) \in Nat /\ Len(plan[i].dependencies) <= b
    BY <1>1, <1>3, <2>3, PlanIsASequence
  <2>5. k \in 1 .. b
    BY <2>3, <2>4
  <2>6. QED
    BY <2>2, <2>3, <2>5
<1>7. QED
  BY <1>5, <1>6, FS_Subset

\* NamesInOrder lists the names of the tasks at some indices, each task once.
LEMMA InOrderLists ==
  ASSUME plan \in Plans, NEW S \in SUBSET DOMAIN plan
  PROVE  /\ Len(NamesInOrder(S)) \in Nat /\ DOMAIN NamesInOrder(S) = 1 .. Len(NamesInOrder(S))
         /\ NamesInOrder(S) \in Seq(NamesOf(plan))
         /\ \A k \in DOMAIN NamesInOrder(S) : \E i \in S : NamesInOrder(S)[k] = plan[i].name
         /\ \A i \in S : \E k \in DOMAIN NamesInOrder(S) : NamesInOrder(S)[k] = plan[i].name
         /\ (\A i, j \in S : plan[i].name = plan[j].name => i = j) => Once(NamesInOrder(S))
<1> DEFINE n == Cardinality(S)
           L == {p \in Nat \X Nat : p[1] < p[2]}
           at(k) == CHOOSE i \in S : Cardinality({j \in S : j < i}) = k - 1
           Q == NamesInOrder(S)
<1>1. S \subseteq Nat /\ IsFiniteSet(S)
  <2>1. S \subseteq 1 .. Len(plan)
    BY PlanIsASequence
  <2>2. IsFiniteSet(1 .. Len(plan)) /\ 1 .. Len(plan) \subseteq Nat
    BY PlanIsASequence, FS_Interval
  <2>3. QED
    BY <2>1, <2>2, FS_Subset
<1>2. n \in Nat
  BY <1>1, FS_CardinalityType
<1>3. \A i, j \in S : <<i, j>> \in L <=> i < j
  BY <1>1
<1>4. StrictOrder(S, L)
  <2> HIDE DEF L
  <2>1. QED
    BY <1>1, <1>3 DEF StrictOrder
<1>5. RanksInOrder(S, L, n)
  <2> HIDE DEF L
  <2>1. QED
    BY <1>1, <1>4, RanksFill
<1>6. \A i \in S : RankIn(S, L, i) = Cardinality({j \in S : j < i})
  <2> SUFFICES ASSUME NEW i \in S PROVE RankIn(S, L, i) = Cardinality({j \in S : j < i})
    OBVIOUS
  <2> HIDE DEF L
  <2>1. {j \in S : <<j, i>> \in L} = {j \in S : j < i}
    BY <1>3
  <2>2. QED
    BY <2>1 DEF RankIn
<1>7. \A k \in 1 .. n : at(k) \in S /\ Cardinality({j \in S : j < at(k)}) = k - 1
  <2> HIDE DEF L, n
  <2> SUFFICES ASSUME NEW k \in 1 .. n
               PROVE  at(k) \in S /\ Cardinality({j \in S : j < at(k)}) = k - 1
    OBVIOUS
  <2>1. \E i \in S : Cardinality({j \in S : j < i}) = k - 1
    BY <1>5, <1>6 DEF RanksInOrder
  <2>2. QED
    BY <2>1
<1>8. Q = [k \in 1 .. n |-> plan[at(k)].name]
  BY DEF NamesInOrder
<1>9. \A i \in S : \E k \in 1 .. n : at(k) = i
  <2> SUFFICES ASSUME NEW i \in S PROVE \E k \in 1 .. n : at(k) = i
    OBVIOUS
  <2> DEFINE r == RankIn(S, L, i)
  <2>1. r \in 0 .. (n - 1) /\ r + 1 \in 1 .. n
    <3> HIDE DEF L
    <3>1. RankIn(S, L, i) \in 0 .. (n - 1)
      BY <1>5 DEF RanksInOrder
    <3>2. QED
      BY <1>2, <3>1
  <2>2. at(r + 1) \in S /\ Cardinality({j \in S : j < at(r + 1)}) = (r + 1) - 1
    <3> HIDE DEF L, n, at, r
    <3>1. QED
      BY <1>7, <2>1
  <2>3. RankIn(S, L, at(r + 1)) = r
    <3> HIDE DEF L, n, at
    <3>1. QED
      BY <1>6, <2>1, <2>2
  <2>4. at(r + 1) = i
    <3> HIDE DEF L, n, at
    <3>1. QED
      BY <1>5, <2>2, <2>3 DEF RanksInOrder
  <2>5. QED
    <3> HIDE DEF L, n, at, r
    <3>1. QED
      BY <2>1, <2>4
<1>10. \A k, l \in 1 .. n : at(k) = at(l) => k = l
  <2> HIDE DEF n, at
  <2> SUFFICES ASSUME NEW k \in 1 .. n, NEW l \in 1 .. n, at(k) = at(l) PROVE k = l
    OBVIOUS
  <2>1. k - 1 = l - 1
    BY <1>7
  <2>2. QED
    BY <1>2, <2>1
<1> HIDE DEF n, at, Q
<1>11. Len(Q) = n /\ DOMAIN Q = 1 .. n
  BY <1>2, <1>8
<1>12. \A k \in 1 .. n : at(k) \in S /\ Q[k] = plan[at(k)].name
  BY <1>7, <1>8
<1>13. \A k \in 1 .. n : plan[at(k)].name \in NamesOf(plan)
  BY <1>12 DEF NamesOf
<1>14. Q \in Seq(NamesOf(plan))
  BY <1>2, <1>8, <1>13
<1>15. \A i \in S : \E k \in 1 .. n : Q[k] = plan[i].name
  BY <1>9, <1>12
<1>16. ASSUME \A i, j \in S : plan[i].name = plan[j].name => i = j
       PROVE  Once(Q)
  BY <1>10, <1>11, <1>12, <1>16 DEF Once
<1>17. QED
  BY <1>2, <1>11, <1>12, <1>14, <1>15, <1>16 DEF Q

\* The list q has what s has behind its head, and what r has.
PassedOn(s, r, q) ==
    /\ \A k \in DOMAIN q :
          (\E i \in DOMAIN s : i # 1 /\ s[i] = q[k]) \/ \E i \in DOMAIN r : r[i] = q[k]
    /\ \A i \in DOMAIN s : i = 1 \/ \E k \in DOMAIN q : q[k] = s[i]
    /\ \A i \in DOMAIN r : \E k \in DOMAIN q : q[k] = r[i]

LEMMA ListPassesOn ==
  ASSUME NEW T, NEW s \in Seq(T), s # <<>>, NEW r \in Seq(T), NEW q, q = Tail(s) \o r,
         Once(s), Once(r), \A i \in DOMAIN s, j \in DOMAIN r : s[i] # r[j]
  PROVE  q \in Seq(T) /\ PassedOn(s, r, q) /\ Once(q)
<1>1. /\ Len(s) \in Nat /\ Len(s) >= 1 /\ DOMAIN s = 1 .. Len(s)
      /\ Len(r) \in Nat /\ DOMAIN r = 1 .. Len(r)
  OBVIOUS
<1>2. q \in Seq(T)
  OBVIOUS
<1>3. Len(Tail(s)) = Len(s) - 1 /\ \A k \in 1 .. Len(s) - 1 : Tail(s)[k] = s[k + 1]
  OBVIOUS
<1>4. Len(q) = (Len(s) - 1) + Len(r) /\ DOMAIN q = 1 .. (Len(s) - 1) + Len(r)
  BY <1>1, <1>3
<1>5. \A k \in 1 .. Len(s) - 1 : q[k] = s[k + 1]
  BY <1>1, <1>3
<1>6. \A k \in 1 .. Len(r) : q[(Len(s) - 1) + k] = r[k]
  BY <1>1, <1>3
<1>7. PICK m \in Nat : m = Len(s) - 1
  <2>1. Len(s) - 1 \in Nat
    BY <1>1
  <2>2. QED
    BY <2>1
<1>8. PICK n \in Nat : n = Len(r)
  BY <1>1
<1>9. /\ DOMAIN s = 1 .. m + 1 /\ DOMAIN r = 1 .. n /\ DOMAIN q = 1 .. m + n
      /\ \A k \in 1 .. m : q[k] = s[k + 1]
      /\ \A k \in 1 .. n : q[m + k] = r[k]
  BY <1>1, <1>4, <1>5, <1>6, <1>7, <1>8
<1>10. ASSUME NEW k \in DOMAIN q
       PROVE  \/ k \in 1 .. m /\ k + 1 \in DOMAIN s /\ q[k] = s[k + 1]
              \/ k - m \in 1 .. n /\ q[k] = r[k - m]
  <2>1. CASE k <= m
    BY <1>9, <2>1
  <2>2. CASE k > m
    <3>1. k - m \in 1 .. n /\ m + (k - m) = k
      BY <1>9, <2>2
    <3>2. QED
      BY <1>9, <3>1
  <2>3. QED
    BY <1>9, <2>1, <2>2
<1>11. \A k \in DOMAIN q : (\E i \in DOMAIN s : i # 1 /\ s[i] = q[k]) \/ \E i \in DOMAIN r : r[i] = q[k]
  <2> SUFFICES ASSUME NEW k \in DOMAIN q
               PROVE  (\E i \in DOMAIN s : i # 1 /\ s[i] = q[k]) \/ \E i \in DOMAIN r : r[i] = q[k]
    OBVIOUS
  <2>1. CASE k \in 1 .. m /\ k + 1 \in DOMAIN s /\ q[k] = s[k + 1]
    <3>1. k + 1 # 1
      BY <2>1
    <3>2. QED
      BY <2>1, <3>1
  <2>2. CASE k - m \in 1 .. n /\ q[k] = r[k - m]
    BY <1>9, <2>2
  <2>3. QED
    BY <1>10, <2>1, <2>2
<1>12. \A i \in DOMAIN s : i = 1 \/ \E k \in DOMAIN q : q[k] = s[i]
  <2> SUFFICES ASSUME NEW i \in DOMAIN s, i # 1 PROVE \E k \in DOMAIN q : q[k] = s[i]
    OBVIOUS
  <2>1. i - 1 \in 1 .. m /\ i - 1 \in DOMAIN q /\ (i - 1) + 1 = i
    BY <1>9
  <2>2. QED
    BY <1>9, <2>1
<1>13. \A i \in DOMAIN r : \E k \in DOMAIN q : q[k] = r[i]
  <2> SUFFICES ASSUME NEW i \in DOMAIN r PROVE \E k \in DOMAIN q : q[k] = r[i]
    OBVIOUS
  <2>1. m + i \in DOMAIN q
    BY <1>9
  <2>2. QED
    BY <1>9, <2>1
<1>14. Once(q)
  <2> SUFFICES ASSUME NEW k \in DOMAIN q, NEW l \in DOMAIN q, q[k] = q[l] PROVE k = l
    BY DEF Once
  <2>1. CASE k \in 1 .. m /\ k + 1 \in DOMAIN s /\ q[k] = s[k + 1]
    <3>1. CASE l \in 1 .. m /\ l + 1 \in DOMAIN s /\ q[l] = s[l + 1]
      <4>1. k + 1 = l + 1
        BY <2>1, <3>1 DEF Once
      <4>2. QED
        BY <1>9, <4>1
    <3>2. CASE l - m \in 1 .. n /\ q[l] = r[l - m]
      BY <1>9, <2>1, <3>2
    <3>3. QED
      BY <1>10, <3>1, <3>2
  <2>2. CASE k - m \in 1 .. n /\ q[k] = r[k - m]
    <3>1. CASE l \in 1 .. m /\ l + 1 \in DOMAIN s /\ q[l] = s[l + 1]
      BY <1>9, <2>2, <3>1
    <3>2. CASE l - m \in 1 .. n /\ q[l] = r[l - m]
      <4>1. k - m = l - m
        BY <1>9, <2>2, <3>2 DEF Once
      <4>2. QED
        BY <1>9, <4>1
    <3>3. QED
      BY <1>10, <3>1, <3>2
  <2>3. QED
    BY <1>10, <2>1, <2>2
<1>15. QED
  BY <1>2, <1>11, <1>12, <1>13, <1>14 DEF PassedOn

LEMMA OpenCounted ==
  ASSUME plan \in Plans, NEW name
  PROVE  /\ IsFiniteSet(Open(name)) /\ Cardinality(Open(name)) \in Nat
         /\ Cardinality(Open(name)) = 0 <=> Open(name) = {}
<1>1. IsFiniteSet(Open(name))
  BY EdgesFinite, FS_Subset DEF Open
<1>2. QED
  BY <1>1, FS_CardinalityType, FS_EmptySet

LEMMA GraphStarts == GraphInit => GraphInv
<1> SUFFICES ASSUME GraphInit PROVE GraphInv
  OBVIOUS
<1>1. PICK S : /\ S = {i \in DOMAIN plan : FirstOfName(i) /\ indegree[plan[i].name] = 0}
               /\ queue = NamesInOrder(S)
  BY DEF GraphInit
<1>2. plan \in Plans /\ ordered = <<>> /\ Taken = {}
  <2>1. plan \in Plans /\ ordered = <<>>
    BY DEF GraphInit
  <2>2. DOMAIN ordered = {}
    BY <2>1
  <2>3. QED
    BY <2>1, <2>2 DEF Taken
<1>3. \A name : Open(name) = Edges(name)
  BY <1>2 DEF Open
<1>4. indegree = [name \in NamesOf(plan) |-> Cardinality(Open(name))]
  BY <1>3 DEF GraphInit
<1>5. \A name \in NamesOf(plan) : indegree[name] = 0 <=> Open(name) = {}
  BY <1>2, <1>4, OpenCounted
<1>6. S \in SUBSET DOMAIN plan
  BY <1>1
<1>7. \A i, j \in S : plan[i].name = plan[j].name => i = j
  <2> SUFFICES ASSUME NEW i \in S, NEW j \in S, plan[i].name = plan[j].name, i < j PROVE FALSE
    BY <1>2, <1>6, PlanIsASequence
  <2>1. FirstOfName(j) /\ i \in 1 .. j - 1
    BY <1>1, <1>2, <1>6, PlanIsASequence
  <2>2. QED
    BY <2>1 DEF FirstOfName
<1>8. /\ queue \in Seq(NamesOf(plan)) /\ Once(queue)
      /\ \A k \in DOMAIN queue : \E i \in S : queue[k] = plan[i].name
      /\ \A i \in S : \E k \in DOMAIN queue : queue[k] = plan[i].name
  BY ZenonT(30), <1>1, <1>2, <1>6, <1>7, InOrderLists
<1>9. ASSUME NEW name \in NamesOf(plan)
      PROVE  Open(name) = {} <=> name \in Taken \cup Waiting
  <2>1. ASSUME name \in Waiting PROVE Open(name) = {}
    <3>1. PICK k \in DOMAIN queue : queue[k] = name
      BY <2>1 DEF Waiting
    <3>2. PICK i \in S : name = plan[i].name
      BY <1>8, <3>1
    <3>3. indegree[name] = 0
      BY <1>1, <3>2
    <3>4. QED
      BY <1>5, <3>3
  <2>2. ASSUME Open(name) = {} PROVE name \in Waiting
    <3>1. PICK N : N = {i \in DOMAIN plan : plan[i].name = name}
      OBVIOUS
    <3>2. N \in SUBSET Nat /\ N # {}
      BY <1>2, <3>1, PlanIsASequence DEF NamesOf
    <3>3. PICK i \in N : \A j \in N : i <= j
      BY <3>2, LeastNatural
    <3>4. i \in DOMAIN plan /\ plan[i].name = name
      BY <3>1
    <3>5. FirstOfName(i)
      <4> SUFFICES ASSUME NEW j \in 1 .. i - 1, plan[j].name = name PROVE FALSE
        BY <3>4 DEF FirstOfName
      <4>1. i \in 1 .. Len(plan) /\ Len(plan) \in Nat /\ DOMAIN plan = 1 .. Len(plan)
        BY <1>2, <3>4, PlanIsASequence
      <4>2. j \in DOMAIN plan /\ ~(i <= j)
        BY <4>1
      <4>3. QED
        BY <3>1, <3>3, <4>2
    <3>6. i \in S
      BY <1>1, <1>5, <2>2, <3>4, <3>5
    <3>7. QED
      BY <1>8, <3>4, <3>6 DEF Waiting
  <2>3. QED
    BY <1>2, <2>1, <2>2
<1>10. /\ ordered \in Seq(NamesOf(plan)) /\ Once(ordered) /\ Taken \cap Waiting = {}
       /\ DOMAIN ordered = {}
  BY <1>2 DEF Once
<1>11. /\ error \in {NoError, "Unknown dependency"}
       /\ UnknownNames # {} <=> error = "Unknown dependency"
       /\ error # CycleError
  BY GraphAssumption DEF GraphInit, CycleError
<1>12. QED
  BY <1>2, <1>4, <1>8, <1>9, <1>10, <1>11 DEF GraphInv

\* What a step adds to the queue: of the names that wait for the target and for
\* nothing else any more, the last task.
FreedTask(i, target, degrees) ==
    LET waits(j) == \E k \in DOMAIN plan[j].dependencies : plan[j].dependencies[k] = target
    IN  /\ i \in DOMAIN plan /\ waits(i)
        /\ \A j \in i + 1 .. Len(plan) : plan[j].name = plan[i].name => ~waits(j)
        /\ Released(degrees, plan[i].name)

LEMMA WaitsByAnEdge ==
  ASSUME NEW name, NEW target
  PROVE  EdgesTo(name, target) # {} <=>
            \E i \in DOMAIN plan : /\ plan[i].name = name
                                   /\ \E k \in DOMAIN plan[i].dependencies :
                                         plan[i].dependencies[k] = target
<1>1. ASSUME NEW e \in EdgesTo(name, target)
      PROVE  \E i \in DOMAIN plan : /\ plan[i].name = name
                                    /\ \E k \in DOMAIN plan[i].dependencies :
                                          plan[i].dependencies[k] = target
  <2>1. e \in Edges(name) /\ Target(e) = target
    BY DEF EdgesTo
  <2>2. PICK i \in DOMAIN plan : plan[i].name = name /\ \E k \in DOMAIN plan[i].dependencies : e = <<i, k>>
    BY <2>1, EdgeIsADependency
  <2>3. PICK k \in DOMAIN plan[i].dependencies : e = <<i, k>>
    BY <2>2
  <2>4. e[1] = i /\ e[2] = k
    BY <2>3
  <2>5. plan[i].dependencies[k] = target
    BY <2>1, <2>4 DEF Target
  <2>6. QED
    BY <2>2, <2>5
<1>2. ASSUME NEW i \in DOMAIN plan, plan[i].name = name,
             NEW k \in DOMAIN plan[i].dependencies, plan[i].dependencies[k] = target
      PROVE  EdgesTo(name, target) # {}
  <2>1. PICK e : e = <<i, k>>
    OBVIOUS
  <2>2. e \in Edges(name)
    BY <1>2, <2>1, EdgeIsADependency
  <2>3. e[1] = i /\ e[2] = k
    BY <2>1
  <2>4. Target(e) = target
    BY <1>2, <2>3 DEF Target
  <2>5. QED
    BY <2>2, <2>4 DEF EdgesTo
<1>3. QED
  BY <1>1, <1>2

LEMMA TakeTaskKeeps ==
  ASSUME GraphInv, TakeTask
  PROVE  GraphInv'
<1>1. PICK t : t = Head(queue)
  OBVIOUS
<1>2. PICK degrees : degrees = [n \in DOMAIN indegree |-> indegree[n] - Cardinality(EdgesTo(n, t))]
  OBVIOUS
<1>3. PICK S : S = {i \in DOMAIN plan : FreedTask(i, t, degrees)}
  OBVIOUS
<1>4. /\ error = NoError /\ queue # <<>>
      /\ indegree' = degrees
      /\ queue' = Tail(queue) \o NamesInOrder(S)
      /\ ordered' = Append(ordered, t)
      /\ plan' = plan /\ error' = error
  BY <1>1, <1>2, <1>3 DEF TakeTask, FreedTask
<1>5. /\ plan \in Plans /\ ordered \in Seq(NamesOf(plan)) /\ queue \in Seq(NamesOf(plan))
      /\ indegree = [name \in NamesOf(plan) |-> Cardinality(Open(name))]
      /\ Once(ordered) /\ Once(queue) /\ Taken \cap Waiting = {}
      /\ \A name \in NamesOf(plan) : Open(name) = {} <=> name \in Taken \cup Waiting
      /\ \A j \in DOMAIN ordered : \A e \in Edges(ordered[j]) :
            \E k \in 1 .. j - 1 : ordered[k] = Target(e)
  BY DEF GraphInv
<1>6. /\ \A name : Edges(name)' = Edges(name)
      /\ \A e : Target(e)' = Target(e)
      /\ NamesOf(plan)' = NamesOf(plan)
      /\ UnknownNames' = UnknownNames
  BY <1>4 DEF Edges, Target, NamesOf, UnknownNames
<1>7. /\ t = queue[1] /\ 1 \in DOMAIN queue /\ t \in NamesOf(plan)
      /\ t \in Waiting /\ t \notin Taken /\ Open(t) = {}
  <2>1. t = queue[1] /\ 1 \in DOMAIN queue /\ t \in NamesOf(plan)
    BY <1>1, <1>4, <1>5
  <2>2. t \in Waiting
    BY <2>1 DEF Waiting
  <2>3. QED
    BY <1>5, <2>1, <2>2
<1>8. PICK m \in Nat : m = Len(ordered) /\ DOMAIN ordered = 1 .. m
  BY <1>5
<1>9. /\ ordered' \in Seq(NamesOf(plan)) /\ DOMAIN ordered' = 1 .. m + 1
      /\ \A k \in 1 .. m : ordered'[k] = ordered[k]
      /\ ordered'[m + 1] = t
  BY <1>4, <1>5, <1>7, <1>8
<1>10. Taken' = Taken \cup {t}
  <2>1. ASSUME NEW x \in Taken PROVE x \in Taken'
    <3>1. PICK k \in 1 .. m : x = ordered[k]
      BY <1>8 DEF Taken
    <3>2. k \in 1 .. m + 1 /\ x = ordered'[k]
      BY <1>9, <3>1
    <3>3. QED
      BY <1>9, <3>2 DEF Taken
  <2>2. t \in Taken'
    <3>1. m + 1 \in 1 .. m + 1
      OBVIOUS
    <3>2. QED
      BY <1>9, <3>1 DEF Taken
  <2>3. ASSUME NEW x \in Taken' PROVE x \in Taken \cup {t}
    <3>1. PICK k \in 1 .. m + 1 : x = ordered'[k]
      BY <1>9 DEF Taken
    <3>2. CASE k = m + 1
      BY <1>9, <3>1, <3>2
    <3>3. CASE k # m + 1
      <4>1. k \in 1 .. m
        BY <3>3
      <4>2. QED
        BY <1>8, <1>9, <3>1, <4>1 DEF Taken
    <3>4. QED
      BY <3>2, <3>3
  <2>4. QED
    BY <2>1, <2>2, <2>3
<1>11. Once(ordered)'
  <2> SUFFICES ASSUME NEW i \in 1 .. m + 1, NEW j \in 1 .. m + 1, ordered'[i] = ordered'[j]
               PROVE  i = j
    BY <1>9 DEF Once
  <2>1. \A k \in 1 .. m + 1 : k = m + 1 \/ k \in 1 .. m
    OBVIOUS
  <2>2. \A k \in 1 .. m : ordered'[k] = ordered[k] /\ ordered[k] # t
    BY <1>7, <1>8, <1>9 DEF Taken
  <2>3. CASE i \in 1 .. m /\ j \in 1 .. m
    BY <1>5, <1>8, <2>2, <2>3 DEF Once
  <2>4. CASE i = m + 1 \/ j = m + 1
    BY <1>9, <2>1, <2>2, <2>4
  <2>5. QED
    BY <2>1, <2>3, <2>4
<1>12. \A name : EdgesTo(name, t) \subseteq Open(name) /\ Open(name)' = Open(name) \ EdgesTo(name, t)
  BY <1>6, <1>7, <1>10 DEF Open, EdgesTo
<1>13. ASSUME NEW name \in NamesOf(plan)
       PROVE  /\ degrees[name] = Cardinality(Open(name)')
              /\ degrees[name] = 0 <=> Open(name)' = {}
  <2>1. IsFiniteSet(Open(name)) /\ IsFiniteSet(EdgesTo(name, t))
    BY <1>5, <1>12, OpenCounted, FS_Subset
  <2>2. PICK A : A = Open(name)
    OBVIOUS
  <2>3. PICK B : B = EdgesTo(name, t)
    OBVIOUS
  <2>4. IsFiniteSet(A \ B) /\ Cardinality(A \ B) = Cardinality(A) - Cardinality(A \cap B) /\ A \cap B = B
    BY <1>12, <2>1, <2>2, <2>3, FS_Difference
  <2>5. Cardinality(A \ B) = Cardinality(A) - Cardinality(B)
    BY <2>4
  <2>6. degrees[name] = Cardinality(A) - Cardinality(B)
    BY <1>2, <1>5, <2>2, <2>3
  <2>7. Cardinality(A \ B) = 0 <=> A \ B = {}
    BY <2>4, FS_EmptySet
  <2>8. QED
    BY <1>12, <2>2, <2>3, <2>5, <2>6, <2>7
<1>14. S \in SUBSET DOMAIN plan /\ \A i \in S : FreedTask(i, t, degrees)
  BY <1>3
<1>15. ASSUME NEW i \in S, NEW name, name = plan[i].name
       PROVE  /\ name \in NamesOf(plan)
              /\ Open(name)' = {} /\ name \notin Taken \cup Waiting
  <2>1. i \in DOMAIN plan /\ name \in NamesOf(plan)
    BY <1>14, <1>15 DEF NamesOf
  <2>2. degrees[name] = 0
    BY <1>14, <1>15 DEF FreedTask, Released
  <2>3. EdgesTo(name, t) # {}
    BY <1>14, <1>15, WaitsByAnEdge DEF FreedTask
  <2>4. Open(name) # {}
    BY <1>12, <2>3
  <2>5. QED
    BY <1>5, <1>13, <2>1, <2>2, <2>4
<1>16. \A i, j \in S : plan[i].name = plan[j].name => i = j
  <2> SUFFICES ASSUME NEW i \in S, NEW j \in S, plan[i].name = plan[j].name, i < j PROVE FALSE
    BY <1>5, <1>14, PlanIsASequence
  <2>1. j \in i + 1 .. Len(plan)
    BY <1>5, <1>14, PlanIsASequence
  <2>2. QED
    BY <1>14, <2>1 DEF FreedTask
<1>17. ASSUME NEW name \in NamesOf(plan), Open(name)' = {}, Open(name) # {}
       PROVE  \E i \in S : plan[i].name = name
  <2> DEFINE waits(i) == \E k \in DOMAIN plan[i].dependencies : plan[i].dependencies[k] = t
  <2>1. EdgesTo(name, t) # {}
    BY <1>12, <1>17
  <2>2. PICK N : N = {i \in DOMAIN plan : plan[i].name = name /\ waits(i)}
    OBVIOUS
  <2>3. N # {}
    BY <2>1, <2>2, WaitsByAnEdge
  <2>4. N \in SUBSET Nat /\ Len(plan) \in Nat /\ DOMAIN plan = 1 .. Len(plan) /\ \A n \in N : n <= Len(plan)
    BY <1>5, <2>2, PlanIsASequence
  <2>5. PICK i \in N : \A j \in N : j <= i
    BY <2>3, <2>4, GreatestNatural
  <2>6. i \in DOMAIN plan /\ plan[i].name = name /\ waits(i)
    BY <2>2
  <2>7. ASSUME NEW j \in i + 1 .. Len(plan), plan[j].name = plan[i].name PROVE ~waits(j)
    <3>1. j \in DOMAIN plan /\ ~(j <= i)
      BY <2>4, <2>6
    <3>2. j \notin N
      BY <2>5, <3>1
    <3>3. QED
      BY <2>2, <2>6, <2>7, <3>1, <3>2
  <2>8. degrees[name] = 0
    BY <1>13, <1>17
  <2>9. FreedTask(i, t, degrees)
    BY <2>6, <2>7, <2>8 DEF FreedTask, Released
  <2>10. QED
    BY <1>3, <2>6, <2>9
<1>18. PICK r : r = NamesInOrder(S)
  OBVIOUS
<1>19. /\ r \in Seq(NamesOf(plan)) /\ Once(r)
       /\ \A k \in DOMAIN r : \E i \in S : r[k] = plan[i].name
       /\ \A i \in S : \E k \in DOMAIN r : r[k] = plan[i].name
  <2>1. plan \in Plans
    BY <1>5
  <2>2. S \in SUBSET DOMAIN plan
    BY <1>14
  <2>3. QED
    BY <1>16, <1>18, <2>1, <2>2, InOrderLists
<1>20. \A i \in DOMAIN queue, j \in DOMAIN r : queue[i] # r[j]
  <2> SUFFICES ASSUME NEW i \in DOMAIN queue, NEW j \in DOMAIN r, queue[i] = r[j] PROVE FALSE
    OBVIOUS
  <2>1. queue[i] \in Waiting
    BY DEF Waiting
  <2>2. QED
    BY <1>15, <1>19, <2>1
<1>21. queue' = Tail(queue) \o r
  BY <1>4, <1>18
<1>22. /\ queue' \in Seq(NamesOf(plan)) /\ Once(queue')
       /\ \A k \in DOMAIN queue' :
             (\E i \in DOMAIN queue : i # 1 /\ queue[i] = queue'[k]) \/ \E i \in DOMAIN r : r[i] = queue'[k]
       /\ \A i \in DOMAIN queue : i = 1 \/ \E k \in DOMAIN queue' : queue'[k] = queue[i]
       /\ \A i \in DOMAIN r : \E k \in DOMAIN queue' : queue'[k] = r[i]
  <2>1. PICK T : T = NamesOf(plan)
    OBVIOUS
  <2>2. PICK s : s = queue
    OBVIOUS
  <2>3. PICK q : q = queue'
    OBVIOUS
  <2>4. s \in Seq(T) /\ s # <<>> /\ Once(s)
    BY <1>4, <1>5, <2>1, <2>2
  <2>5. r \in Seq(T) /\ Once(r)
    BY <1>19, <2>1
  <2>6. q = Tail(s) \o r
    BY <1>21, <2>2, <2>3
  <2>7. \A i \in DOMAIN s, j \in DOMAIN r : s[i] # r[j]
    BY <1>20, <2>2
  <2>8. q \in Seq(T) /\ Once(q) /\ PassedOn(s, r, q)
    BY <2>4, <2>5, <2>6, <2>7, ListPassesOn
  <2>9. QED
    BY <2>1, <2>2, <2>3, <2>8 DEF PassedOn
<1>23. \A x : x \in Waiting' <=> (x \in Waiting /\ x # t) \/ \E i \in S : x = plan[i].name
  <2>1. ASSUME NEW x \in Waiting' PROVE (x \in Waiting /\ x # t) \/ \E i \in S : x = plan[i].name
    <3>1. PICK k \in DOMAIN queue' : x = queue'[k]
      BY DEF Waiting
    <3>2. CASE \E i \in DOMAIN queue : i # 1 /\ queue[i] = queue'[k]
      <4>1. PICK i \in DOMAIN queue : i # 1 /\ queue[i] = x
        BY <3>1, <3>2
      <4>2. x \in Waiting /\ x # t
        BY <1>5, <1>7, <4>1 DEF Waiting, Once
      <4>3. QED
        BY <4>2
    <3>3. CASE \E i \in DOMAIN r : r[i] = queue'[k]
      BY <1>19, <3>1, <3>3
    <3>4. QED
      BY <1>22, <3>2, <3>3
  <2>2. ASSUME NEW x \in Waiting, x # t PROVE x \in Waiting'
    <3>1. PICK i \in DOMAIN queue : x = queue[i]
      BY DEF Waiting
    <3>2. PICK k \in DOMAIN queue' : queue'[k] = queue[i]
      BY <1>7, <1>22, <2>2, <3>1
    <3>3. QED
      BY <3>1, <3>2 DEF Waiting
  <2>3. ASSUME NEW i \in S PROVE plan[i].name \in Waiting'
    BY <1>19, <1>22 DEF Waiting
  <2>4. QED
    BY <2>1, <2>2, <2>3
<1>24. Taken' \cap Waiting' = {}
  <2> SUFFICES ASSUME NEW x \in Taken', x \in Waiting' PROVE FALSE
    OBVIOUS
  <2>1. x \in Taken \/ x = t
    BY <1>10
  <2>2. CASE x \in Waiting /\ x # t
    BY <1>5, <2>1, <2>2
  <2>3. CASE \E i \in S : x = plan[i].name
    BY <1>7, <1>15, <2>1, <2>3
  <2>4. QED
    BY <1>23, <2>2, <2>3
<1>25. ASSUME NEW name \in NamesOf(plan)
       PROVE  Open(name)' = {} <=> name \in Taken' \cup Waiting'
  <2>1. Open(name) = {} => Open(name)' = {}
    BY <1>12
  <2>2. ASSUME name \in Taken' \cup Waiting' PROVE Open(name)' = {}
    <3>1. CASE name \in Taken \cup Waiting
      BY <1>5, <2>1, <3>1
    <3>2. CASE \E i \in S : name = plan[i].name
      BY <1>15, <3>2
    <3>3. CASE name \in Taken'
      BY <1>7, <1>10, <3>1, <3>3
    <3>4. CASE name \in Waiting'
      BY <1>23, <3>1, <3>2, <3>4
    <3>5. QED
      BY <2>2, <3>3, <3>4
  <2>3. ASSUME Open(name)' = {} PROVE name \in Taken' \cup Waiting'
    <3>1. CASE Open(name) = {}
      BY <1>5, <1>10, <1>23, <3>1
    <3>2. CASE Open(name) # {}
      BY <1>17, <1>23, <2>3, <3>2
    <3>3. QED
      BY <3>1, <3>2
  <2>4. QED
    BY <2>2, <2>3
<1>26. ASSUME NEW j \in DOMAIN ordered', NEW e \in Edges(ordered'[j])
       PROVE  \E k \in 1 .. j - 1 : ordered'[k] = Target(e)
  <2>1. CASE j = m + 1
    <3>1. e \in Edges(t)
      BY <1>9, <1>26, <2>1
    <3>2. Target(e) \in Taken
      BY <1>7, <3>1 DEF Open
    <3>3. PICK k \in 1 .. m : ordered[k] = Target(e)
      BY <1>8, <3>2 DEF Taken
    <3>4. ordered'[k] = Target(e) /\ k \in 1 .. j - 1
      BY <1>9, <2>1, <3>3
    <3>5. QED
      BY <3>4
  <2>2. CASE j # m + 1
    <3>1. j \in 1 .. m /\ ordered'[j] = ordered[j]
      BY <1>9, <2>2
    <3>2. PICK k \in 1 .. j - 1 : ordered[k] = Target(e)
      BY <1>5, <1>8, <1>26, <3>1
    <3>3. k \in 1 .. m
      BY <3>1, <3>2
    <3>4. QED
      BY <1>9, <3>2, <3>3
  <2>3. QED
    BY <2>1, <2>2
<1>27. indegree' = [name \in NamesOf(plan) |-> Cardinality(Open(name)')]
  <2>1. degrees = [name \in NamesOf(plan) |-> degrees[name]]
    BY <1>2, <1>5
  <2>2. QED
    BY <1>4, <1>13, <2>1
<1>28. /\ error' = NoError /\ error' # CycleError
       /\ UnknownNames' # {} <=> error' = "Unknown dependency"
  BY <1>4, <1>6, GraphAssumption DEF GraphInv, CycleError
<1>29. (\A name \in NamesOf(plan) : Open(name) = {} <=> name \in Taken \cup Waiting)'
  BY <1>6, <1>25
<1>30. (\A j \in DOMAIN ordered : \A e \in Edges(ordered[j]) :
            \E k \in 1 .. j - 1 : ordered[k] = Target(e))'
  BY <1>6, <1>26
<1>31. (indegree = [name \in NamesOf(plan) |-> Cardinality(Open(name))])'
  BY <1>6, <1>27
<1>32. /\ plan' \in Plans
       /\ ordered' \in Seq(NamesOf(plan)') /\ queue' \in Seq(NamesOf(plan)')
       /\ Once(queue)'
  BY <1>4, <1>5, <1>6, <1>9, <1>22 DEF Once
<1>33. QED
  BY <1>11, <1>24, <1>28, <1>29, <1>30, <1>31, <1>32 DEF GraphInv

LEMMA FindCycleKeeps ==
  ASSUME GraphInv, FindCycle
  PROVE  GraphInv'
<1>1. /\ plan' = plan /\ indegree' = indegree /\ queue' = queue /\ ordered' = ordered
      /\ error = NoError /\ error' = CycleError /\ queue = <<>> /\ Len(ordered) # Len(plan)
  BY DEF FindCycle, CycleError
<1>2. UnknownNames = {} /\ UnknownNames' = UnknownNames
  <2>1. error # "Unknown dependency"
    BY <1>1, GraphAssumption
  <2>2. UnknownNames = {}
    BY <2>1 DEF GraphInv
  <2>3. UnknownNames' = UnknownNames
    BY <1>1 DEF UnknownNames, NamesOf
  <2>4. QED
    BY <2>2, <2>3
<1>3. error' # "Unknown dependency"
  BY <1>1 DEF CycleError
<1>4. /\ \A name : Edges(name)' = Edges(name) /\ Open(name)' = Open(name)
      /\ \A e : Target(e)' = Target(e)
      /\ NamesOf(plan)' = NamesOf(plan) /\ Taken' = Taken /\ Waiting' = Waiting
  BY <1>1 DEF Edges, Open, Target, NamesOf, Taken, Waiting
<1>5. QED
  BY ZenonT(30), <1>1, <1>2, <1>3, <1>4 DEF GraphInv, Once

THEOREM GraphInvariance == GraphSpec => []GraphInv
<1>1. GraphInv /\ [GraphNext]_graphVars => GraphInv'
  <2> SUFFICES ASSUME GraphInv, [GraphNext]_graphVars PROVE GraphInv'
    OBVIOUS
  <2>1. CASE TakeTask
    BY <2>1, TakeTaskKeeps
  <2>2. CASE FindCycle
    BY <2>2, FindCycleKeeps
  <2>3. CASE UNCHANGED graphVars
    <3>1. /\ plan' = plan /\ indegree' = indegree /\ queue' = queue /\ ordered' = ordered
          /\ error' = error
      BY <2>3 DEF graphVars
    <3>2. /\ \A name : Edges(name)' = Edges(name) /\ Open(name)' = Open(name)
          /\ \A e : Target(e)' = Target(e) /\ UnknownNames' = UnknownNames
          /\ NamesOf(plan)' = NamesOf(plan) /\ Taken' = Taken /\ Waiting' = Waiting
      BY <3>1 DEF Edges, Open, Target, UnknownNames, NamesOf, Taken, Waiting
    <3>3. QED
      BY <3>1, <3>2 DEF GraphInv, Once
  <2>4. QED
    BY <2>1, <2>2, <2>3 DEF GraphNext
<1>2. QED
  BY <1>1, GraphStarts, PTL DEF GraphSpec

\* As many different names as there are tasks are all the names of the plan.
LEMMA WholePlan ==
  ASSUME plan \in Plans, NEW f \in Seq(NamesOf(plan)), Once(f), Len(f) = Len(plan)
  PROVE  /\ f \in [DOMAIN plan -> NamesOf(plan)]
         /\ \A name \in NamesOf(plan) : \E k \in DOMAIN f : f[k] = name
<1> DEFINE names == [i \in DOMAIN plan |-> plan[i].name]
<1>1. PICK n \in Nat : n = Len(plan) /\ DOMAIN plan = 1 .. n
  BY PlanIsASequence
<1>2. f \in [1 .. n -> NamesOf(plan)] /\ DOMAIN f = 1 .. n
  BY <1>1
<1>3. names \in Surjection(1 .. n, NamesOf(plan))
  BY <1>1, Fun_IsSurj DEF NamesOf
<1>4. IsFiniteSet(1 .. n) /\ Cardinality(1 .. n) = n
  BY FS_Interval
<1> HIDE DEF names
<1>5. IsFiniteSet(NamesOf(plan)) /\ Cardinality(NamesOf(plan)) <= n
  BY <1>3, <1>4, FS_Surjection
<1>6. f \in Injection(1 .. n, NamesOf(plan))
  BY <1>2, Fun_IsInj DEF Once
<1>7. n <= Cardinality(NamesOf(plan))
  BY <1>4, <1>5, <1>6, FS_Injection
<1>8. Cardinality(NamesOf(plan)) = n
  BY <1>1, <1>5, <1>7, FS_CardinalityType
<1>9. f \in Surjection(1 .. n, NamesOf(plan))
  BY <1>4, <1>5, <1>6, <1>8, FS_Injection
<1>10. \A name \in NamesOf(plan) : \E k \in 1 .. n : f[k] = name
  BY <1>9, Fun_SurjectionProperties
<1>11. QED
  BY <1>1, <1>2, <1>10

\* A plan that can be put in order has a task that is next, as long as some were not
\* taken: the first of those in that order.
LEMMA SomethingIsNext ==
  ASSUME GraphInv, UnknownNames = {}, queue = <<>>,
         NEW f \in [DOMAIN plan -> NamesOf(plan)], Range(f) = NamesOf(plan), IsInjective(f),
         Follows(f)
  PROVE  Len(ordered) = Len(plan)
<1>1. /\ plan \in Plans /\ ordered \in Seq(NamesOf(plan)) /\ Once(ordered) /\ Waiting = {}
      /\ \A name \in NamesOf(plan) : Open(name) = {} => name \in Taken
  <2>1. DOMAIN queue = {}
    OBVIOUS
  <2>2. Waiting = {}
    BY <2>1 DEF Waiting
  <2>3. QED
    BY <2>2 DEF GraphInv
<1>2. PICK n \in Nat : n = Len(plan) /\ DOMAIN plan = 1 .. n
  BY <1>1, PlanIsASequence
<1>3. PICK m \in Nat : m = Len(ordered) /\ DOMAIN ordered = 1 .. m
  BY <1>1
<1>4. NamesOf(plan) \subseteq Taken
  <2> SUFFICES ASSUME NEW left \in NamesOf(plan), left \notin Taken PROVE FALSE
    OBVIOUS
  <2>1. PICK B : B = {j \in 1 .. n : f[j] \notin Taken}
    OBVIOUS
  <2>2. \E j \in 1 .. n : f[j] = left
    BY <1>2 DEF Range
  <2>3. B \in SUBSET Nat /\ B # {}
    BY <2>1, <2>2
  <2>4. PICK j \in B : \A k \in B : j <= k
    BY <2>3, LeastNatural
  <2>5. j \in 1 .. n /\ f[j] \in NamesOf(plan) /\ f[j] \notin Taken
    BY <1>2, <2>1
  <2>6. PICK e \in Edges(f[j]) : Target(e) \notin Taken
    BY <1>1, <2>5 DEF Open
  <2>7. PICK i \in DOMAIN plan : plan[i].name = f[j] /\ \E k \in DOMAIN plan[i].dependencies : e = <<i, k>>
    BY EdgeIsADependency
  <2>8. PICK k \in DOMAIN plan[i].dependencies : e = <<i, k>>
    BY <2>7
  <2>9. PICK d : d = plan[i].dependencies[k]
    OBVIOUS
  <2>10. d = Target(e) /\ d \in Range(plan[i].dependencies)
    <3>1. e[1] = i /\ e[2] = k
      BY <2>8
    <3>2. QED
      BY <2>9, <3>1 DEF Target, Range
  <2>11. d \in NamesOf(plan)
    BY <2>10 DEF UnknownNames
  <2>12. PICK l \in 1 .. n : f[l] = d
    BY <1>2, <2>11 DEF Range
  <2>13. l < j
    BY <1>2, <2>5, <2>7, <2>10, <2>12 DEF Follows
  <2>14. l \in B
    BY <2>1, <2>6, <2>10, <2>12
  <2>15. QED
    BY <2>4, <2>5, <2>13, <2>14
<1>5. IsFiniteSet(1 .. n) /\ Cardinality(1 .. n) = n /\ IsFiniteSet(1 .. m) /\ Cardinality(1 .. m) = m
  BY FS_Interval
<1>6. f \in Bijection(1 .. n, NamesOf(plan))
  <2>1. f \in [1 .. n -> NamesOf(plan)] /\ \A a, b \in 1 .. n : f[a] = f[b] => a = b
    BY <1>2 DEF IsInjective
  <2>2. \A name \in NamesOf(plan) : \E a \in 1 .. n : f[a] = name
    BY <1>2 DEF Range
  <2>3. QED
    BY <2>1, <2>2, Fun_IsBij
<1>7. ordered \in Bijection(1 .. m, NamesOf(plan))
  <2>1. ordered \in [1 .. m -> NamesOf(plan)] /\ \A a, b \in 1 .. m : ordered[a] = ordered[b] => a = b
    BY <1>1, <1>3 DEF Once
  <2>2. \A name \in NamesOf(plan) : \E a \in 1 .. m : ordered[a] = name
    BY <1>3, <1>4 DEF Taken
  <2>3. QED
    BY <2>1, <2>2, Fun_IsBij
<1>8. Cardinality(NamesOf(plan)) = n /\ Cardinality(NamesOf(plan)) = m
  BY <1>5, <1>6, <1>7, FS_Bijection DEF ExistsBijection
<1>9. QED
  BY <1>2, <1>3, <1>8

\* Planning gives an order in which each task follows all it depends on, every task
\* once (TaskGraph.resolve), and refuses exactly the plans that have none, for plans
\* of any length and any names.
THEOREM PlansAreOrderedOrRefused == GraphSpec => []OrdersOrRefuses
<1>1. GraphInv => OrdersOrRefuses
  <2> SUFFICES ASSUME GraphInv, queue = <<>>, error # NoError \/ Len(ordered) = Len(plan)
               PROVE  IF error = NoError
                      THEN /\ ordered \in {f \in [DOMAIN plan -> NamesOf(plan)] :
                                              Range(f) = NamesOf(plan) /\ IsInjective(f)}
                           /\ Follows(ordered)
                      ELSE \/ UnknownNames # {}
                           \/ ~\E f \in {f \in [DOMAIN plan -> NamesOf(plan)] :
                                            Range(f) = NamesOf(plan) /\ IsInjective(f)} : Follows(f)
    BY DEF OrdersOrRefuses
  <2>1. CASE error = NoError
    <3>1. /\ plan \in Plans /\ ordered \in Seq(NamesOf(plan)) /\ Once(ordered)
          /\ Len(ordered) = Len(plan)
          /\ \A j \in DOMAIN ordered : \A e \in Edges(ordered[j]) :
                \E k \in 1 .. j - 1 : ordered[k] = Target(e)
      BY <2>1 DEF GraphInv
    <3>2. /\ ordered \in [DOMAIN plan -> NamesOf(plan)]
          /\ \A name \in NamesOf(plan) : \E k \in DOMAIN ordered : ordered[k] = name
      BY <3>1, WholePlan
    <3>3. Range(ordered) = NamesOf(plan)
      BY <3>2 DEF Range
    <3>4. IsInjective(ordered)
      BY <3>1 DEF Once, IsInjective
    <3>5. Follows(ordered)
      <4> SUFFICES ASSUME NEW i \in DOMAIN plan, NEW j \in DOMAIN ordered, NEW k \in DOMAIN ordered,
                          ordered[j] = plan[i].name, ordered[k] \in Range(plan[i].dependencies)
                   PROVE  k < j
        BY DEF Follows
      <4>1. PICK l \in DOMAIN plan[i].dependencies : ordered[k] = plan[i].dependencies[l]
        BY DEF Range
      <4>2. PICK e : e = <<i, l>>
        OBVIOUS
      <4>3. e \in Edges(ordered[j]) /\ e[1] = i /\ e[2] = l
        BY <4>2, EdgeIsADependency
      <4>4. Target(e) = ordered[k]
        BY <4>1, <4>3 DEF Target
      <4>5. PICK a \in 1 .. j - 1 : ordered[a] = ordered[k]
        BY <3>1, <4>3, <4>4
      <4>6. a \in DOMAIN ordered /\ a < j
        BY <3>1
      <4>7. QED
        BY <3>1, <4>5, <4>6 DEF Once
    <3>6. QED
      BY <2>1, <3>2, <3>3, <3>4, <3>5
  <2>2. CASE error # NoError
    <3>1. CASE UnknownNames # {}
      BY <2>2, <3>1
    <3>2. CASE UnknownNames = {}
      <4>1. Len(ordered) # Len(plan)
        BY <2>2, <3>2 DEF GraphInv
      <4>2. ASSUME NEW f \in [DOMAIN plan -> NamesOf(plan)], Range(f) = NamesOf(plan), IsInjective(f),
                   Follows(f)
            PROVE  FALSE
        BY <3>2, <4>1, <4>2, SomethingIsNext
      <4>3. QED
        BY <2>2, <4>2
    <3>3. QED
      BY <3>1, <3>2
  <2>3. QED
    BY <2>1, <2>2
<1>2. QED
  BY <1>1, GraphInvariance, PTL
=============================================================================
