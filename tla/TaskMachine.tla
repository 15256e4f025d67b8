---------------------------- MODULE TaskMachine ----------------------------
(***************************************************************************)
(* What tasks/state_machine.py promises about one task: the legal moves of *)
(* its status column, and that a task is executed by one run at a time.    *)
(* This is the abstract specification that TaskEngine is compared with.    *)
(***************************************************************************)
EXTENDS TaskTransitions

CONSTANT Task

VARIABLES status,   \* [Task -> status column, "absent" before the insert]
          active    \* the tasks that have a run which is queued or running

vars == <<status, active>>

Init == status = [t \in Task |-> "absent"] /\ active = {}

Create(t) ==
    /\ status[t] = "absent"
    /\ status' = [status EXCEPT ![t] = "pending"]
    /\ UNCHANGED active

\* A task is queued only when no earlier run of it is still live.
Queue(t) ==
    /\ CanMove(status[t], "queued")
    /\ t \notin active
    /\ status' = [status EXCEPT ![t] = "queued"]
    /\ active' = active \cup {t}

Start(t) ==
    /\ CanMove(status[t], "running")
    /\ t \in active
    /\ status' = [status EXCEPT ![t] = "running"]
    /\ UNCHANGED active

Finish(t, outcome) ==
    /\ CanMove(status[t], outcome)
    /\ t \in active
    /\ status' = [status EXCEPT ![t] = outcome]
    /\ active' = active \ {t}

Next == \E t \in Task :
    \/ Create(t)
    \/ Queue(t)
    \/ Start(t)
    \/ \E outcome \in {"completed", "failed"} : Finish(t, outcome)

Spec == Init /\ [][Next]_vars
=============================================================================
