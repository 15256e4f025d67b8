-------------------------- MODULE TaskTransitions --------------------------
(***************************************************************************)
(* The transition table of tasks/state_machine.py.                         *)
(***************************************************************************)

TaskStatus == {"pending", "queued", "running", "completed", "failed",
               "cancelled"}

\* TASK_TRANSITIONS: the statuses each status may move to.
TASK_TRANSITIONS ==
    [pending   |-> {"queued", "cancelled"},
     queued    |-> {"running", "cancelled"},
     running   |-> {"completed", "failed", "cancelled"},
     failed    |-> {"queued", "cancelled"},
     completed |-> {},
     cancelled |-> {}]

\* TaskStateMachine.transition returns the target when this holds, and
\* raises InvalidTaskTransitionError otherwise.
CanMove(from, to) == from \in TaskStatus /\ to \in TASK_TRANSITIONS[from]
=============================================================================
