------------------------------- MODULE AgentLoop -------------------------------
(***************************************************************************)
(* What a client does with a prompt (_run_agent, agent_loop, _execute_tool, *)
(* chat_once and run_and_persist_command of scripts/xyntra_host_cli.py):    *)
(* the question is stored, the model is asked up to MaxSteps times, the     *)
(* tools it calls are run, the answer is stored, and a generic answer is    *)
(* asked for once more.  write_file keeps what it replaces for /undo.       *)
(***************************************************************************)
EXTENDS CliContext, FiniteSetsExt

CONSTANTS
    Paths,        \* the files agents write
    MaxSteps,     \* max_steps, 30 in the code
    UndoDepth     \* overwritten files kept for /undo, 5 in the code

ASSUME AgentLoopAssumption == MaxSteps \in Nat \ {0} /\ UndoDepth \in Nat \ {0}

VARIABLES
    disk,      \* the version of each file on disk; 0 is no file
    writers,   \* history: the terminals whose agents tried to write each file
    undo       \* the undo stack of each client

files == <<disk, writers, undo>>
cliVars == <<file, server, term, typed>>
vars == <<cliVars, files>>

AgentInit ==
    /\ disk = [p \in Paths |-> 0]
    /\ writers = [p \in Paths |-> {}]
    /\ undo = [t \in Terminals |-> <<>>]

-------------------------------------------------------------------------------
Asking(r, mode, again) ==
    [step |-> "question", dir |-> r.dir, ctx |-> r.ctx, want |-> r.want,
     mode |-> mode, calls |-> 0, again |-> again, generic |-> FALSE]

\* Back to the prompt, or to the shell for xyntra run.
Done(r) == IF r.mode = "once" THEN Off ELSE Ready(r.dir, r.ctx, r.want)

\* The history is read first, from the session of the context; a session of
\* another project is not found, and the client dies.
RunAgent(t, mode) ==
    /\ term[t].step = "prompt"
    /\ TypedFor(3)
    /\ Whole(term[t].ctx)
    /\ Become(t, Asking(term[t], mode, FALSE))
    /\ UNCHANGED <<file, server, files>>

\* xyntra run
ChatOnce(t) ==
    /\ term[t].step = "once"
    /\ Whole(term[t].ctx)
    /\ Become(t, Asking(term[t], "once", FALSE))
    /\ UNCHANGED <<file, server, typed, files>>

\* save_session_message
Speak(t) == spoken' = spoken \cup {term[t].ctx.session}

SaveQuestion(t) ==
    /\ term[t].step = "question"
    /\ Speak(t)
    /\ Become(t, [term[t] EXCEPT !.step = "think"])
    /\ UNCHANGED <<file, project, owner, typed, files>>

\* /exec, /test and their commands: the command and its output are stored when it
\* has ended.
Exec(t) ==
    /\ \/ AtPrompt(t) /\ UNCHANGED term
       \/ term[t].step = "once" /\ Become(t, Off) /\ UNCHANGED typed
    /\ Whole(term[t].ctx)
    /\ Speak(t)
    /\ UNCHANGED <<file, project, owner, files>>

\* One more step of the loop is used up.
NextStep(r) ==
    IF r.calls + 1 = MaxSteps THEN Done(r) ELSE [r EXCEPT !.calls = @ + 1]

Thinking(t, modes) == term[t].step = "think" /\ term[t].mode \in modes
Agentic == {"read", "write"}

\* _record_undo
RecordUndo(t, p) ==
    undo' = [undo EXCEPT ![t] =
        LET all == Append(@, [path |-> p, version |-> disk[p]])
        IN  IF Len(all) > UndoDepth THEN Tail(all) ELSE all]

BackUp(t, p) == IF disk[p] # 0 THEN RecordUndo(t, p) ELSE UNCHANGED undo

\* Versions are numbered as they come, above all that are still to be had.
Reachable(p) ==
    {disk[p]} \cup UNION {{undo[t][i].version : i \in {j \in DOMAIN undo[t] : undo[t][j].path = p}}
                           : t \in Terminals}

\* write_file: what exists is kept first; the write itself may fail.
WriteFile(t, p) ==
    /\ BackUp(t, p)
    /\ writers' = [writers EXCEPT ![p] = @ \cup {t}]
    /\ \/ disk' = [disk EXCEPT ![p] = Max(Reachable(p)) + 1]
       \/ UNCHANGED disk

\* The model calls a tool.  _execute_tool runs the tool that is named, also one
\* that was not offered.
CallTool(t) ==
    /\ Thinking(t, Agentic)
    /\ (\E p \in Paths : WriteFile(t, p)) \/ UNCHANGED files
    /\ Become(t, NextStep(term[t]))
    /\ UNCHANGED <<file, server, typed>>

\* An answer without tools on the first step of a read is sent back.
SendBack(t) ==
    /\ Thinking(t, {"read"})
    /\ term[t].calls = 0
    /\ Become(t, NextStep(term[t]))
    /\ UNCHANGED <<file, server, typed, files>>

\* A refusal, a failing connection, or Ctrl-C, which agent_loop leaves anywhere.
GiveUp(t) ==
    /\ term[t].step \in {"question", "think", "touch", "review"}
    /\ term[t].mode \in Agentic
    /\ Become(t, Done(term[t]))
    /\ UNCHANGED <<file, server, typed, files>>

\* Files the model printed as code blocks are written, and that was all.
WriteOutCode(t) ==
    /\ Thinking(t, Agentic)
    /\ term[t].mode = "write" \/ term[t].calls > 0
    /\ \E p \in Paths : WriteFile(t, p)
    /\ Speak(t)
    /\ Become(t, Done(term[t]))
    /\ UNCHANGED <<file, project, owner, typed>>

\* The answer is shown and stored; on the first step of a read it can only be an
\* empty one, and no phrase makes that generic.
Answer(t, generic) ==
    /\ Thinking(t, Agentic \cup {"once"})
    /\ generic => term[t].mode = "write" \/ (term[t].mode = "read" /\ term[t].calls > 0)
    /\ Speak(t)
    /\ Become(t, [term[t] EXCEPT !.step = "touch", !.generic = generic])
    /\ UNCHANGED <<file, project, owner, typed, files>>

\* The model used is noted in the file, if the directory is still in it.
NoteModel(t) ==
    /\ term[t].step = "touch"
    /\ Loaded
    /\ LET r == term[t]
           next == IF r.generic /\ ~r.again
                   THEN [r EXCEPT !.step = "review"] ELSE Done(r)
       IN  Become(t, IF file[r.dir] # None THEN SaveOther(next) ELSE next)
    /\ UNCHANGED <<file, server, typed, files>>

\* A generic answer is remembered as a lesson and asked for again, once.
Review(t) ==
    /\ term[t].step = "review"
    /\ Loaded
    /\ Become(t, SaveOther(Asking(term[t], term[t].mode, TRUE)))
    /\ UNCHANGED <<file, server, typed, files>>

\* Mutant: the oldest entry is taken.
LastOf_First(s) == <<Head(s), Tail(s)>>

LastOf(s) == <<s[Len(s)], SubSeq(s, 1, Len(s) - 1)>>

\* Not counted as typed: the stack bounds it.
Undo(t) ==
    /\ term[t].step = "prompt"
    /\ undo[t] # <<>>
    /\ LET last == LastOf(undo[t])
       IN  /\ disk' = [disk EXCEPT ![last[1].path] = last[1].version]
           /\ undo' = [undo EXCEPT ![t] = last[2]]
    /\ UNCHANGED <<file, server, term, typed, writers>>

\* The client ends: /exit, an error it does not catch, or a kill, which may come
\* while it writes the file.
Quit(t) ==
    /\ term[t] # Off
    /\ Become(t, Off)
    /\ undo' = [undo EXCEPT ![t] = <<>>]
    /\ file' = file \/ (term[t].step = "save" /\ file' = Torn)
    /\ UNCHANGED <<server, typed, disk, writers>>

AgentNext(t) ==
    \/ \E mode \in Agentic : RunAgent(t, mode)
    \/ ChatOnce(t) \/ Exec(t) \/ SaveQuestion(t) \/ CallTool(t) \/ SendBack(t) \/ GiveUp(t)
    \/ WriteOutCode(t) \/ NoteModel(t) \/ Review(t) \/ Undo(t) \/ Quit(t)
    \/ \E generic \in BOOLEAN : Answer(t, generic)

Init == CliInit /\ AgentInit

Next ==
    \E t \in Terminals :
        \/ CliNext(t) /\ UNCHANGED files
        \/ AgentNext(t)

Spec == Init /\ [][Next]_vars

-------------------------------------------------------------------------------
\* Where the versions of a file that a client can still go back to lie in its stack.
Kept(t, p) == {i \in DOMAIN undo[t] : undo[t][i].path = p}

\* As long as one client alone writes a file, /undo leads back through its
\* versions in order, never forward, whatever was written, failed, or fell off
\* the bounded stack in between.
UndoGoesBack ==
    \A t \in Terminals, p \in Paths :
        writers[p] \subseteq {t} =>
            \A i \in Kept(t, p) :
                /\ undo[t][i].version <= disk[p]
                /\ \A j \in Kept(t, p) : i <= j => undo[t][i].version <= undo[t][j].version

===============================================================================
