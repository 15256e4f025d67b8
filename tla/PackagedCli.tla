------------------------------- MODULE PackagedCli -------------------------------
(***************************************************************************)
(* The packaged client (xyntra_cli.py), which shares the state file with the *)
(* terminals of CliContext.  It asks for its context anew before each        *)
(* prompt, sends the prompt in the mode it was started with, and after the   *)
(* answer stamps that mode on the context the file has by then.              *)
(***************************************************************************)
EXTENDS CliContext

\* What stands for null in the state file is the id of no project.
ASSUME PackagedAssumption == None \notin Nat

VARIABLE stamped   \* history: directories a packaged client with --hosted has stamped

packagedVars == <<file, server, term, typed, stamped>>

PackagedInit == CliInit /\ stamped = {}

\* ensure_cli_context, first half.  shell: it is the interactive client.
Contacting(d, want, shell, next) ==
    [step |-> "contact", dir |-> d, want |-> want, shell |-> shell, copy |-> file, next |-> next]

\* xyntra and xyntra run, with --hosted unless want; the stack is running.
OpenShell(t, d, want, shell) ==
    /\ term[t] = Off
    /\ Typed
    /\ Loaded
    /\ Become(t, Contacting(d, want, shell, IF shell THEN "greet" ELSE "ask"))
    /\ UNCHANGED <<file, server, stamped>>

\* Second half: a project that has to be made is made local, and the context says
\* local, whatever the mode of the project is.
Contact(t) ==
    /\ term[t].step = "contact"
    /\ LET r == term[t]
           old == r.copy[r.dir]
           ctx == [project |-> ProjectOf(old), session |-> SessionOf(old), local |-> TRUE]
       IN  /\ EnsureRows(old, TRUE)
           /\ Become(t, Saving([r.copy EXCEPT ![r.dir] = ctx],
                               [step |-> r.next, dir |-> r.dir, want |-> r.want,
                                shell |-> r.shell, session |-> ctx.session]))
    /\ UNCHANGED <<file, spoken, typed, stamped>>

AtShell(t) == term[t].step = "shell" /\ Typed

\* interactive_chat: welcome_seen is noted, if the directory is still in the file.
Greet(t) ==
    /\ term[t].step = "greet"
    /\ Loaded
    /\ LET r == [term[t] EXCEPT !.step = "shell"]
       IN  Become(t, IF file[r.dir] # None THEN SaveOther(r) ELSE r)
    /\ UNCHANGED <<file, server, typed, stamped>>

\* /welcome full and /welcome compact
SetWelcomeMode(t) ==
    /\ AtShell(t)
    /\ Loaded
    /\ file[term[t].dir] # None
    /\ Become(t, SaveOther(term[t]))
    /\ UNCHANGED <<file, server, stamped>>

\* /reset; the command reset-context does what that of the host client does.
ResetShell(t) ==
    /\ AtShell(t)
    /\ Loaded
    /\ Become(t, Saving(Forgetting(term[t].dir), [term[t] EXCEPT !.step = "reset"]))
    /\ UNCHANGED <<file, server, stamped>>

Recontact(t) ==
    /\ term[t].step = "reset"
    /\ Loaded
    /\ Become(t, Contacting(term[t].dir, term[t].want, TRUE, "shell"))
    /\ UNCHANGED <<file, server, typed, stamped>>

\* run_prompt
RunPrompt(t) ==
    /\ AtShell(t)
    /\ Loaded
    /\ Become(t, Contacting(term[t].dir, term[t].want, TRUE, "ask"))
    /\ UNCHANGED <<file, server, stamped>>

\* The answer has come; errors of append_message, for the question and for the
\* answer, are swallowed.
AppendMessages(t) ==
    /\ term[t].step = "ask"
    /\ spoken' \in {spoken, spoken \cup {term[t].session}}
    /\ Become(t, [term[t] EXCEPT !.step = "stamp"])
    /\ UNCHANGED <<file, project, owner, typed, stamped>>

\* Where the directory is no longer in the file, it gets a context with a mode and
\* nothing else.
Stamp(t) ==
    /\ term[t].step = "stamp"
    /\ Loaded
    /\ LET r == term[t]
           ctx == IF file[r.dir] = None
                  THEN [project |-> None, session |-> None, local |-> r.want]
                  ELSE [file[r.dir] EXCEPT !.local = r.want]
       IN  /\ Become(t, Saving([file EXCEPT ![r.dir] = ctx],
                               IF r.shell THEN [r EXCEPT !.step = "shell"] ELSE Off))
           /\ stamped' = IF r.want THEN stamped ELSE stamped \cup {r.dir}
    /\ UNCHANGED <<file, server, typed>>

\* Any client ends: the user leaves, an error is not caught, or it is killed,
\* perhaps while it writes the file.
Leave(t) ==
    /\ term[t] # Off
    /\ Become(t, Off)
    /\ file' = file \/ (term[t].step = "save" /\ file' = Torn)
    /\ UNCHANGED <<server, typed, stamped>>

PackagedNext ==
    \E t \in Terminals :
        \/ CliNext(t) /\ UNCHANGED stamped
        \/ \E d \in Directories, want, shell \in BOOLEAN : OpenShell(t, d, want, shell)
        \/ Contact(t) \/ Greet(t) \/ SetWelcomeMode(t) \/ ResetShell(t) \/ Recontact(t)
        \/ RunPrompt(t) \/ AppendMessages(t) \/ Stamp(t) \/ Leave(t)

PackagedSpec == PackagedInit /\ [][PackagedNext]_packagedVars

-------------------------------------------------------------------------------
\* A context that lets prompts leave the machine names a project that was made
\* with --hosted, or its directory is one where a packaged client was run with
\* --hosted: no overlap of clients, reset, switch, branch or /local off makes the
\* prompts of another directory hosted.
HostedOnlyWhenAsked ==
    \A h \in Held :
        \/ h[2].local
        \/ h[1] \in stamped
        \/ h[2].project # None /\ ~project[h[2].project]
===============================================================================
