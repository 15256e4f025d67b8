------------------------------ MODULE CliContext ------------------------------
(***************************************************************************)
(* The terminals of a machine (scripts/xyntra_host_cli.py), the state file  *)
(* they share and the endpoint that gives a directory its project and       *)
(* session (api/v1/cli.py).  Every change of the file loads all of it and   *)
(* later writes all of it, without a lock, so terminals overwrite each      *)
(* other's changes; ensure_context even waits for the API in between.       *)
(***************************************************************************)
EXTENDS Integers, Sequences, FiniteSets

CONSTANTS
    Terminals,     \* shells on the machine, each running at most one client
    Directories,   \* the repositories clients are started in
    MaxTyped,      \* bound: what is typed at all terminals, two for a command
                   \* and three for a prompt, which takes many steps
    None

ASSUME CliContextAssumption == MaxTyped \in Nat /\ IsFiniteSet(Terminals)

VARIABLES
    file,      \* the state file, or Torn
    project,   \* the projects on the server, each TRUE if it is local_only
    owner,     \* the sessions on the server, each its project
    spoken,    \* the sessions that have messages
    term,      \* what the client at each terminal is about to do
    typed      \* what was typed so far, as MaxTyped counts it

server == <<project, owner, spoken>>

Off == [step |-> "off"]

\* What a write leaves behind when the client is killed in the middle of it;
\* json.loads refuses it, so no client can load it.
Torn == [torn |-> TRUE]

\* The contexts of the file.  Where repositories lie, the lessons learned, how to
\* welcome and the last model are in it too; nothing here depends on them.
Empty == [d \in Directories |-> None]

\* A context as the file and a client keep it.
Whole(ctx) == owner[ctx.session] = ctx.project

Ready(d, ctx, want) == [step |-> "prompt", dir |-> d, ctx |-> ctx, want |-> want]

Become(t, r) == term' = [term EXCEPT ![t] = r]

TypedFor(n) ==
    /\ typed + n <= MaxTyped
    /\ typed' = typed + n

Typed == TypedFor(2)

AtPrompt(t) == term[t].step = "prompt" /\ Typed

\* load_state: the client goes on with a copy of the file, or dies.
Loaded == file # Torn

\* The copy, changed, that save_state is about to write, and what comes next.
Saving(new, next) == [step |-> "save", write |-> new, then |-> next]

\* Something else in the file is changed, and the contexts are written as loaded.
SaveOther(next) == Saving(file, next)

SaveState(t) ==
    /\ term[t].step = "save"
    /\ file' = term[t].write
    /\ Become(t, term[t].then)
    /\ UNCHANGED <<server, typed>>

CliInit ==
    /\ file = Empty
    /\ project = <<>>
    /\ owner = <<>>
    /\ spoken = {}
    /\ term = [t \in Terminals |-> Off]
    /\ typed = 0

-------------------------------------------------------------------------------
\* ensure_context, first half: the file is loaded and the API is asked.
Ensuring(d, want, next) ==
    [step |-> "ensure", dir |-> d, want |-> want, copy |-> file, next |-> next]

StartClient(t, d, want, next) ==
    /\ term[t] = Off
    /\ Typed
    /\ Loaded
    /\ Become(t, Ensuring(d, want, next))
    /\ UNCHANGED <<file, server>>

\* The context of a directory need not name a session, nor a project.
KeepsSession(old, p) == old # None /\ old.session # None /\ owner[old.session] = p

HasProject(old) == old # None /\ old.project # None

\* Mutant: a directory without a project is given the last one made, as if they
\* were looked up by a name that directories can share.
KeepsProject_ByName(old) == HasProject(old) \/ project # <<>>

KeepsProject(old) == HasProject(old)

\* Mutant: the answer repeats what was asked for.
AnswerLocal_Asked(p, want) == want

\* The mode of a project is what it was made with, whatever is asked for later.
AnswerLocal(p, want) == project'[p]

ProjectOf(old) ==
    IF HasProject(old) THEN old.project
    ELSE IF KeepsProject(old) THEN Len(project) ELSE Len(project) + 1

SessionOf(old) ==
    IF KeepsSession(old, ProjectOf(old)) THEN old.session ELSE Len(owner) + 1

\* ensure_cli_context: what the context lacks is made.
EnsureRows(old, want) ==
    /\ project' = IF KeepsProject(old) THEN project ELSE Append(project, want)
    /\ owner' = IF KeepsSession(old, ProjectOf(old)) THEN owner ELSE Append(owner, ProjectOf(old))

EnsureCliContext(t) ==
    /\ term[t].step = "ensure"
    /\ LET r == term[t]
           old == r.copy[r.dir]
           ctx == [project |-> ProjectOf(old), session |-> SessionOf(old),
                   local |-> AnswerLocal(ProjectOf(old), r.want)]
       IN  /\ EnsureRows(old, r.want)
           /\ Become(t, Saving([r.copy EXCEPT ![r.dir] = ctx],
                               [Ready(r.dir, ctx, r.want) EXCEPT !.step = r.next]))
    /\ UNCHANGED <<file, spoken, typed>>

\* interactive_chat: the banner is printed, and the file is written as it was
\* loaded with welcome_seen, if the directory is still in it.
Welcome(t) ==
    /\ term[t].step = "welcome"
    /\ Loaded
    /\ LET ready == [term[t] EXCEPT !.step = "prompt"]
       IN  Become(t, IF file[ready.dir] # None THEN SaveOther(ready) ELSE ready)
    /\ UNCHANGED <<file, server, typed>>

\* /local on and /local off
ToggleLocal(t, want) ==
    /\ AtPrompt(t)
    /\ Loaded
    /\ Become(t, Ensuring(term[t].dir, want, "prompt"))
    /\ UNCHANGED <<file, server>>

Forgetting(d) == [file EXCEPT ![d] = None]

\* /reset, which goes on to ensure_context, and the command reset-context
Reset(t) ==
    /\ AtPrompt(t)
    /\ Loaded
    /\ Become(t, Saving(Forgetting(term[t].dir), [term[t] EXCEPT !.step = "reload"]))
    /\ UNCHANGED <<file, server>>

ResetCommand(t, d) ==
    /\ term[t] = Off
    /\ Typed
    /\ Loaded
    /\ Become(t, Saving(Forgetting(d), Off))
    /\ UNCHANGED <<file, server>>

Reload(t) ==
    /\ term[t].step = "reload"
    /\ Loaded
    /\ Become(t, Ensuring(term[t].dir, term[t].want, "prompt"))
    /\ UNCHANGED <<file, server, typed>>

\* The session is put into the context the file has for the directory, which
\* need not be the one the session was chosen in; without one the client dies.
Moving(r, s) ==
    LET ctx == [file[r.dir] EXCEPT !.session = s]
    IN  Saving([file EXCEPT ![r.dir] = ctx], Ready(r.dir, ctx, r.want))

SwitchSession(t) ==
    /\ AtPrompt(t)
    /\ Loaded
    /\ file[term[t].dir] # None
    /\ \E s \in DOMAIN owner :
        /\ owner[s] = term[t].ctx.project
        /\ Become(t, Moving(term[t], s))
    /\ UNCHANGED <<file, server>>

BranchSession(t) ==
    /\ AtPrompt(t)
    /\ LET ctx == term[t].ctx
       IN  /\ Whole(ctx)
           /\ ctx.session \in spoken
           /\ owner' = Append(owner, ctx.project)
           /\ spoken' = spoken \cup {Len(owner')}
    /\ Become(t, [step |-> "branched", dir |-> term[t].dir, want |-> term[t].want,
                  session |-> Len(owner')])
    /\ UNCHANGED <<file, project>>

SaveBranch(t) ==
    /\ term[t].step = "branched"
    /\ Loaded
    /\ file[term[t].dir] # None
    /\ Become(t, Moving(term[t], term[t].session))
    /\ UNCHANGED <<file, server, typed>>

\* remember_repo, save_feedback for a correction, /welcome
Remember(t) ==
    /\ AtPrompt(t)
    /\ Loaded
    /\ Become(t, SaveOther(term[t]))
    /\ UNCHANGED <<file, server>>

CliNext(t) ==
    \/ SaveState(t)
    \/ \E d \in Directories, want \in BOOLEAN, next \in {"welcome", "once"} :
          StartClient(t, d, want, next)
    \/ EnsureCliContext(t)
    \/ Welcome(t)
    \/ \E want \in BOOLEAN : ToggleLocal(t, want)
    \/ Reset(t)
    \/ \E d \in Directories : ResetCommand(t, d)
    \/ Reload(t)
    \/ SwitchSession(t) \/ BranchSession(t) \/ SaveBranch(t)
    \/ Remember(t)

-------------------------------------------------------------------------------
\* The contexts that can still be used, each with its directory: those of the
\* file and of the clients, and those a client has yet to write.
HasContext(r) == "ctx" \in DOMAIN r
FileContexts(f) ==
    IF f = Torn THEN {} ELSE {<<d, f[d]>> : d \in {x \in Directories : f[x] # None}}
ClientContexts(r) == IF HasContext(r) THEN {<<r.dir, r.ctx>>} ELSE {}
Held ==
    FileContexts(file) \cup
    UNION {CASE term[t].step = "save" ->
                  FileContexts(term[t].write) \cup ClientContexts(term[t].then)
             [] term[t].step = "ensure" -> FileContexts(term[t].copy)
             [] OTHER -> ClientContexts(term[t]) : t \in Terminals}

\* A prompt carries the local_only of its context, and the chat endpoint does not
\* look at the project: whatever clients overwrite, reset or toggle, a context
\* says of its project what the server says, so a local project stays local.
ContextsTellTheMode ==
    \A h \in Held : h[2].local = project[h[2].project]

\* Two directories never come to share a project or a session, although every
\* client writes back the contexts of all directories as it once read them.
DirectoriesKeepApart ==
    \A g, h \in Held :
        g[1] # h[1] => g[2].project # h[2].project /\ g[2].session # h[2].session

===============================================================================
