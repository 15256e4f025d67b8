---------------------------- MODULE AgentMission ----------------------------
(***************************************************************************)
(* The agent fleet: AgentDispatcher (orchestrator/dispatcher.py), the      *)
(* registry and the message bus it shares between missions (agents/), and  *)
(* the kill request (api/v1/agents.py).                                    *)
(*                                                                         *)
(* Everything runs on one event loop.  dispatch registers its agents and   *)
(* makes a task of each worker; a task runs up to its provider's answer    *)
(* and from there to its end.  A mission's identifier may be chosen by the *)
(* client, so two dispatches can share one.                                *)
(***************************************************************************)
EXTENDS Integers, FiniteSets

CONSTANTS MaxAgents, Dispatch, Mission, Null

ASSUME MissionAssumption ==
    /\ MaxAgents \in Nat
    /\ Null \notin Nat \cup Dispatch \cup Mission

\* Agents in the order of their registration.
Agent == 1..MaxAgents

VARIABLES registry,   \* AgentRegistry._agents
          dispatches, \* the calls of dispatch, with their MissionResult
          queue,      \* IPCBus._queues: the senders of the messages waiting
          history     \* IPCBus._history: messages of one agent to another

vars == <<registry, dispatches, queue, history>>

AgentState == {"absent", "spawning", "running", "done", "failed", "killed"}

\* at: how far _run_agent came, whatever state the registry shows.
AgentProcess == [state : AgentState, at : {"queued", "calling", "ended"},
                 coordinator : BOOLEAN, mission : Mission \cup {Null},
                 dispatch : Dispatch \cup {Null}]
NoAgent == [state |-> "absent", at |-> "queued", coordinator |-> FALSE,
            mission |-> Null, dispatch |-> Null]

\* coordinator: the one that dispatch runs; summary: the workers whose output
\* its prompt contains.
MissionResult == [pc : {"idle", "workers", "coordinator", "done"},
                  coordinator : Agent \cup {Null},
                  outputs : SUBSET Agent, errors : SUBSET Agent,
                  summary : SUBSET Agent]
NoResult == [pc |-> "idle", coordinator |-> Null, outputs |-> {},
             errors |-> {}, summary |-> {}]

\* Agents, dispatches and messages hold values of their types.
TypeOK ==
    /\ registry \in [Agent -> AgentProcess]
    /\ dispatches \in [Dispatch -> MissionResult]
    /\ queue \in [Agent -> SUBSET Agent]
    /\ history \in [Agent \X Agent -> 0..1]

Init ==
    /\ registry = [a \in Agent |-> NoAgent]
    /\ dispatches = [d \in Dispatch |-> NoResult]
    /\ queue = [a \in Agent |-> {}]
    /\ history = [p \in Agent \X Agent |-> 0]

----------------------------------------------------------------------------
Absent == {a \in Agent : registry[a].state = "absent"}
Workers(d) == {a \in Agent : registry[a].dispatch = d /\ ~registry[a].coordinator}
list_by_mission(m) == {a \in Agent : registry[a].mission = m}

registered == Cardinality(Agent \ Absent)

\* The roles of a request, as far as they matter: coordinator or not.
Crew == UNION {[1..n -> BOOLEAN] : n \in 1..(MaxAgents - registered)}

\* Of several coordinators the first is the one that will be run.
FirstCoordinator(crew) ==
    IF \E i \in DOMAIN crew : crew[i]
    THEN registered + (CHOOSE i \in DOMAIN crew :
                         crew[i] /\ \A j \in 1..(i - 1) : ~crew[j])
    ELSE Null

\* dispatch up to gather: register an agent for each role.
Start(d, m, crew) ==
    /\ dispatches[d].pc = "idle"
    /\ registry' = [a \in Agent |->
                      IF a - registered \in DOMAIN crew
                      THEN [state |-> "spawning", at |-> "queued",
                            coordinator |-> crew[a - registered],
                            mission |-> m, dispatch |-> d]
                      ELSE registry[a]]
    /\ dispatches' = [dispatches EXCEPT ![d] =
                        [NoResult EXCEPT !.pc = "workers",
                                         !.coordinator = FirstCoordinator(crew)]]
    /\ UNCHANGED <<queue, history>>

Running(a) ==
    registry' = [registry EXCEPT ![a] = [@ EXCEPT !.state = "running",
                                                  !.at = "calling"]]

\* _run_agent up to adapter.complete, for a worker: killed or not, it runs.
RunWorker(a) ==
    /\ registry[a].dispatch # Null
    /\ ~registry[a].coordinator
    /\ registry[a].at = "queued"
    /\ Running(a)
    /\ UNCHANGED <<dispatches, queue, history>>

\* Mutant: one worker that ended is enough.
WorkersEndedEarly(d) ==
    Workers(d) # {} => \E a \in Workers(d) : registry[a].at = "ended"

\* Mutant: the end is read from the registry, where a kill hides it.
WorkersEndedByState(d) ==
    \A a \in Workers(d) : registry[a].state \in {"done", "failed"}

\* gather returns.
WorkersEnded(d) == \A a \in Workers(d) : registry[a].at = "ended"

\* The coordinator's prompt is built from the outputs, and it is run.
RunCoordinator(d) ==
    LET c == dispatches[d].coordinator IN
    /\ dispatches[d].pc = "workers"
    /\ c # Null
    /\ WorkersEnded(d)
    /\ Running(c)
    /\ dispatches' = [dispatches EXCEPT ![d] =
                        [@ EXCEPT !.pc = "coordinator",
                                  !.summary = dispatches[d].outputs]]
    /\ UNCHANGED <<queue, history>>

\* The coordinators that hear of a's end: those of its mission, of whichever
\* dispatch, but not a itself.
Audience(a) == {c \in list_by_mission(registry[a].mission) :
                  registry[c].coordinator /\ c # a}

send(a, C) ==
    /\ queue' = [c \in Agent |-> IF c \in C THEN queue[c] \cup {a} ELSE queue[c]]
    /\ history' = [p \in Agent \X Agent |->
                     IF p[1] = a /\ p[2] \in C THEN history[p] + 1 ELSE history[p]]

\* Mutant: an agent that was killed keeps that state and leaves no result.
EndUnlessKilled(a, ok) ==
    LET d == registry[a].dispatch IN
    /\ registry[a].at = "calling"
    /\ registry' = [registry EXCEPT ![a] =
                      [@ EXCEPT !.at = "ended",
                                !.state = IF @ = "killed" THEN @
                                          ELSE IF ok THEN "done" ELSE "failed"]]
    /\ dispatches' = IF registry[a].state = "killed" THEN dispatches
                     ELSE [dispatches EXCEPT
                             ![d].outputs = @ \cup (IF ok THEN {a} ELSE {}),
                             ![d].errors = @ \cup (IF ok THEN {} ELSE {a})]
    /\ send(a, Audience(a))

\* _run_agent from the provider's answer, or its error, to the end.
End(a, ok) ==
    LET d == registry[a].dispatch IN
    /\ registry[a].at = "calling"
    /\ registry' = [registry EXCEPT ![a] =
                      [@ EXCEPT !.at = "ended",
                                !.state = IF ok THEN "done" ELSE "failed"]]
    /\ dispatches' = [dispatches EXCEPT
                        ![d].outputs = @ \cup (IF ok THEN {a} ELSE {}),
                        ![d].errors = @ \cup (IF ok THEN {} ELSE {a})]
    /\ send(a, Audience(a))

\* dispatch returns: after the coordinator, or after gather without one.
Complete(d) ==
    LET c == dispatches[d].coordinator IN
    /\ \/ dispatches[d].pc = "workers" /\ c = Null /\ WorkersEnded(d)
       \/ dispatches[d].pc = "coordinator" /\ registry[c].at = "ended"
    /\ dispatches' = [dispatches EXCEPT ![d].pc = "done"]
    /\ UNCHANGED <<registry, queue, history>>

\* kill_agent: the registry and the queue change, the task does not.
Kill(a) ==
    /\ registry[a].state \notin {"absent", "killed"}
    /\ registry' = [registry EXCEPT ![a].state = "killed"]
    /\ queue' = [queue EXCEPT ![a] = {}]
    /\ UNCHANGED <<dispatches, history>>

----------------------------------------------------------------------------
Proceed(d) ==
    \/ \E a \in Agent : /\ registry[a].dispatch = d
                        /\ RunWorker(a) \/ \E ok \in BOOLEAN : End(a, ok)
    \/ RunCoordinator(d)
    \/ Complete(d)

Next ==
    \/ \E d \in Dispatch, m \in Mission, crew \in Crew : Start(d, m, crew)
    \/ \E d \in Dispatch : Proceed(d)
    \/ \E a \in Agent : Kill(a)

Spec == Init /\ [][Next]_vars

\* The event loop runs every task, and providers answer or time out.
FairSpec == Spec /\ \A d \in Dispatch : WF_vars(Proceed(d))

----------------------------------------------------------------------------
\* The registry and the result of a mission tell the same story: an agent is
\* done, or failed, only with an output, or an error, in its own dispatch; a
\* kill before, during or after its run cannot leave the two apart.
StatesMatchResults ==
    \A d \in Dispatch :
        LET r == dispatches[d] IN
        /\ r.outputs \cap r.errors = {}
        /\ \A a \in Agent : registry[a].dispatch = d =>
              /\ registry[a].state = "done" => a \in r.outputs
              /\ registry[a].state = "failed" => a \in r.errors
              /\ registry[a].at = "ended" <=> a \in r.outputs \cup r.errors

\* The coordinator is run once every worker of its own dispatch has ended,
\* and its prompt has every output and nothing of another dispatch.
CoordinatorSeesEveryWorker ==
    \A d \in Dispatch :
        dispatches[d].pc = "coordinator" =>
            /\ \A a \in Workers(d) : registry[a].at = "ended"
            /\ dispatches[d].summary = dispatches[d].outputs \cap Workers(d)

\* Every mission that was begun returns, whoever is killed meanwhile.
MissionReturns ==
    \A d \in Dispatch : dispatches[d].pc = "workers" ~> dispatches[d].pc = "done"

=============================================================================
