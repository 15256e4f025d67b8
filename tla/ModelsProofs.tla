---------------------------- MODULE ModelsProofs ----------------------------
(***************************************************************************)
(* What the components that choose models and set them to work guarantee:  *)
(* the agent fleet, for any limit on the agents and any number of          *)
(* dispatches, also those that share a mission; the comparison of several  *)
(* models, for any answers and costs; and the model selector of the        *)
(* kernel, for any table, machine and question.                            *)
(***************************************************************************)
EXTENDS AgentMission, KernelSelection, ModelComparison, NumberFacts

(* The agent fleet                                                         *)


\* What the registry shows of agent a.  A kill may hide how far it came, and
\* nothing else; the coordinator that dispatch runs is the only one that ever
\* leaves the queue; and a sends its result once.
AgentIsTrue(a) ==
    LET g == registry[a] IN
    /\ g.state = "absent" => g.at = "queued" /\ g.dispatch = Null
    /\ g.state # "absent" => g.dispatch \in Dispatch
    /\ g.at = "queued" => g.state \in {"absent", "spawning", "killed"}
    /\ g.at = "calling" => g.state \in {"running", "killed"}
    /\ g.at = "ended" => g.state \in {"done", "failed", "killed"}
    /\ g.dispatch # Null => dispatches[g.dispatch].pc # "idle"
    /\ g.coordinator /\ g.at # "queued" =>
          /\ dispatches[g.dispatch].pc \in {"coordinator", "done"}
          /\ dispatches[g.dispatch].coordinator = a
    /\ g.at # "ended" => \A c \in Agent : history[<<a, c>>] = 0

\* What the result of dispatch d says: it has the agents that ended, each on
\* one side.
ResultIsTrue(d) ==
    LET r == dispatches[d] IN
    /\ \A a \in Agent : registry[a].dispatch = d =>
          /\ registry[a].state = "done" => a \in r.outputs
          /\ registry[a].state = "failed" => a \in r.errors
    /\ \A a \in Agent : a \in r.outputs \cup r.errors <=>
          registry[a].dispatch = d /\ registry[a].at = "ended"
    /\ r.outputs \cap r.errors = {}
    /\ r.coordinator # Null => /\ registry[r.coordinator].dispatch = d
                               /\ registry[r.coordinator].coordinator
    /\ r.pc = "coordinator" =>
          /\ r.coordinator # Null
          /\ \A a \in Workers(d) : registry[a].at = "ended"
          /\ r.summary = r.outputs \cap Workers(d)

\* Agents are registered in order, so a new crew takes places that are free.
InOrder == \E k \in 0..MaxAgents :
              \A a \in Agent : registry[a].state = "absent" <=> a > k

\* The inductive invariant behind StatesMatchResults and
\* CoordinatorSeesEveryWorker.
MissionInv ==
    /\ TypeOK
    /\ InOrder
    /\ \A a \in Agent : AgentIsTrue(a)
    /\ \A d \in Dispatch : ResultIsTrue(d)

----------------------------------------------------------------------------
LEMMA AgentNumbers ==
  ASSUME NEW a \in Agent
  PROVE  a \in Nat /\ a # Null /\ a >= 1 /\ a <= MaxAgents
  BY MissionAssumption DEF Agent

LEMMA RegisteredCounts ==
  ASSUME NEW k \in 0..MaxAgents,
         \A a \in Agent : registry[a].state = "absent" <=> a > k
  PROVE  registered = k
<1>1. Agent \ Absent = 1..k
  BY MissionAssumption DEF Agent, Absent
<1>2. Cardinality(1..k) = k
  BY MissionAssumption, FS_Interval
<1>3. QED
  BY <1>1, <1>2 DEF registered

\* The coordinator that dispatch runs is one of its new agents.
LEMMA CoordinatorOfCrew ==
  ASSUME NEW k \in Nat, registered = k, NEW n \in Nat,
         NEW crew \in [1..n -> BOOLEAN]
  PROVE  \/ FirstCoordinator(crew) = Null
         \/ \E i \in 1..n : FirstCoordinator(crew) = k + i /\ crew[i]
<1> SUFFICES ASSUME NEW x \in 1..n, crew[x]
             PROVE  \E i \in 1..n : FirstCoordinator(crew) = k + i /\ crew[i]
  BY DEF FirstCoordinator
<1> DEFINE S == {i \in 1..n : crew[i]}
<1>1. S \in SUBSET Nat /\ S # {}
  OBVIOUS
<1>2. PICK m \in S : \A i \in S : m <= i
  <2> HIDE DEF S
  <2>1. QED
    BY <1>1, LeastNatural
<1>3. m \in 1..n /\ crew[m] /\ \A j \in 1..(m - 1) : ~crew[j]
  <2>1. m \in 1..n /\ crew[m]
    OBVIOUS
  <2>2. \A j \in 1..(m - 1) : j \in 1..n /\ ~(m <= j)
    BY <2>1
  <2>3. QED
    BY <1>2, <2>1, <2>2
<1> DEFINE i == CHOOSE y \in 1..n : crew[y] /\ \A j \in 1..(y - 1) : ~crew[j]
<1>4. i \in 1..n /\ crew[i]
  BY <1>3
<1>5. FirstCoordinator(crew) = k + i
  BY DEF FirstCoordinator
<1>6. QED
  BY <1>4, <1>5

LEMMA NextStart ==
  ASSUME MissionInv, NEW d \in Dispatch, NEW m \in Mission, NEW crew \in Crew,
         Start(d, m, crew)
  PROVE  MissionInv'
<1> USE MissionAssumption, AgentNumbers
<1>1. PICK k \in 0..MaxAgents :
         \A a \in Agent : registry[a].state = "absent" <=> a > k
  BY DEF MissionInv, InOrder
<1>2. registered = k
  BY <1>1, RegisteredCounts
<1>3. PICK n \in 1..(MaxAgents - k) : crew \in [1..n -> BOOLEAN]
  BY <1>2 DEF Crew
<1> DEFINE New(a) == a > k /\ a <= k + n
           c == FirstCoordinator(crew)
<1>4. \A a \in Agent :
        registry'[a] = IF New(a)
                       THEN [state |-> "spawning", at |-> "queued",
                             coordinator |-> crew[a - k], mission |-> m,
                             dispatch |-> d]
                       ELSE registry[a]
  BY <1>2, <1>3 DEF Start
<1>5. \A a \in Agent : New(a) =>
        /\ registry'[a].state = "spawning" /\ registry'[a].at = "queued"
        /\ registry'[a].coordinator = crew[a - k] /\ registry'[a].dispatch = d
        /\ registry'[a].mission = m /\ registry'[a] \in AgentProcess
        /\ registry[a].state = "absent" /\ registry[a].dispatch = Null
  <2> SUFFICES ASSUME NEW a \in Agent, New(a)
               PROVE  /\ registry'[a].state = "spawning"
                      /\ registry'[a].at = "queued"
                      /\ registry'[a].coordinator = crew[a - k]
                      /\ registry'[a].dispatch = d
                      /\ registry'[a].mission = m
                      /\ registry'[a] \in AgentProcess
                      /\ registry[a].state = "absent"
                      /\ registry[a].dispatch = Null
    OBVIOUS
  <2>1. a - k \in 1..n
    OBVIOUS
  <2>2. crew[a - k] \in BOOLEAN
    BY <1>3, <2>1
  <2>3. registry[a].state = "absent" /\ registry[a].dispatch = Null
    BY <1>1 DEF MissionInv, AgentIsTrue
  <2> DEFINE g == [state |-> "spawning", at |-> "queued",
                   coordinator |-> crew[a - k], mission |-> m, dispatch |-> d]
  <2>4. g \in AgentProcess /\ g.state = "spawning" /\ g.at = "queued"
        /\ g.coordinator = crew[a - k] /\ g.dispatch = d /\ g.mission = m
    BY <2>2 DEF AgentProcess, AgentState
  <2>5. registry'[a] = g
    BY <1>4
  <2> HIDE DEF g
  <2>6. QED
    BY <2>3, <2>4, <2>5
<1>6. \A a \in Agent : ~New(a) => registry'[a] = registry[a]
  BY <1>4
<1>7. \A a \in Agent : registry[a].dispatch # d
  BY DEF Start, MissionInv, AgentIsTrue
<1>8. c = Null \/ (c \in Agent /\ New(c) /\ crew[c - k])
  <2>1. c = Null \/ \E i \in 1..n : c = k + i /\ crew[i]
    BY <1>2, <1>3, CoordinatorOfCrew
  <2>2. ASSUME NEW i \in 1..n, c = k + i, crew[i]
        PROVE  c \in Agent /\ New(c) /\ crew[c - k]
    <3>1. c - k = i /\ c > k /\ c <= k + n /\ c \in 1..MaxAgents
      BY <2>2
    <3>2. QED
      BY <2>2, <3>1 DEF Agent
  <2>3. QED
    BY <2>1, <2>2
<1> DEFINE r == [NoResult EXCEPT !.pc = "workers", !.coordinator = c]
<1>9. /\ r.pc = "workers" /\ r.coordinator = c /\ r.outputs = {}
      /\ r.errors = {} /\ r \in MissionResult
  BY <1>8 DEF NoResult, MissionResult
<1>10. /\ dispatches' = [dispatches EXCEPT ![d] = r]
       /\ dispatches \in [Dispatch -> MissionResult]
       /\ dispatches[d].pc = "idle" /\ UNCHANGED <<queue, history>>
  BY DEF Start, MissionInv, TypeOK
<1> HIDE DEF r, c, New
<1>11. dispatches'[d] = r /\ \A x \in Dispatch \ {d} : dispatches'[x] = dispatches[x]
  BY <1>10
<1>12. TypeOK'
  <2>1. registry' \in [Agent -> AgentProcess]
    <3>1. \A a \in Agent : registry'[a] \in AgentProcess
      BY <1>5, <1>6 DEF MissionInv, TypeOK
    <3>2. QED
      BY <3>1 DEF Start
  <2>2. QED
    BY <1>9, <1>10, <2>1 DEF MissionInv, TypeOK
<1>13. InOrder'
  <2>1. \A a \in Agent : registry'[a].state = "absent" <=> a > k + n
    BY <1>1, <1>5, <1>6 DEF New
  <2>2. k + n \in 0..MaxAgents
    OBVIOUS
  <2>3. QED
    BY <2>1, <2>2 DEF InOrder
<1>14. ASSUME NEW a \in Agent PROVE AgentIsTrue(a)'
  <2>1. AgentIsTrue(a)
    BY DEF MissionInv
  <2>2. CASE New(a)
    BY <1>5, <1>9, <1>10, <1>11, <2>1, <2>2 DEF AgentIsTrue
  <2>3. CASE ~New(a)
    <3>1. registry'[a] = registry[a] /\ registry[a].dispatch # d
      BY <1>6, <1>7, <2>3
    <3>2. registry[a].state # "absent" =>
             dispatches'[registry[a].dispatch] = dispatches[registry[a].dispatch]
      BY <1>11, <2>1, <3>1 DEF AgentIsTrue
    <3>3. registry[a] \in AgentProcess
      BY DEF MissionInv, TypeOK
    <3>4. QED
      BY <1>10, <2>1, <3>1, <3>2, <3>3 DEF AgentIsTrue, AgentProcess
  <2>4. QED
    BY <2>2, <2>3
<1>15. ASSUME NEW x \in Dispatch PROVE ResultIsTrue(x)'
  <2>1. CASE x = d
    BY <1>5, <1>6, <1>7, <1>8, <1>9, <1>11, <2>1 DEF ResultIsTrue
  <2>2. CASE x # d
    <3>1. \A a \in Agent :
            \/ registry'[a] = registry[a]
            \/ registry[a].dispatch # x /\ registry'[a].dispatch # x
      BY <1>5, <1>6, <2>2
    <3>2. Workers(x)' = Workers(x)
      BY <3>1 DEF Workers
    <3>3. dispatches'[x] = dispatches[x] /\ dispatches[x] \in MissionResult
      BY <1>10, <1>11, <2>2
    <3>4. ResultIsTrue(x)
      BY DEF MissionInv
    <3>5. \A a \in Workers(x) : registry'[a] = registry[a]
      BY <3>1 DEF Workers
    <3>6. QED
      BY <3>1, <3>2, <3>3, <3>4, <3>5 DEF ResultIsTrue, MissionResult
  <2>3. QED
    BY <2>1, <2>2
<1>16. QED
  BY <1>12, <1>13, <1>14, <1>15 DEF MissionInv

----------------------------------------------------------------------------
\* A step of agent a that changes nothing of the others and moves its
\* dispatch d forward at most.
LEMMA StepOfAgent ==
  ASSUME MissionInv, NEW a \in Agent, NEW g \in AgentProcess,
         registry' = [registry EXCEPT ![a] = g],
         registry[a].state # "absent", g.state # "absent",
         g.coordinator = registry[a].coordinator,
         g.dispatch = registry[a].dispatch,
         NEW d \in Dispatch, d = g.dispatch, NEW r \in MissionResult,
         dispatches' = [dispatches EXCEPT ![d] = r],
         r.coordinator = dispatches[d].coordinator,
         r.pc = dispatches[d].pc \/ r.pc = "coordinator",
         queue' \in [Agent -> SUBSET Agent],
         history' \in [Agent \X Agent -> 0..1],
         \A b, c \in Agent : b # a => history'[<<b, c>>] = history[<<b, c>>],
         AgentIsTrue(a)', ResultIsTrue(d)'
  PROVE  MissionInv'
<1> USE MissionAssumption
<1>1. /\ registry'[a] = g /\ \A b \in Agent \ {a} : registry'[b] = registry[b]
      /\ dispatches'[d] = r
      /\ \A x \in Dispatch \ {d} : dispatches'[x] = dispatches[x]
  BY DEF MissionInv, TypeOK
<1>2. TypeOK'
  BY DEF MissionInv, TypeOK
<1>3. InOrder'
  <2>1. \A b \in Agent : registry'[b].state = "absent" <=> registry[b].state = "absent"
    BY <1>1
  <2>2. QED
    BY <2>1 DEF MissionInv, InOrder
<1>4. ASSUME NEW b \in Agent, b # a PROVE AgentIsTrue(b)'
  <2>1. AgentIsTrue(b) /\ registry'[b] = registry[b]
    BY <1>1, <1>4 DEF MissionInv
  <2>2. ASSUME NEW x \in Dispatch, x = registry[b].dispatch
        PROVE  /\ dispatches'[x].coordinator = dispatches[x].coordinator
               /\ dispatches'[x].pc \in {dispatches[x].pc, "coordinator"}
    BY <1>1, <2>2
  <2>3. registry[b].state = "absent" => registry[b].dispatch = Null
                                       /\ registry[b].at = "queued"
    BY <2>1 DEF AgentIsTrue
  <2>4. registry[b].state # "absent" => registry[b].dispatch \in Dispatch
    BY <2>1 DEF AgentIsTrue
  <2>5. \A c \in Agent : history'[<<b, c>>] = history[<<b, c>>]
    BY <1>4
  <2>6. QED
    BY <2>1, <2>2, <2>3, <2>4, <2>5 DEF AgentIsTrue
<1>5. ASSUME NEW x \in Dispatch, x # d PROVE ResultIsTrue(x)'
  <2>1. \A b \in Agent :
          \/ registry'[b] = registry[b]
          \/ registry[b].dispatch # x /\ registry'[b].dispatch # x
    BY <1>1, <1>5
  <2>2. Workers(x)' = Workers(x)
    BY <2>1 DEF Workers
  <2>3. dispatches'[x] = dispatches[x] /\ dispatches[x] \in MissionResult
    BY <1>1, <1>5 DEF MissionInv, TypeOK
  <2>4. ResultIsTrue(x)
    BY DEF MissionInv
  <2>5. \A b \in Workers(x) : registry'[b] = registry[b]
    BY <2>1 DEF Workers
  <2>6. QED
    BY SMTT(30), <2>1, <2>2, <2>3, <2>4, <2>5 DEF ResultIsTrue, MissionResult
<1>6. QED
  BY <1>2, <1>3, <1>4, <1>5 DEF MissionInv

\* send is told once to each coordinator of the audience.
LEMMA SendOnce ==
  ASSUME MissionInv, NEW a \in Agent, NEW C \in SUBSET Agent, send(a, C),
         \A c \in Agent : history[<<a, c>>] = 0
  PROVE  /\ queue' \in [Agent -> SUBSET Agent]
         /\ history' \in [Agent \X Agent -> 0..1]
         /\ \A b, c \in Agent : b # a => history'[<<b, c>>] = history[<<b, c>>]
<1>1. queue \in [Agent -> SUBSET Agent] /\ history \in [Agent \X Agent -> 0..1]
  BY DEF MissionInv, TypeOK
<1>2. queue' \in [Agent -> SUBSET Agent]
  BY <1>1 DEF send
<1>3. \A b, c \in Agent :
         history'[<<b, c>>] = IF b = a /\ c \in C THEN history[<<b, c>>] + 1
                              ELSE history[<<b, c>>]
  BY DEF send
<1>4. \A p \in Agent \X Agent :
         (IF p[1] = a /\ p[2] \in C THEN history[p] + 1 ELSE history[p]) \in 0..1
  <2> SUFFICES ASSUME NEW p \in Agent \X Agent
               PROVE (IF p[1] = a /\ p[2] \in C THEN history[p] + 1
                      ELSE history[p]) \in 0..1
    OBVIOUS
  <2>1. p = <<p[1], p[2]>> /\ p[1] \in Agent /\ p[2] \in Agent
    OBVIOUS
  <2>2. history[p] \in 0..1 /\ (p[1] = a => history[p] = 0)
    BY <1>1, <2>1
  <2>3. QED
    BY <2>2
<1>5. history' \in [Agent \X Agent -> 0..1]
  BY <1>4 DEF send
<1>6. QED
  BY <1>2, <1>3, <1>5

LEMMA NextRunWorker ==
  ASSUME MissionInv, NEW a \in Agent, RunWorker(a)
  PROVE  MissionInv'
<1> USE MissionAssumption
<1> DEFINE g == [registry[a] EXCEPT !.state = "running", !.at = "calling"]
           d == registry[a].dispatch
           r == dispatches[d]
<1>1. registry[a] \in AgentProcess /\ AgentIsTrue(a)
  BY DEF MissionInv, TypeOK
<1>2. /\ g \in AgentProcess /\ g.state = "running" /\ g.at = "calling"
      /\ g.coordinator = registry[a].coordinator /\ g.dispatch = d
  BY <1>1 DEF AgentProcess, AgentState
<1>3. /\ d # Null /\ ~registry[a].coordinator /\ registry[a].at = "queued"
      /\ registry' = [registry EXCEPT ![a] = g]
      /\ UNCHANGED <<dispatches, queue, history>>
  BY DEF RunWorker, Running, MissionInv, TypeOK
<1>4. registry[a].state # "absent" /\ d \in Dispatch
  BY <1>1, <1>3 DEF AgentIsTrue
<1>5. /\ dispatches' = [dispatches EXCEPT ![d] = r] /\ r \in MissionResult
      /\ queue' \in [Agent -> SUBSET Agent]
      /\ history' \in [Agent \X Agent -> 0..1]
  BY <1>3, <1>4 DEF MissionInv, TypeOK
<1> HIDE DEF g
<1>6. registry'[a] = g /\ \A b \in Agent \ {a} : registry'[b] = registry[b]
  BY <1>3 DEF MissionInv, TypeOK
<1>7. AgentIsTrue(a)'
  BY <1>1, <1>2, <1>3, <1>6 DEF AgentIsTrue
<1>8. ASSUME NEW x \in Dispatch PROVE ResultIsTrue(x)'
  <2>1. ResultIsTrue(x) /\ dispatches'[x] = dispatches[x]
    BY <1>3 DEF MissionInv
  <2>2. Workers(x)' = Workers(x)
    BY <1>2, <1>6 DEF Workers
  <2>3. dispatches[x].pc # "coordinator" \/ x # d
    BY <1>3, <2>1 DEF ResultIsTrue, Workers
  <2>4. a \notin dispatches[x].outputs \cup dispatches[x].errors
    BY <1>3, <2>1 DEF ResultIsTrue
  <2>5. \A b \in Workers(x) : b # a \/ x = d
    BY DEF Workers
  <2>6. QED
    BY <1>2, <1>3, <1>6, <2>1, <2>2, <2>3, <2>4, <2>5 DEF ResultIsTrue
<1>9. QED
  BY <1>2, <1>3, <1>4, <1>5, <1>7, <1>8, StepOfAgent

\* The coordinator is run when its workers have ended; none of the outputs is
\* a coordinator's, so the summary is all of them.
LEMMA NextRunCoordinator ==
  ASSUME MissionInv, NEW d \in Dispatch, RunCoordinator(d)
  PROVE  MissionInv'
<1> USE MissionAssumption
<1>0. PICK a \in Agent : a = dispatches[d].coordinator
  <2>1. /\ dispatches[d] \in MissionResult /\ dispatches[d].coordinator # Null
    BY DEF RunCoordinator, MissionInv, TypeOK
  <2>2. QED
    BY <2>1 DEF MissionResult
<1> DEFINE g == [registry[a] EXCEPT !.state = "running", !.at = "calling"]
           r == [dispatches[d] EXCEPT !.pc = "coordinator",
                                      !.summary = dispatches[d].outputs]
<1>1. /\ dispatches[d] \in MissionResult /\ ResultIsTrue(d)
      /\ dispatches[d].pc = "workers" /\ a # Null /\ WorkersEnded(d)
      /\ UNCHANGED <<queue, history>>
  BY <1>0 DEF RunCoordinator, MissionInv, TypeOK
<1>2. a \in Agent /\ registry[a].dispatch = d /\ registry[a].coordinator
  BY <1>0, <1>1 DEF ResultIsTrue
<1>3. registry[a] \in AgentProcess /\ AgentIsTrue(a)
  BY <1>2 DEF MissionInv, TypeOK
<1>4. registry[a].at = "queued" /\ registry[a].state # "absent"
  <2>1. d # Null
    OBVIOUS
  <2>2. QED
    BY <1>1, <1>2, <1>3, <2>1 DEF AgentIsTrue, AgentProcess
<1>5. /\ g \in AgentProcess /\ g.state = "running" /\ g.at = "calling"
      /\ g.coordinator = registry[a].coordinator /\ g.dispatch = d
  BY <1>2, <1>3 DEF AgentProcess, AgentState
<1>6. /\ r \in MissionResult /\ r.pc = "coordinator" /\ r.coordinator = a
      /\ r.outputs = dispatches[d].outputs /\ r.errors = dispatches[d].errors
      /\ r.summary = dispatches[d].outputs
  BY <1>0, <1>1 DEF MissionResult
<1>7. /\ registry' = [registry EXCEPT ![a] = g]
      /\ dispatches' = [dispatches EXCEPT ![d] = r]
  BY <1>0, <1>2 DEF RunCoordinator, Running, MissionInv, TypeOK
<1>8. /\ queue' \in [Agent -> SUBSET Agent]
      /\ history' \in [Agent \X Agent -> 0..1]
  BY <1>1 DEF MissionInv, TypeOK
<1> HIDE DEF g, r
<1>9. registry'[a] = g /\ \A b \in Agent \ {a} : registry'[b] = registry[b]
  BY <1>2, <1>7 DEF MissionInv, TypeOK
<1>10. dispatches'[d] = r
  BY <1>7 DEF MissionInv, TypeOK
<1>11. AgentIsTrue(a)'
  BY <1>1, <1>2, <1>3, <1>4, <1>5, <1>6, <1>9, <1>10 DEF AgentIsTrue
<1>12. ResultIsTrue(d)'
  <2>1. Workers(d)' = Workers(d)
    BY <1>2, <1>5, <1>9 DEF Workers
  <2>2. a \notin Workers(d)
    BY <1>2 DEF Workers
  <2>3. a \notin dispatches[d].outputs \cup dispatches[d].errors
    BY <1>1, <1>2, <1>4 DEF ResultIsTrue
  <2>4. ASSUME NEW b \in Agent, b \in dispatches[d].outputs PROVE b \in Workers(d)
    <3>1. registry[b].dispatch = d /\ registry[b].at = "ended" /\ AgentIsTrue(b)
      BY <1>1, <2>4 DEF ResultIsTrue, MissionInv
    <3>2. ~registry[b].coordinator
      BY <1>1, <3>1 DEF AgentIsTrue
    <3>3. QED
      BY <3>1, <3>2 DEF Workers
  <2>5. dispatches[d].outputs \in SUBSET Agent
    BY <1>1 DEF MissionResult
  <2>6. dispatches[d].outputs = dispatches[d].outputs \cap Workers(d)
    BY <2>4, <2>5
  <2>7. \A b \in Workers(d) : registry'[b].at = "ended"
    BY <1>1, <1>9, <2>2 DEF WorkersEnded, Workers
  <2>8. \A b \in Agent : registry'[b].dispatch = d =>
           /\ registry'[b].state = "done" => b \in r.outputs
           /\ registry'[b].state = "failed" => b \in r.errors
    BY <1>1, <1>5, <1>6, <1>9 DEF ResultIsTrue
  <2>9. \A b \in Agent : b \in r.outputs \cup r.errors <=>
           registry'[b].dispatch = d /\ registry'[b].at = "ended"
    BY <1>1, <1>2, <1>5, <1>6, <1>9, <2>3 DEF ResultIsTrue
  <2>10. r.outputs \cap r.errors = {}
    BY <1>1, <1>6 DEF ResultIsTrue
  <2>11. registry'[r.coordinator].dispatch = d /\ registry'[r.coordinator].coordinator
    BY <1>2, <1>5, <1>6, <1>9
  <2>12. QED
    BY <1>1, <1>6, <1>10, <2>1, <2>6, <2>7, <2>8, <2>9, <2>10, <2>11
       DEF ResultIsTrue
<1>13. QED
  <2>1. g.coordinator = registry[a].coordinator /\ g.dispatch = registry[a].dispatch
    BY <1>2, <1>5
  <2>2. r.coordinator = dispatches[d].coordinator
    BY <1>0, <1>6
  <2>3. g.state # "absent" /\ d = g.dispatch
    BY <1>5
  <2>4. \A b, c \in Agent : b # a => history'[<<b, c>>] = history[<<b, c>>]
    BY <1>1
  <2>5. QED
    BY <1>2, <1>4, <1>5, <1>6, <1>7, <1>8, <1>11, <1>12, <2>1, <2>2, <2>3, <2>4,
       StepOfAgent

\* An agent ends once; it is none of the outputs or errors before.
LEMMA NextEnd ==
  ASSUME MissionInv, NEW a \in Agent, NEW ok \in BOOLEAN, End(a, ok)
  PROVE  MissionInv'
<1> USE MissionAssumption
<1>0. PICK d \in Dispatch : d = registry[a].dispatch
  BY DEF End, MissionInv, AgentIsTrue
<1> DEFINE s == IF ok THEN "done" ELSE "failed"
           g == [registry[a] EXCEPT !.at = "ended", !.state = s]
           r == [dispatches[d] EXCEPT
                   !.outputs = @ \cup (IF ok THEN {a} ELSE {}),
                   !.errors = @ \cup (IF ok THEN {} ELSE {a})]
<1>1. registry[a] \in AgentProcess /\ AgentIsTrue(a) /\ registry[a].at = "calling"
  BY DEF End, MissionInv, TypeOK
<1>2. registry[a].state # "absent"
  BY <1>1 DEF AgentIsTrue
<1>3. dispatches[d] \in MissionResult /\ ResultIsTrue(d)
  BY DEF MissionInv, TypeOK
<1>4. /\ g \in AgentProcess /\ g.state = s /\ g.at = "ended"
      /\ g.coordinator = registry[a].coordinator /\ g.dispatch = d
  BY <1>0, <1>1 DEF AgentProcess, AgentState
<1>5. /\ r \in MissionResult /\ r.pc = dispatches[d].pc
      /\ r.coordinator = dispatches[d].coordinator
      /\ r.outputs = dispatches[d].outputs \cup (IF ok THEN {a} ELSE {})
      /\ r.errors = dispatches[d].errors \cup (IF ok THEN {} ELSE {a})
      /\ r.summary = dispatches[d].summary
  BY <1>3 DEF MissionResult
<1>6. /\ registry' = [registry EXCEPT ![a] = g]
      /\ dispatches' = [dispatches EXCEPT ![d] = r]
      /\ send(a, Audience(a))
  BY <1>0 DEF End, MissionInv, TypeOK
<1>7. Audience(a) \in SUBSET Agent
  BY DEF Audience, list_by_mission
<1>8. \A c \in Agent : history[<<a, c>>] = 0
  BY <1>1 DEF AgentIsTrue
<1>9. /\ queue' \in [Agent -> SUBSET Agent]
      /\ history' \in [Agent \X Agent -> 0..1]
      /\ \A b, c \in Agent : b # a => history'[<<b, c>>] = history[<<b, c>>]
  BY <1>6, <1>7, <1>8, SendOnce
<1> HIDE DEF g, r
<1>10. registry'[a] = g /\ \A b \in Agent \ {a} : registry'[b] = registry[b]
  BY <1>6 DEF MissionInv, TypeOK
<1>11. dispatches'[d] = r
  BY <1>6 DEF MissionInv, TypeOK
<1>12. AgentIsTrue(a)'
  <2>1. d # Null /\ g.state \in {"done", "failed"}
    BY <1>4
  <2>2. QED
    BY <1>0, <1>1, <1>2, <1>4, <1>5, <1>10, <1>11, <2>1 DEF AgentIsTrue
<1>13. ResultIsTrue(d)'
  <2>2. Workers(d)' = Workers(d)
    BY <1>0, <1>4, <1>10 DEF Workers
  <2>3. a \notin dispatches[d].outputs \cup dispatches[d].errors
    BY <1>0, <1>1, <1>3 DEF ResultIsTrue
  <2>4. \A b \in Agent : registry'[b].dispatch = d =>
           /\ registry'[b].state = "done" => b \in r.outputs
           /\ registry'[b].state = "failed" => b \in r.errors
    BY <1>0, <1>3, <1>4, <1>5, <1>10 DEF ResultIsTrue
  <2>5. \A b \in Agent : b \in r.outputs \cup r.errors <=>
           registry'[b].dispatch = d /\ registry'[b].at = "ended"
    BY <1>0, <1>3, <1>4, <1>5, <1>10, <2>3 DEF ResultIsTrue
  <2>6. r.outputs \cap r.errors = {}
    BY <1>3, <1>5, <2>3 DEF ResultIsTrue
  <2>7. r.coordinator # Null =>
           /\ registry'[r.coordinator].dispatch = d
           /\ registry'[r.coordinator].coordinator
    <3>1. r.coordinator # Null => r.coordinator \in Agent
      BY <1>5 DEF MissionResult
    <3>2. QED
      BY <1>3, <1>4, <1>5, <1>10, <3>1 DEF ResultIsTrue
  <2>8. r.pc = "coordinator" =>
           /\ r.coordinator # Null
           /\ \A b \in Workers(d) : registry'[b].at = "ended"
           /\ r.summary = r.outputs \cap Workers(d)
    <3> SUFFICES ASSUME r.pc = "coordinator"
                 PROVE  /\ r.coordinator # Null
                        /\ \A b \in Workers(d) : registry'[b].at = "ended"
                        /\ r.summary = r.outputs \cap Workers(d)
      OBVIOUS
    <3>1. /\ dispatches[d].coordinator # Null
          /\ \A b \in Workers(d) : registry[b].at = "ended"
          /\ dispatches[d].summary = dispatches[d].outputs \cap Workers(d)
      BY <1>3, <1>5 DEF ResultIsTrue
    <3>2. a \notin Workers(d)
      BY <1>1, <3>1
    <3>3. \A b \in Workers(d) : b \in Agent /\ b # a
      BY <3>2 DEF Workers
    <3>4. QED
      BY <1>5, <1>10, <3>1, <3>2, <3>3
  <2>9. QED
    BY <1>11, <2>2, <2>4, <2>5, <2>6, <2>7, <2>8 DEF ResultIsTrue
<1>14. QED
  <2>1. g.state # "absent"
    BY <1>4
  <2>2. QED
    BY <1>0, <1>2, <1>4, <1>5, <1>6, <1>9, <1>12, <1>13, <2>1, StepOfAgent

\* A kill hides how far the agent came, and changes nothing else.
LEMMA NextKill ==
  ASSUME MissionInv, NEW a \in Agent, Kill(a)
  PROVE  MissionInv'
<1> USE MissionAssumption
<1>1. /\ registry[a] \in AgentProcess /\ AgentIsTrue(a)
      /\ registry[a].state # "absent"
      /\ UNCHANGED <<dispatches, history>>
  BY DEF Kill, MissionInv, TypeOK
<1>2. PICK d \in Dispatch : d = registry[a].dispatch
  BY <1>1 DEF AgentIsTrue
<1> DEFINE g == [registry[a] EXCEPT !.state = "killed"]
           r == dispatches[d]
<1>3. /\ g \in AgentProcess /\ g.state = "killed" /\ g.at = registry[a].at
      /\ g.coordinator = registry[a].coordinator /\ g.dispatch = d
  BY <1>1, <1>2 DEF AgentProcess, AgentState
<1>4. /\ registry' = [registry EXCEPT ![a] = g]
      /\ queue' = [queue EXCEPT ![a] = {}]
  BY DEF Kill, MissionInv, TypeOK
<1>5. /\ dispatches' = [dispatches EXCEPT ![d] = r] /\ r \in MissionResult
      /\ r = dispatches[d] /\ queue' \in [Agent -> SUBSET Agent]
      /\ history' \in [Agent \X Agent -> 0..1] /\ history' = history
  BY <1>1, <1>4 DEF MissionInv, TypeOK
<1> HIDE DEF g, r
<1>6. registry'[a] = g /\ \A b \in Agent \ {a} : registry'[b] = registry[b]
  BY <1>4 DEF MissionInv, TypeOK
<1>7. AgentIsTrue(a)'
  <2>1. d # Null
    OBVIOUS
  <2>2. g.at \in {"queued", "calling", "ended"}
    BY <1>3 DEF AgentProcess
  <2>3. QED
    BY <1>1, <1>2, <1>3, <1>5, <1>6, <2>1, <2>2 DEF AgentIsTrue
<1>8. ResultIsTrue(d)'
  <2>1. ResultIsTrue(d) /\ dispatches'[d] = dispatches[d]
    BY <1>1 DEF MissionInv
  <2>2. \A b \in Agent :
          /\ registry'[b].at = registry[b].at
          /\ registry'[b].dispatch = registry[b].dispatch
          /\ registry'[b].coordinator = registry[b].coordinator
          /\ registry'[b].state \in {registry[b].state, "killed"}
    BY <1>2, <1>3, <1>6
  <2>3. Workers(d)' = Workers(d)
    BY <2>2 DEF Workers
  <2>4. \A b \in Workers(d) : registry'[b].at = registry[b].at
    BY <2>2 DEF Workers
  <2>5. dispatches[d].coordinator # Null => dispatches[d].coordinator \in Agent
    BY <1>5 DEF MissionResult
  <2>6. QED
    BY <2>1, <2>2, <2>3, <2>4, <2>5 DEF ResultIsTrue
<1>9. QED
  <2>1. g.state # "absent"
    BY <1>3
  <2>2. QED
    BY <1>1, <1>2, <1>3, <1>4, <1>5, <1>6, <1>7, <1>8, <2>1, StepOfAgent

LEMMA NextComplete ==
  ASSUME MissionInv, NEW d \in Dispatch, Complete(d)
  PROVE  MissionInv'
<1>1. /\ dispatches' = [dispatches EXCEPT ![d].pc = "done"]
      /\ dispatches \in [Dispatch -> MissionResult]
      /\ dispatches[d].pc # "idle"
      /\ UNCHANGED <<registry, queue, history>>
  BY DEF Complete, MissionInv, TypeOK
<1> DEFINE r == [dispatches[d] EXCEPT !.pc = "done"]
<1>2. /\ r \in MissionResult /\ r.pc = "done"
      /\ r.outputs = dispatches[d].outputs /\ r.errors = dispatches[d].errors
      /\ r.coordinator = dispatches[d].coordinator
  BY <1>1 DEF MissionResult
<1>3. dispatches' = [dispatches EXCEPT ![d] = r]
  BY <1>1
<1> HIDE DEF r
<1>4. dispatches'[d] = r /\ \A x \in Dispatch \ {d} : dispatches'[x] = dispatches[x]
  BY <1>1, <1>3
<1>5. TypeOK' /\ InOrder'
  BY <1>1, <1>2, <1>3 DEF MissionInv, TypeOK, InOrder
<1>6. ASSUME NEW b \in Agent PROVE AgentIsTrue(b)'
  <2>1. AgentIsTrue(b) /\ registry' = registry /\ history' = history
    BY <1>1 DEF MissionInv
  <2>2. ASSUME NEW x \in Dispatch
        PROVE  /\ dispatches'[x].coordinator = dispatches[x].coordinator
               /\ dispatches'[x].pc \in {dispatches[x].pc, "done"}
    BY <1>2, <1>4
  <2>3. registry[b].state = "absent" => registry[b].dispatch = Null
                                       /\ registry[b].at = "queued"
    BY <2>1 DEF AgentIsTrue
  <2>4. registry[b].state # "absent" => registry[b].dispatch \in Dispatch
    BY <2>1 DEF AgentIsTrue
  <2>5. QED
    BY <2>1, <2>2, <2>3, <2>4 DEF AgentIsTrue
<1>7. ASSUME NEW x \in Dispatch PROVE ResultIsTrue(x)'
  <2>1. ResultIsTrue(x) /\ registry' = registry /\ Workers(x)' = Workers(x)
    BY <1>1 DEF MissionInv, Workers
  <2>2. CASE x = d
    BY <1>2, <1>4, <2>1, <2>2 DEF ResultIsTrue
  <2>3. CASE x # d
    <3>1. dispatches'[x] = dispatches[x]
      BY <1>4, <2>3
    <3>2. QED
      BY <2>1, <3>1 DEF ResultIsTrue
  <2>4. QED
    BY <2>2, <2>3
<1>8. QED
  BY <1>5, <1>6, <1>7 DEF MissionInv

LEMMA NextMission == MissionInv /\ [Next]_vars => MissionInv'
<1> SUFFICES ASSUME MissionInv, [Next]_vars PROVE MissionInv'
  OBVIOUS
<1>1. CASE UNCHANGED vars
  <2>1. UNCHANGED <<registry, dispatches, queue, history>>
    BY <1>1 DEF vars
  <2>2. TypeOK' /\ InOrder'
    BY <2>1 DEF MissionInv, TypeOK, InOrder
  <2>3. \A a \in Agent : AgentIsTrue(a)'
    BY <2>1 DEF MissionInv, AgentIsTrue
  <2>4. \A d \in Dispatch : ResultIsTrue(d)'
    BY <2>1 DEF MissionInv, ResultIsTrue, Workers
  <2>5. QED
    BY <2>2, <2>3, <2>4 DEF MissionInv
<1>2. ASSUME NEW d \in Dispatch, NEW m \in Mission, NEW crew \in Crew,
             Start(d, m, crew)
      PROVE  MissionInv'
  BY <1>2, NextStart
<1>3. ASSUME NEW d \in Dispatch, Proceed(d) PROVE MissionInv'
  <2>1. ASSUME NEW a \in Agent, RunWorker(a) PROVE MissionInv'
    BY <2>1, NextRunWorker
  <2>2. ASSUME NEW a \in Agent, NEW ok \in BOOLEAN, End(a, ok) PROVE MissionInv'
    BY <2>2, NextEnd
  <2>3. CASE RunCoordinator(d)
    BY <2>3, NextRunCoordinator
  <2>4. CASE Complete(d)
    BY <2>4, NextComplete
  <2>5. QED
    BY <1>3, <2>1, <2>2, <2>3, <2>4 DEF Proceed
<1>4. ASSUME NEW a \in Agent, Kill(a) PROVE MissionInv'
  BY <1>4, NextKill
<1>5. QED
  BY <1>1, <1>2, <1>3, <1>4 DEF Next

LEMMA InitMission == Init => MissionInv
<1> SUFFICES ASSUME Init PROVE MissionInv
  OBVIOUS
<1> USE MissionAssumption
<1>1. NoAgent \in AgentProcess /\ NoResult \in MissionResult
  BY DEF NoAgent, AgentProcess, AgentState, NoResult, MissionResult
<1>2. /\ \A a \in Agent : registry[a] = NoAgent /\ queue[a] = {}
      /\ \A d \in Dispatch : dispatches[d] = NoResult
      /\ \A a, c \in Agent : history[<<a, c>>] = 0
  BY DEF Init
<1>3. TypeOK
  BY <1>1 DEF Init, TypeOK
<1>4. InOrder
  <2>1. \A a \in Agent : registry[a].state = "absent" <=> a > 0
    BY <1>2 DEF NoAgent, Agent
  <2>2. QED
    BY <2>1 DEF InOrder
<1>5. ASSUME NEW a \in Agent PROVE AgentIsTrue(a)
  BY <1>2 DEF AgentIsTrue, NoAgent
<1>6. ASSUME NEW d \in Dispatch PROVE ResultIsTrue(d)
  <2>1. d # Null
    OBVIOUS
  <2>2. \A a \in Agent : registry[a].dispatch # d
    BY <1>2, <2>1 DEF NoAgent
  <2>3. QED
    BY <1>2, <2>2 DEF ResultIsTrue, NoResult
<1>7. QED
  BY <1>3, <1>4, <1>5, <1>6 DEF MissionInv

\* In every reachable state of the fleet the registry, the results of the
\* dispatches and the messages sent agree, whatever is killed and when.
THEOREM MissionInvariance == Spec => []MissionInv
<1>1. QED
  BY InitMission, NextMission, PTL DEF Spec

----------------------------------------------------------------------------
\* Agents, dispatches and messages hold values of their types; in particular
\* no agent's message reaches a coordinator twice.
THEOREM MissionTypes == Spec => []TypeOK
<1>1. MissionInv => TypeOK
  BY DEF MissionInv
<1>2. QED
  BY MissionInvariance, <1>1, PTL

\* The registry and the result of a mission tell the same story, for any
\* number of agents and dispatches: a kill before, during or after the run of
\* an agent cannot leave the two apart (AgentDispatcher._run_agent against
\* kill_agent).
THEOREM RegistryAgreesWithResults == Spec => []StatesMatchResults
<1>1. MissionInv => StatesMatchResults
  BY DEF MissionInv, ResultIsTrue, StatesMatchResults
<1>2. QED
  BY MissionInvariance, <1>1, PTL

\* A coordinator is run after every worker of its own dispatch has ended, and
\* its prompt has all of their outputs and no others, also when two dispatches
\* share a mission.
THEOREM CoordinatorHasAllOutputs == Spec => []CoordinatorSeesEveryWorker
<1>1. MissionInv => CoordinatorSeesEveryWorker
  BY DEF MissionInv, ResultIsTrue, CoordinatorSeesEveryWorker
<1>2. QED
  BY MissionInvariance, <1>1, PTL

\* At most one agent of a dispatch is run as its coordinator, however many its
\* request asks for: the others stay queued.
THEOREM OneCoordinatorRuns ==
  Spec => [](\A a, b \in Agent :
               /\ registry[a].dispatch = registry[b].dispatch
               /\ registry[a].coordinator /\ registry[b].coordinator
               /\ registry[a].at # "queued" /\ registry[b].at # "queued"
               => a = b)
<1> DEFINE One == \A a, b \in Agent :
               /\ registry[a].dispatch = registry[b].dispatch
               /\ registry[a].coordinator /\ registry[b].coordinator
               /\ registry[a].at # "queued" /\ registry[b].at # "queued"
               => a = b
<1>1. MissionInv => One
  BY DEF MissionInv, AgentIsTrue
<1>2. QED
  BY MissionInvariance, <1>1, PTL

(* Sorted lists                                                            *)

\* Sorting lists each index once, from the highest value down, equals as they were.
Listed(S, value, r, n) ==
    /\ n \in Nat /\ DOMAIN r = 1 .. n
    /\ \A k \in 1 .. n : r[k] \in S
    /\ \A i \in S : \E k \in 1 .. n : r[k] = i
    /\ \A x, y \in 1 .. n : x < y =>
          \/ value[r[x]] > value[r[y]]
          \/ value[r[x]] = value[r[y]] /\ r[x] < r[y]

LEMMA DescendingLists ==
  ASSUME NEW S, S \subseteq Nat, IsFiniteSet(S), NEW value, \A i \in S : value[i] \in Nat
  PROVE  Listed(S, value, Descending(S, value), Cardinality(S))
<1> SUFFICES ASSUME NEW n, n = Cardinality(S), NEW r, r = Descending(S, value)
             PROVE  Listed(S, value, r, n)
  OBVIOUS
<1> DEFINE L == {p \in S \X S : \/ value[p[1]] > value[p[2]]
                                \/ value[p[1]] = value[p[2]] /\ p[1] < p[2]}
<1>1. n \in Nat
  BY FS_CardinalityType
<1>2. DOMAIN r = 1 .. n
  BY DEF Descending
<1>3. \A i \in S : i \in Nat /\ value[i] \in Nat
  OBVIOUS
<1>4. \A i, j \in S : <<i, j>> \in L <=>
         \/ value[i] > value[j]
         \/ value[i] = value[j] /\ i < j
  OBVIOUS
<1>5. \A i \in S : Above(S, value, i) =
         {j \in S : value[j] > value[i] \/ (value[j] = value[i] /\ j < i)}
  BY DEF Above
<1> HIDE DEF L
<1>6. StrictOrder(S, L)
  <2>1. \A i \in S : <<i, i>> \notin L
    BY <1>3, <1>4
  <2>2. ASSUME NEW i \in S, NEW j \in S, NEW k \in S, <<i, j>> \in L, <<j, k>> \in L
        PROVE  <<i, k>> \in L
    BY <1>3, <1>4, <2>2
  <2>3. \A i, j \in S : i # j => <<i, j>> \in L \/ <<j, i>> \in L
    BY <1>3, <1>4
  <2>4. QED
    BY <2>1, <2>2, <2>3 DEF StrictOrder
<1>7. ASSUME NEW i \in S PROVE Cardinality(Above(S, value, i)) = RankIn(S, L, i)
  <2>1. Above(S, value, i) = {j \in S : <<j, i>> \in L}
    BY <1>4, <1>5
  <2>2. QED
    BY <2>1 DEF RankIn
<1>8. /\ \A i, j \in S : RankIn(S, L, i) < RankIn(S, L, j) <=> <<i, j>> \in L
      /\ \A k \in 1 .. n : \E i \in S : RankIn(S, L, i) = k - 1
      /\ \A i \in S : RankIn(S, L, i) \in 0 .. (n - 1)
      /\ \A i, j \in S : RankIn(S, L, i) = RankIn(S, L, j) => i = j
  <2>1. PICK M : M = L
    OBVIOUS
  <2>2. StrictOrder(S, M)
    BY <1>6, <2>1
  <2>3. RanksInOrder(S, M, n)
    BY <2>2, RanksFill
  <2>4. RanksInOrder(S, L, n)
    BY <2>1, <2>3
  <2>5. QED
    BY <2>4 DEF RanksInOrder
<1>9. ASSUME NEW k \in 1 .. n
      PROVE  r[k] \in S /\ RankIn(S, L, r[k]) = k - 1
  <2>1. \E i \in S : Cardinality(Above(S, value, i)) = k - 1
    BY <1>7, <1>8
  <2>2. r[k] = CHOOSE i \in S : Cardinality(Above(S, value, i)) = k - 1
    BY DEF Descending
  <2>3. r[k] \in S /\ Cardinality(Above(S, value, r[k])) = k - 1
    BY <2>1, <2>2
  <2>4. QED
    BY <1>7, <2>3
<1>10. ASSUME NEW i \in S PROVE \E k \in 1 .. n : r[k] = i
  <2>1. PICK k : k = RankIn(S, L, i) + 1
    OBVIOUS
  <2>2. k \in 1 .. n /\ RankIn(S, L, i) = k - 1
    BY <1>1, <1>8, <2>1
  <2>3. QED
    BY <1>8, <1>9, <2>2
<1>11. ASSUME NEW x \in 1 .. n, NEW y \in 1 .. n, x < y PROVE <<r[x], r[y]>> \in L
  <2>1. PICK a, b : a = RankIn(S, L, r[x]) /\ b = RankIn(S, L, r[y])
    OBVIOUS
  <2>2. a = x - 1 /\ b = y - 1
    BY <1>9, <2>1
  <2>3. a < b
    BY <1>1, <1>11, <2>2
  <2>4. QED
    BY <1>8, <1>9, <2>1, <2>3
<1>12. ASSUME NEW x \in 1 .. n, NEW y \in 1 .. n, x < y
       PROVE  \/ value[r[x]] > value[r[y]]
              \/ value[r[x]] = value[r[y]] /\ r[x] < r[y]
  BY <1>4, <1>9, <1>11, <1>12
<1>13. QED
  BY <1>1, <1>2, <1>9, <1>10, <1>12 DEF Listed

(* Several models at once                                                  *)

CallOf(c) ==
    \/ c.state = "running"
    \/ c.state = "failed"
    \/ c.state = "answered" /\ c.score \in Nat

EndedOk ==
    /\ Len(ended) \in Nat /\ DOMAIN ended = 1 .. Len(ended)
    /\ \A k \in DOMAIN ended : ended[k] \in DOMAIN calls /\ calls[ended[k]].state # "running"
    /\ \A i \in DOMAIN calls : calls[i].state # "running" => \E k \in DOMAIN ended : ended[k] = i

\* The k-th call to end failed, and the ones before it did not.
FirstFailure(k) ==
    /\ k \in DOMAIN ended /\ ~Succeeded(calls[ended[k]])
    /\ \A j \in DOMAIN ended : j < k => Succeeded(calls[ended[j]])

AnswerOk ==
    \/ answer = Unanswered /\ \A k \in DOMAIN ended : Succeeded(calls[ended[k]])
    \/ /\ answer = [status |-> 200, results |-> Collected(calls, ended)]
       /\ \A i \in DOMAIN calls : Succeeded(calls[i])
    \/ \E k \in DOMAIN ended : FirstFailure(k) /\ answer = ErrorOf(calls[ended[k]])

ComparisonInv ==
    /\ Len(models) \in Nat /\ DOMAIN models = 1 .. Len(models)
    /\ calls = [i \in DOMAIN models |-> calls[i]]
    /\ \A i \in DOMAIN calls : CallOf(calls[i])
    /\ EndedOk
    /\ models # <<>> => AnswerOk

LEMMA ComparisonStarts == ComparisonInit => ComparisonInv
<1>1. QED
  BY DEF ComparisonInit, ComparisonInv, EndedOk

LEMMA AskModelsKeeps ==
  ASSUME ComparisonInv, AskModels
  PROVE  ComparisonInv'
<1>1. models = <<>> /\ answer = Unanswered /\ ended' = ended
  BY DEF AskModels
<1>2. DOMAIN ended = {} /\ EndedOk
  <2>1. DOMAIN calls = {}
    BY <1>1 DEF ComparisonInv
  <2>2. QED
    BY <2>1 DEF ComparisonInv, EndedOk
<1>3. PICK names : /\ names \in Asked
                   /\ LET found == [i \in DOMAIN names |-> Found(names[i])]
                      IN  IF NotFound \in Range(found)
                          THEN answer' = Error(404) /\ UNCHANGED <<models, calls>>
                          ELSE /\ models' = found
                               /\ calls' = [i \in DOMAIN found |-> [state |-> "running"]]
                               /\ UNCHANGED answer
  BY DEF AskModels
<1>4. Len(names) \in Nat /\ DOMAIN names = 1 .. Len(names)
  BY <1>3, ComparisonAssumption
<1>5. CASE UNCHANGED <<models, calls>>
  BY <1>1, <1>2, <1>5 DEF ComparisonInv, EndedOk
<1>6. CASE /\ models' = [i \in DOMAIN names |-> Found(names[i])]
           /\ calls' = [i \in DOMAIN names |-> [state |-> "running"]]
           /\ UNCHANGED answer
  <2>1. DOMAIN models' = 1 .. Len(names) /\ Len(models') = Len(names)
    BY <1>4, <1>6
  <2>2. calls' = [i \in DOMAIN models' |-> calls'[i]] /\ \A i \in DOMAIN calls' : calls'[i].state = "running"
    BY <1>4, <1>6
  <2>3. EndedOk'
    BY <1>1, <1>2, <2>2 DEF EndedOk
  <2>4. AnswerOk'
    BY <1>1, <1>2, <1>6 DEF AnswerOk
  <2>5. QED
    BY <1>4, <2>1, <2>2, <2>3, <2>4 DEF ComparisonInv, CallOf
<1>7. QED
  BY <1>3, <1>5, <1>6

\* A call that ends is the next in the row, and what it changes of the answer is
\* only the first failure's to say, or the last success's.
LEMMA CallEndsKeeps ==
  ASSUME ComparisonInv, NEW i, i \in DOMAIN calls, CallEnds(i)
  PROVE  ComparisonInv'
<1>1. PICK o : /\ o \in Outcomes
               /\ calls' = [calls EXCEPT ![i] = o]
               /\ ended' = Append(ended, i)
               /\ answer' = IF answer # Unanswered THEN answer
                            ELSE IF ~Succeeded(o) THEN ErrorOf(o)
                            ELSE IF \A j \in DOMAIN calls : Succeeded(calls'[j])
                            THEN [status |-> 200, results |-> Collected(calls', ended')]
                            ELSE Unanswered
  BY DEF CallEnds
<1>2. calls[i].state = "running" /\ models' = models /\ service' = service
  BY DEF CallEnds
<1>3. o.state = "failed" \/ (o.state = "answered" /\ o.score \in Nat)
  <2>1. CASE o \in [state : {"failed"}, error : {"ValueError", "other"}]
    BY <2>1
  <2>2. CASE o \in {[state |-> "answered", score |-> Score(n, f)] : n \in Lengths, f \in {"stop", "stubbed", "length"}}
    <3>1. PICK n \in Lengths, f \in {"stop", "stubbed", "length"} :
             o = [state |-> "answered", score |-> Score(n, f)]
      BY <2>2
    <3>2. n \in Nat
      BY <3>1, ComparisonAssumption
    <3>3. Score(n, f) \in Nat
      BY <3>2 DEF Score
    <3>4. QED
      BY <3>1, <3>3
  <2>3. QED
    BY <1>1, <2>1, <2>2 DEF Outcomes
<1>4. PICK m \in Nat : m = Len(ended) /\ DOMAIN ended = 1 .. m
  BY DEF ComparisonInv, EndedOk
<1>5. /\ Len(ended') = m + 1 /\ DOMAIN ended' = 1 .. m + 1
      /\ ended'[m + 1] = i /\ \A k \in 1 .. m : ended'[k] = ended[k]
  BY <1>1, <1>4
<1>6. /\ DOMAIN calls' = DOMAIN calls /\ calls'[i] = o
      /\ \A j \in DOMAIN calls : j # i => calls'[j] = calls[j]
      /\ calls' = [j \in DOMAIN models |-> calls'[j]]
  BY <1>1 DEF ComparisonInv
<1>7. ASSUME NEW k \in 1 .. m
      PROVE  ended[k] \in DOMAIN calls /\ ended[k] # i /\ calls'[ended'[k]] = calls[ended[k]]
  <2>1. ended[k] \in DOMAIN calls /\ calls[ended[k]].state # "running"
    BY <1>4 DEF ComparisonInv, EndedOk
  <2>2. QED
    BY <1>2, <1>5, <1>6, <2>1
<1>8. \A j \in DOMAIN calls' : CallOf(calls'[j])
  BY <1>3, <1>6 DEF ComparisonInv, CallOf
<1>9. EndedOk'
  <2>1. Len(ended') \in Nat /\ DOMAIN ended' = 1 .. Len(ended')
    BY <1>4, <1>5
  <2>2. ASSUME NEW k \in 1 .. m + 1
        PROVE  ended'[k] \in DOMAIN calls' /\ calls'[ended'[k]].state # "running"
    <3>1. CASE k = m + 1
      BY <1>3, <1>5, <1>6, <3>1
    <3>2. CASE k # m + 1
      <4>1. k \in 1 .. m
        BY <1>4, <3>2
      <4>2. calls[ended[k]].state # "running"
        BY <1>4, <4>1 DEF ComparisonInv, EndedOk
      <4>3. QED
        BY <1>5, <1>6, <1>7, <4>1, <4>2
    <3>3. QED
      BY <3>1, <3>2
  <2>3. ASSUME NEW j \in DOMAIN calls', calls'[j].state # "running"
        PROVE  \E k \in 1 .. m + 1 : ended'[k] = j
    <3>1. CASE j = i
      BY <1>4, <1>5, <3>1
    <3>2. CASE j # i
      <4>1. j \in DOMAIN calls /\ calls[j].state # "running"
        BY <1>6, <2>3, <3>2
      <4>2. PICK k \in 1 .. m : ended[k] = j
        BY <1>4, <4>1 DEF ComparisonInv, EndedOk
      <4>3. QED
        BY <1>4, <1>5, <4>2
    <3>3. QED
      BY <3>1, <3>2
  <2>4. QED
    BY <1>5, <2>1, <2>2, <2>3 DEF EndedOk
<1>10. ASSUME models' # <<>> PROVE AnswerOk'
  <2>1. AnswerOk
    BY <1>2, <1>10 DEF ComparisonInv
  <2>2. CASE answer = Unanswered /\ \A k \in DOMAIN ended : Succeeded(calls[ended[k]])
    <3>1. \A k \in 1 .. m : Succeeded(calls'[ended'[k]])
      BY <1>4, <1>7, <2>2
    <3>2. CASE ~Succeeded(o)
      <4>1. answer' = ErrorOf(calls'[ended'[m + 1]])
        BY <1>1, <1>5, <1>6, <2>2, <3>2
      <4>2. FirstFailure(m + 1)'
        BY <1>4, <1>5, <1>6, <3>1, <3>2 DEF FirstFailure
      <4>3. answer' = ErrorOf(calls[ended[m + 1]])'
        BY <1>2, <4>1 DEF ErrorOf
      <4>4. QED
        BY <1>4, <1>5, <4>2, <4>3 DEF AnswerOk
    <3>3. CASE Succeeded(o) /\ \A j \in DOMAIN calls : Succeeded(calls'[j])
      <4>1. answer' = [status |-> 200, results |-> Collected(calls', ended')]
        BY <1>1, <2>2, <3>3
      <4>2. Collected(calls', ended') = Collected(calls, ended)'
        BY <1>2 DEF Collected
      <4>3. QED
        BY <1>6, <3>3, <4>1, <4>2 DEF AnswerOk
    <3>4. CASE Succeeded(o) /\ ~\A j \in DOMAIN calls : Succeeded(calls'[j])
      <4>1. answer' = Unanswered
        BY <1>1, <2>2, <3>4
      <4>2. \A k \in 1 .. m + 1 : Succeeded(calls'[ended'[k]])
        BY <1>4, <1>5, <1>6, <3>1, <3>4
      <4>3. QED
        BY <1>5, <4>1, <4>2 DEF AnswerOk
    <3>5. QED
      BY <3>2, <3>3, <3>4
  <2>3. CASE \A j \in DOMAIN calls : Succeeded(calls[j])
    BY <1>2, <2>3 DEF Succeeded
  <2>4. CASE \E k \in DOMAIN ended : FirstFailure(k) /\ answer = ErrorOf(calls[ended[k]])
    <3>1. PICK k \in 1 .. m : FirstFailure(k) /\ answer = ErrorOf(calls[ended[k]])
      BY <1>4, <2>4
    <3>2. answer # Unanswered
      BY <3>1, ComparisonAssumption DEF ErrorOf, Error
    <3>3. FirstFailure(k)'
      BY <1>4, <1>5, <1>7, <3>1 DEF FirstFailure
    <3>4. answer' = answer
      BY <1>1, <3>2
    <3>5. ErrorOf(calls[ended[k]])' = ErrorOf(calls[ended[k]])
      BY <1>2, <1>7 DEF ErrorOf
    <3>6. QED
      BY <1>4, <1>5, <3>1, <3>3, <3>4, <3>5 DEF AnswerOk
  <2>5. QED
    BY <2>1, <2>2, <2>3, <2>4 DEF AnswerOk
<1>11. QED
  BY <1>2, <1>6, <1>8, <1>9, <1>10 DEF ComparisonInv

LEMMA ComparisonKeeps == ComparisonInv /\ [ComparisonNext]_comparisonVars => ComparisonInv'
<1> SUFFICES ASSUME ComparisonInv, [ComparisonNext]_comparisonVars PROVE ComparisonInv'
  OBVIOUS
<1>1. CASE AskModels
  BY <1>1, AskModelsKeeps
<1>2. CASE \E i \in DOMAIN calls : CallEnds(i)
  BY <1>2, CallEndsKeeps
<1>3. CASE UNCHANGED comparisonVars
  <2>1. EndedOk' = EndedOk
    BY <1>3 DEF comparisonVars, EndedOk
  <2>2. AnswerOk' = AnswerOk
    BY <1>3 DEF comparisonVars, AnswerOk, FirstFailure, Collected, ErrorOf
  <2>3. QED
    BY <1>3, <2>1, <2>2 DEF comparisonVars, ComparisonInv
<1>4. QED
  BY <1>1, <1>2, <1>3 DEF ComparisonNext

THEOREM ComparisonInvariance == ComparisonSpec => []ComparisonInv
<1>1. QED
  BY ComparisonStarts, ComparisonKeeps, PTL DEF ComparisonSpec

\* For any models, answers and scores, in whatever order the calls end, an answer is
\* one of all of them in their order, or the error of the first that failed.
THEOREM AnswersAreOfTheWhole == ComparisonSpec => []AnswerIsOfTheWhole
<1>1. ComparisonInv => AnswerIsOfTheWhole
  <2> SUFFICES ASSUME ComparisonInv, answer # Unanswered, models # <<>>
               PROVE  AnswerIsOfTheWhole
    BY DEF AnswerIsOfTheWhole
  <2>1. PICK n \in Nat : /\ DOMAIN calls = 1 .. n /\ DOMAIN models = 1 .. n
    BY DEF ComparisonInv
  <2>2. PICK m \in Nat : DOMAIN ended = 1 .. m
    BY DEF ComparisonInv, EndedOk
  <2>3. EndedOk
    BY DEF ComparisonInv
  <2>4. CASE /\ answer = [status |-> 200, results |-> Collected(calls, ended)]
             /\ \A i \in DOMAIN calls : Succeeded(calls[i])
    <3>1. {k \in DOMAIN ended : ~Succeeded(calls[ended[k]])} = {}
      BY <2>3, <2>4 DEF EndedOk
    <3>2. Range(ended) = DOMAIN models
      BY <2>1, <2>3, <2>4 DEF EndedOk, Range, Succeeded
    <3>3. PICK value : value = [i \in 1 .. n |-> calls[i].score]
      OBVIOUS
    <3>4. PICK r : r = Collected(calls, ended)
      OBVIOUS
    <3>5. /\ DOMAIN r = 1 .. n /\ Range(r) = 1 .. n
          /\ \A x, y \in 1 .. n : x < y =>
                IF service = "compare" THEN r[x] < r[y]
                ELSE \/ calls[r[x]].score > calls[r[y]].score
                     \/ calls[r[x]].score = calls[r[y]].score /\ r[x] < r[y]
      <4>1. CASE service = "compare"
        BY <2>1, <3>4, <4>1 DEF Collected, Range
      <4>2. CASE service # "compare"
        <5>1. r = Descending(1 .. n, value)
          BY <2>1, <3>3, <3>4, <4>2 DEF Collected
        <5>2. 1 .. n \subseteq Nat /\ IsFiniteSet(1 .. n) /\ Cardinality(1 .. n) = n
          BY FS_Interval
        <5>3. \A i \in 1 .. n : value[i] = calls[i].score /\ value[i] \in Nat
          BY <2>1, <2>4, <3>3 DEF ComparisonInv, CallOf, Succeeded
        <5>4. /\ DOMAIN r = 1 .. n
              /\ \A k \in 1 .. n : r[k] \in 1 .. n
              /\ \A i \in 1 .. n : \E k \in 1 .. n : r[k] = i
              /\ \A x, y \in 1 .. n : x < y =>
                    \/ value[r[x]] > value[r[y]]
                    \/ value[r[x]] = value[r[y]] /\ r[x] < r[y]
          <6>1. PICK S : S = 1 .. n
            OBVIOUS
          <6>2. S \subseteq Nat /\ IsFiniteSet(S) /\ n = Cardinality(S) /\ r = Descending(S, value)
            BY <5>1, <5>2, <6>1
          <6>3. \A i \in S : value[i] \in Nat
            BY <5>3, <6>1
          <6>4. Listed(S, value, r, n)
            BY <6>2, <6>3, DescendingLists
          <6>5. QED
            BY <6>1, <6>4 DEF Listed
        <5>5. Range(r) = 1 .. n
          BY <5>4 DEF Range
        <5>6. ASSUME NEW x \in 1 .. n, NEW y \in 1 .. n, x < y
              PROVE  \/ calls[r[x]].score > calls[r[y]].score
                     \/ calls[r[x]].score = calls[r[y]].score /\ r[x] < r[y]
          <6>1. PICK a \in 1 .. n, b \in 1 .. n : a = r[x] /\ b = r[y]
            BY <5>4
          <6>2. value[a] > value[b] \/ (value[a] = value[b] /\ a < b)
            BY <5>4, <5>6, <6>1
          <6>3. value[a] = calls[a].score /\ value[b] = calls[b].score
            BY <5>3
          <6>4. QED
            BY <6>1, <6>2, <6>3
        <5>7. QED
          BY <4>2, <5>4, <5>5, <5>6
      <4>3. QED
        BY <4>1, <4>2
    <3>6. answer.status = 200 /\ answer.results = r
      BY <2>4, <3>4
    <3>7. QED
      BY <2>1, <3>1, <3>2, <3>5, <3>6 DEF AnswerIsOfTheWhole
  <2>5. CASE \E k \in DOMAIN ended : FirstFailure(k) /\ answer = ErrorOf(calls[ended[k]])
    <3>1. PICK k \in 1 .. m : FirstFailure(k) /\ answer = ErrorOf(calls[ended[k]])
      BY <2>2, <2>5
    <3>2. PICK failures : failures = {j \in DOMAIN ended : ~Succeeded(calls[ended[j]])}
      OBVIOUS
    <3>3. k \in failures /\ \A j \in failures : k <= j
      BY <2>2, <3>1, <3>2 DEF FirstFailure
    <3>4. \A i \in failures : (\A j \in failures : i <= j) => i = k
      BY <2>2, <3>2, <3>3
    <3>5. (CHOOSE i \in failures : \A j \in failures : i <= j) = k
      BY <3>3, <3>4
    <3>6. answer.status # 200
      BY <3>1 DEF ErrorOf, Error
    <3>7. QED
      BY <3>1, <3>2, <3>3, <3>5, <3>6 DEF AnswerIsOfTheWhole
  <2>6. QED
    BY <2>4, <2>5 DEF ComparisonInv, AnswerOk
<1>2. QED
  BY <1>1, ComparisonInvariance, PTL

(* Model selection of the kernel                                           *)

\* A sum that is made number by number.
Adds(numbers, n, sum) ==
    sum = [k \in 0 .. n |-> IF k = 0 THEN 0 ELSE sum[k - 1] + numbers[k]]

LEMMA SumGoesOn ==
  ASSUME NEW numbers, NEW k \in Nat, k # 0, NEW f, Adds(numbers, k - 1, f)
  PROVE  \E sum : Adds(numbers, k, sum)
<1>1. PICK g : g = [j \in 0 .. k |-> IF j = k THEN f[k - 1] + numbers[k] ELSE f[j]]
  OBVIOUS
<1>2. f = [j \in 0 .. (k - 1) |-> IF j = 0 THEN 0 ELSE f[j - 1] + numbers[j]]
  BY DEF Adds
<1>3. ASSUME NEW j \in 0 .. k
      PROVE  g[j] = IF j = 0 THEN 0 ELSE g[j - 1] + numbers[j]
  <2>1. CASE j = k
    <3>1. g[k] = f[k - 1] + numbers[k] /\ g[k - 1] = f[k - 1]
      BY <1>1
    <3>2. QED
      BY <2>1, <3>1
  <2>2. CASE j # k
    <3>1. j \in 0 .. (k - 1) /\ g[j] = f[j]
      BY <1>1, <2>2
    <3>2. j # 0 => g[j - 1] = f[j - 1]
      BY <1>1, <2>2
    <3>3. f[j] = IF j = 0 THEN 0 ELSE f[j - 1] + numbers[j]
      BY <1>2, <3>1
    <3>4. QED
      BY <3>1, <3>2, <3>3
  <2>3. QED
    BY <2>1, <2>2
<1>4. g = [j \in 0 .. k |-> IF j = 0 THEN 0 ELSE g[j - 1] + numbers[j]]
  BY <1>1, <1>3
<1>5. QED
  BY <1>4 DEF Adds

LEMMA SumsExist ==
  ASSUME NEW numbers, NEW n \in Nat
  PROVE  \E sum : Adds(numbers, n, sum)
<1>1. PICK G : G = {k \in 0 .. n : \E sum : Adds(numbers, k, sum)}
  OBVIOUS
<1>2. 0 \in G
  <2>1. Adds(numbers, 0, [j \in 0 .. 0 |-> 0])
    BY DEF Adds
  <2>2. QED
    BY <1>1, <2>1
<1>3. ASSUME NEW k \in 1 .. n, k - 1 \in G PROVE k \in G
  <2>1. PICK f : Adds(numbers, k - 1, f)
    BY <1>1, <1>3
  <2>2. \E sum : Adds(numbers, k, sum)
    BY <2>1, SumGoesOn
  <2>3. QED
    BY <1>1, <2>2
<1>4. n \in G
  BY <1>2, <1>3, CountingUp
<1>5. QED
  BY <1>1, <1>4

LEMMA TotalAdds ==
  ASSUME NEW numbers, NEW n \in Nat, Len(numbers) = n
  PROVE  \E sum : Adds(numbers, n, sum) /\ Total(numbers) = sum[n]
<1>1. PICK sum : sum = CHOOSE f : Adds(numbers, n, f)
  OBVIOUS
<1>2. Adds(numbers, n, sum)
  BY <1>1, SumsExist
<1>3. Total(numbers) = sum[n]
  BY <1>1 DEF Total, Adds
<1>4. QED
  BY <1>2, <1>3

\* Rounding to tenths of GB adds half a tenth at most.
LEMMA RoundingBound ==
  ASSUME NEW mb \in Nat
  PROVE  FreeOf(mb) \in Nat /\ FreeOf(mb) * 1024 <= mb * 10 + 512
<1>1. PICK t : t = (mb * 10) \div 1024
  OBVIOUS
<1>2. PICK rest : rest = (mb * 10) % 1024
  OBVIOUS
<1>3. t \in Nat /\ rest \in Nat /\ mb * 10 = 1024 * t + rest
  BY <1>1, <1>2
<1>4. FreeOf(mb) = IF rest > 512 \/ (rest = 512 /\ t % 2 = 1) THEN t + 1 ELSE t
  BY <1>1, <1>2 DEF FreeOf
<1>5. CASE rest > 512 \/ (rest = 512 /\ t % 2 = 1)
  <2>1. FreeOf(mb) = t + 1 /\ rest >= 512
    BY <1>3, <1>4, <1>5
  <2>2. QED
    BY <1>3, <2>1
<1>6. CASE ~(rest > 512 \/ (rest = 512 /\ t % 2 = 1))
  <2>1. FreeOf(mb) = t
    BY <1>4, <1>6
  <2>2. QED
    BY <1>3, <2>1
<1>7. QED
  BY <1>5, <1>6

\* Tenths of GB for the MB of n cards.
RoundedFrom(mb, tenths, n) ==
    mb \in Nat /\ tenths \in Nat /\ tenths * 1024 <= mb * 10 + 512 * n

LEMMA RoundedOneMore ==
  ASSUME NEW mb, NEW tenths, NEW n \in Nat, n # 0, RoundedFrom(mb, tenths, n - 1),
         NEW more \in Nat
  PROVE  RoundedFrom(mb + more, tenths + FreeOf(more), n)
<1>1. PICK t : t = FreeOf(more)
  OBVIOUS
<1>2. t \in Nat /\ t * 1024 <= more * 10 + 512
  BY <1>1, RoundingBound
<1>3. mb \in Nat /\ tenths \in Nat /\ tenths * 1024 <= mb * 10 + 512 * (n - 1)
  BY DEF RoundedFrom
<1>4. (tenths + t) * 1024 <= (mb + more) * 10 + 512 * n
  BY <1>2, <1>3
<1>5. QED
  BY <1>1, <1>2, <1>3, <1>4 DEF RoundedFrom

\* The free memory that is reported exceeds what is free by half a tenth per card.
LEMMA FreeMemoryBound ==
  ASSUME NEW cards, NEW n \in Nat, Len(cards) = n, DOMAIN cards = 1 .. n,
         \A i \in 1 .. n : cards[i] \in Nat
  PROVE  /\ FreeMemory(cards) \in Nat /\ Total(cards) \in Nat
         /\ RoundedFrom(Total(cards), FreeMemory(cards), n)
<1>1. PICK tenths : tenths = [i \in 1 .. n |-> FreeOf(cards[i])]
  OBVIOUS
<1>2. Len(tenths) = n /\ FreeMemory(cards) = Total(tenths)
  BY <1>1 DEF FreeMemory
<1>3. PICK shown : Adds(tenths, n, shown) /\ Total(tenths) = shown[n]
  BY <1>2, TotalAdds
<1>4. PICK real : Adds(cards, n, real) /\ Total(cards) = real[n]
  BY TotalAdds
<1>5. /\ shown = [k \in 0 .. n |-> IF k = 0 THEN 0 ELSE shown[k - 1] + tenths[k]]
      /\ real = [k \in 0 .. n |-> IF k = 0 THEN 0 ELSE real[k - 1] + cards[k]]
  BY <1>3, <1>4 DEF Adds
<1>6. PICK G : G = {k \in 0 .. n : RoundedFrom(real[k], shown[k], k)}
  OBVIOUS
<1>7. 0 \in G
  <2>1. shown[0] = 0 /\ real[0] = 0
    BY <1>5
  <2>2. RoundedFrom(real[0], shown[0], 0)
    BY <2>1 DEF RoundedFrom
  <2>3. QED
    BY <1>6, <2>2
<1>8. ASSUME NEW k \in 1 .. n, k - 1 \in G PROVE k \in G
  <2>1. shown[k] = shown[k - 1] + tenths[k] /\ real[k] = real[k - 1] + cards[k]
    BY <1>5
  <2>2. PICK mb, t, more : mb = real[k - 1] /\ t = shown[k - 1] /\ more = cards[k]
    OBVIOUS
  <2>3. RoundedFrom(mb, t, k - 1) /\ more \in Nat /\ tenths[k] = FreeOf(more)
    BY <1>1, <1>6, <1>8, <2>2
  <2>4. RoundedFrom(mb + more, t + FreeOf(more), k)
    BY <2>3, RoundedOneMore
  <2>5. RoundedFrom(real[k], shown[k], k)
    BY <2>1, <2>2, <2>3, <2>4
  <2>6. QED
    BY <1>6, <2>5
<1>9. n \in G
  BY <1>7, <1>8, CountingUp
<1>10. RoundedFrom(real[n], shown[n], n)
  BY <1>6, <1>9
<1>11. QED
  BY <1>2, <1>3, <1>4, <1>10 DEF RoundedFrom

\* The rows of the table by size: those with memory, once each, the largest first.
LEMMA RowsBySize ==
  \E n \in Nat :
      /\ Len(BySize) = n /\ DOMAIN BySize = 1 .. n
      /\ \A k \in 1 .. n : BySize[k] \in SizedModels
      /\ \A m \in SizedModels : \E k \in 1 .. n : BySize[k] = m
      /\ \A j, k \in 1 .. n : j < k => /\ BySize[j].full >= BySize[k].full
                                       /\ BySize[j] # BySize[k]
<1>1. PICK l \in Nat : l = Len(Matrix) /\ DOMAIN Matrix = 1 .. l
  BY KernelAssumption
<1>2. \A i \in 1 .. l : Matrix[i].full \in Nat
  BY <1>1, KernelAssumption
<1>3. \A i, j \in 1 .. l : Matrix[i] = Matrix[j] => i = j
  BY <1>1, KernelAssumption
<1>4. PICK S : S = {i \in DOMAIN Matrix : Matrix[i].full # 0}
  OBVIOUS
<1>5. PICK value : value = [i \in DOMAIN Matrix |-> Matrix[i].full]
  OBVIOUS
<1>6. S \subseteq Nat /\ \A i \in S : value[i] \in Nat
  BY <1>1, <1>2, <1>4, <1>5
<1>7. IsFiniteSet(S)
  <2>1. IsFiniteSet(1 .. l) /\ S \subseteq 1 .. l
    BY <1>1, <1>4, FS_Interval
  <2>2. QED
    BY <2>1, FS_Subset
<1>8. PICK n, r : n = Cardinality(S) /\ r = Descending(S, value)
  OBVIOUS
<1>9. Listed(S, value, r, n)
  BY <1>6, <1>7, <1>8, DescendingLists
<1>10. /\ n \in Nat /\ DOMAIN r = 1 .. n
       /\ \A k \in 1 .. n : r[k] \in S
       /\ \A i \in S : \E k \in 1 .. n : r[k] = i
       /\ \A x, y \in 1 .. n : x < y =>
             \/ value[r[x]] > value[r[y]]
             \/ value[r[x]] = value[r[y]] /\ r[x] < r[y]
  BY <1>9 DEF Listed
<1>11. BySize = [k \in 1 .. n |-> Matrix[r[k]]]
  BY <1>4, <1>5, <1>8, <1>10 DEF BySize
<1>12. SizedModels = {Matrix[i] : i \in S}
  <2>1. \A i \in 1 .. l : Matrix[i].full > 0 <=> i \in S
    BY <1>1, <1>2, <1>4
  <2>2. Range(Matrix) = {Matrix[i] : i \in 1 .. l} /\ S \subseteq 1 .. l
    BY <1>1, <1>4 DEF Range
  <2>3. QED
    BY <2>1, <2>2 DEF SizedModels
<1>13. Len(BySize) = n /\ DOMAIN BySize = 1 .. n
  BY <1>10, <1>11
<1>14. \A k \in 1 .. n : BySize[k] \in SizedModels
  BY <1>10, <1>11, <1>12
<1>15. ASSUME NEW m \in SizedModels PROVE \E k \in 1 .. n : BySize[k] = m
  <2>1. PICK i \in S : m = Matrix[i]
    BY <1>12
  <2>2. PICK k \in 1 .. n : r[k] = i
    BY <1>10
  <2>3. QED
    BY <1>11, <2>1, <2>2
<1>16. ASSUME NEW j \in 1 .. n, NEW k \in 1 .. n, j < k
       PROVE  BySize[j].full >= BySize[k].full /\ BySize[j] # BySize[k]
  <2>1. PICK a \in S, b \in S : a = r[j] /\ b = r[k]
    BY <1>10
  <2>2. value[a] > value[b] \/ (value[a] = value[b] /\ a < b)
    BY <1>10, <1>16, <2>1
  <2>3. a \in 1 .. l /\ b \in 1 .. l /\ value[a] = Matrix[a].full /\ value[b] = Matrix[b].full
    BY <1>1, <1>4, <1>5
  <2>4. BySize[j] = Matrix[a] /\ BySize[k] = Matrix[b]
    BY <1>11, <2>1
  <2>5. a # b /\ Matrix[a].full >= Matrix[b].full
    <3>1. PICK x \in Nat, y \in Nat : x = Matrix[a].full /\ y = Matrix[b].full
      BY <1>2, <2>3
    <3>2. x > y \/ (x = y /\ a < b)
      BY <2>2, <2>3, <3>1
    <3>3. a \in Nat /\ b \in Nat
      BY <2>3
    <3>4. QED
      BY <3>1, <3>2, <3>3
  <2>6. QED
    BY <1>3, <2>3, <2>4, <2>5
<1>17. QED
  BY <1>10, <1>13, <1>14, <1>15, <1>16

\* A list that is made row by row.
Gathers(rows, n, free, precision, R) ==
    R = [k \in 0 .. n |->
            IF k = 0 THEN <<>>
            ELSE IF rows[k][precision] <= free
                 THEN Append(R[k - 1], rows[k])
                 ELSE R[k - 1]]

LEMMA GatheringGoesOn ==
  ASSUME NEW rows, NEW free, NEW precision, NEW k \in Nat, k # 0,
         NEW f, Gathers(rows, k - 1, free, precision, f)
  PROVE  \E R : Gathers(rows, k, free, precision, R)
<1>1. PICK last : last = IF rows[k][precision] <= free
                         THEN Append(f[k - 1], rows[k]) ELSE f[k - 1]
  OBVIOUS
<1>2. PICK g : g = [j \in 0 .. k |-> IF j = k THEN last ELSE f[j]]
  OBVIOUS
<1>3. f = [j \in 0 .. (k - 1) |->
              IF j = 0 THEN <<>>
              ELSE IF rows[j][precision] <= free THEN Append(f[j - 1], rows[j]) ELSE f[j - 1]]
  BY DEF Gathers
<1>4. ASSUME NEW j \in 0 .. k
       PROVE  g[j] = IF j = 0 THEN <<>>
                     ELSE IF rows[j][precision] <= free
                          THEN Append(g[j - 1], rows[j]) ELSE g[j - 1]
  <2>1. CASE j = k
    <3>1. g[k] = last /\ g[k - 1] = f[k - 1]
      BY <1>2
    <3>2. QED
      BY <1>1, <2>1, <3>1
  <2>2. CASE j # k
    <3>1. j \in 0 .. (k - 1) /\ g[j] = f[j]
      BY <1>2, <2>2
    <3>2. j # 0 => g[j - 1] = f[j - 1]
      BY <1>2, <2>2
    <3>3. f[j] = IF j = 0 THEN <<>>
                 ELSE IF rows[j][precision] <= free
                      THEN Append(f[j - 1], rows[j]) ELSE f[j - 1]
      BY <1>3, <3>1
    <3>4. QED
      BY <3>1, <3>2, <3>3
  <2>3. QED
    BY <2>1, <2>2
<1>5. g = [j \in 0 .. k |->
               IF j = 0 THEN <<>>
               ELSE IF rows[j][precision] <= free
                    THEN Append(g[j - 1], rows[j]) ELSE g[j - 1]]
  BY <1>2, <1>4
<1>6. QED
  BY <1>5 DEF Gathers

LEMMA GatheringExists ==
  ASSUME NEW rows, NEW n \in Nat, NEW free, NEW precision
  PROVE  \E R : Gathers(rows, n, free, precision, R)
<1>1. PICK G : G = {k \in 0 .. n : \E R : Gathers(rows, k, free, precision, R)}
  OBVIOUS
<1>2. 0 \in G
  <2>1. Gathers(rows, 0, free, precision, [j \in 0 .. 0 |-> <<>>])
    BY DEF Gathers
  <2>2. QED
    BY <1>1, <2>1
<1>3. ASSUME NEW k \in 1 .. n, k - 1 \in G PROVE k \in G
  <2>1. PICK f : Gathers(rows, k - 1, free, precision, f)
    BY <1>1, <1>3
  <2>2. \E R : Gathers(rows, k, free, precision, R)
    BY <2>1, GatheringGoesOn
  <2>3. QED
    BY <1>1, <2>2
<1>4. n \in G
  BY <1>2, <1>3, CountingUp
<1>5. QED
  BY <1>1, <1>4

\* A sequence of length l.
IsList(L, l) == Len(L) = l /\ L = [i \in 1 .. l |-> L[i]]

\* The list L of those of the first k rows that fit.
FitsOf(L, k, rows, free, precision) == \E l \in Nat :
    /\ IsList(L, l)
    /\ \A i \in 1 .. l : \E j \in 1 .. k : L[i] = rows[j] /\ rows[j][precision] <= free
    /\ \A j \in 1 .. k : rows[j][precision] <= free => \E i \in 1 .. l : L[i] = rows[j]
    /\ \A i, j \in 1 .. l : i < j => L[i].full >= L[j].full /\ L[i] # L[j]

Longer(M, L, l, x) == IsList(M, l + 1) /\ M[l + 1] = x /\ \A i \in 1 .. l : M[i] = L[i]

LEMMA LongerByOne ==
  ASSUME NEW L, NEW l \in Nat, IsList(L, l), NEW x
  PROVE  Longer(Append(L, x), L, l, x)
<1> SUFFICES ASSUME NEW M, M = Append(L, x) PROVE Longer(M, L, l, x)
  OBVIOUS
<1>1. Len(L) = l /\ L = [i \in 1 .. l |-> L[i]]
  BY DEF IsList
<1>2. Len(M) = l + 1 /\ M[l + 1] = x /\ \A i \in 1 .. l : M[i] = L[i]
  BY <1>1
<1>3. M = [i \in 1 .. (l + 1) |-> M[i]]
  BY <1>1
<1>4. QED
  BY <1>2, <1>3 DEF IsList, Longer

LEMMA FitsGrow ==
  ASSUME NEW rows, NEW free, NEW precision, NEW k \in Nat, k # 0,
         \A i, j \in 1 .. k : i < j => rows[i].full >= rows[j].full /\ rows[i] # rows[j],
         NEW L, FitsOf(L, k - 1, rows, free, precision),
         NEW M, M = IF rows[k][precision] <= free THEN Append(L, rows[k]) ELSE L
  PROVE  FitsOf(M, k, rows, free, precision)
<1>0. PICK l \in Nat :
        /\ IsList(L, l)
        /\ \A i \in 1 .. l : \E j \in 1 .. (k - 1) : L[i] = rows[j] /\ rows[j][precision] <= free
        /\ \A j \in 1 .. (k - 1) : rows[j][precision] <= free => \E i \in 1 .. l : L[i] = rows[j]
        /\ \A i, j \in 1 .. l : i < j => L[i].full >= L[j].full /\ L[i] # L[j]
  BY DEF FitsOf
<1>1. IsList(L, l)
  BY <1>0
<1>2. \A i \in 1 .. l : \E j \in 1 .. (k - 1) : L[i] = rows[j] /\ rows[j][precision] <= free
  BY <1>0
<1>3. \A j \in 1 .. (k - 1) : rows[j][precision] <= free => \E i \in 1 .. l : L[i] = rows[j]
  BY <1>0
<1>4. \A i, j \in 1 .. l : i < j => L[i].full >= L[j].full /\ L[i] # L[j]
  BY <1>0
<1>5. \A j \in 1 .. (k - 1) : j \in 1 .. k /\ j < k
  OBVIOUS
<1>6. \A j \in 1 .. k : j = k \/ j \in 1 .. (k - 1)
  OBVIOUS
<1>7. CASE rows[k][precision] <= free
  <2>1. M = Append(L, rows[k])
    BY <1>7
  <2>2. /\ IsList(M, l + 1)
        /\ M[l + 1] = rows[k] /\ \A i \in 1 .. l : M[i] = L[i]
    <3>1. Longer(M, L, l, rows[k])
      BY <1>1, <2>1, LongerByOne
    <3>2. QED
      BY <3>1 DEF Longer
  <2>3. \A i \in 1 .. (l + 1) : i = l + 1 \/ i \in 1 .. l
    OBVIOUS
  <2>4. \A i \in 1 .. l : i \in 1 .. (l + 1) /\ i < l + 1
    OBVIOUS
  <2>5. ASSUME NEW i \in 1 .. (l + 1)
        PROVE  \E j \in 1 .. k : M[i] = rows[j] /\ rows[j][precision] <= free
    <3>1. CASE i = l + 1
      <4>1. k \in 1 .. k
        OBVIOUS
      <4>2. QED
        BY <1>7, <2>2, <3>1, <4>1
    <3>2. CASE i \in 1 .. l
      <4>1. M[i] = L[i]
        BY <2>2, <3>2
      <4>2. PICK j \in 1 .. (k - 1) : L[i] = rows[j] /\ rows[j][precision] <= free
        BY <1>2, <3>2
      <4>3. j \in 1 .. k
        BY <1>5, <4>2
      <4>4. QED
        BY <4>1, <4>2, <4>3
    <3>3. QED
      BY <2>3, <3>1, <3>2
  <2>6. ASSUME NEW j \in 1 .. k, rows[j][precision] <= free
        PROVE  \E i \in 1 .. (l + 1) : M[i] = rows[j]
    <3>1. CASE j = k
      <4>1. l + 1 \in 1 .. (l + 1)
        OBVIOUS
      <4>2. QED
        BY <2>2, <3>1, <4>1
    <3>2. CASE j \in 1 .. (k - 1)
      <4>1. PICK i \in 1 .. l : L[i] = rows[j]
        BY <1>3, <2>6, <3>2
      <4>2. i \in 1 .. (l + 1) /\ M[i] = L[i]
        BY <2>2, <2>4
      <4>3. QED
        BY <4>1, <4>2
    <3>3. QED
      BY <1>6, <3>1, <3>2
  <2>7. ASSUME NEW i \in 1 .. (l + 1), NEW j \in 1 .. (l + 1), i < j
        PROVE  M[i].full >= M[j].full /\ M[i] # M[j]
    <3>1. i \in 1 .. l
      BY <2>7
    <3>2. CASE j = l + 1
      <4>1. PICK x \in 1 .. (k - 1) : L[i] = rows[x]
        BY <1>2, <3>1
      <4>2. x \in 1 .. k /\ k \in 1 .. k /\ x < k
        OBVIOUS
      <4>3. rows[x].full >= rows[k].full /\ rows[x] # rows[k]
        BY <4>2
      <4>4. QED
        BY <2>2, <3>1, <3>2, <4>1, <4>3
    <3>3. CASE j \in 1 .. l
      <4>1. L[i].full >= L[j].full /\ L[i] # L[j]
        BY <1>4, <2>7, <3>1, <3>3
      <4>2. M[i] = L[i] /\ M[j] = L[j]
        BY <2>2, <3>1, <3>3
      <4>3. QED
        BY <4>1, <4>2
    <3>4. QED
      BY <2>3, <3>2, <3>3
  <2>8. QED
    <3>1. PICK u \in Nat : u = l + 1
      OBVIOUS
    <3>2. QED
      BY <2>2, <2>5, <2>6, <2>7, <3>1, Zenon DEF FitsOf
<1>8. CASE ~(rows[k][precision] <= free)
  <2>1. M = L
    BY <1>8
  <2>2. \A i \in 1 .. l : \E j \in 1 .. k : L[i] = rows[j] /\ rows[j][precision] <= free
    BY <1>2, <1>5
  <2>3. \A j \in 1 .. k : rows[j][precision] <= free => \E i \in 1 .. l : L[i] = rows[j]
    BY <1>3, <1>6, <1>8
  <2>4. FitsOf(L, k, rows, free, precision)
    BY <1>1, <1>4, <2>2, <2>3, Zenon DEF FitsOf
  <2>5. QED
    BY <2>1, <2>4
<1>9. QED
  BY <1>7, <1>8

\* What fits is listed once each, the largest first.
ListsFitting(R, n, free, precision) ==
    /\ n \in Nat /\ IsList(R, n)
    /\ \A k \in 1 .. n : R[k] \in SizedModels /\ R[k][precision] <= free
    /\ \A m \in SizedModels : m[precision] <= free => \E k \in 1 .. n : R[k] = m
    /\ \A j, k \in 1 .. n : j < k => R[j].full >= R[k].full /\ R[j] # R[k]

LEMMA FittingLists ==
  ASSUME NEW free, NEW precision
  PROVE  ListsFitting(Fitting(free, precision), Len(Fitting(free, precision)), free, precision)
<1>1. PICK rows : rows = BySize
  OBVIOUS
<1>2. PICK n \in Nat :
        /\ Len(rows) = n /\ DOMAIN rows = 1 .. n
        /\ \A k \in 1 .. n : rows[k] \in SizedModels
        /\ \A m \in SizedModels : \E k \in 1 .. n : rows[k] = m
        /\ \A j, k \in 1 .. n : j < k => rows[j].full >= rows[k].full /\ rows[j] # rows[k]
  BY <1>1, RowsBySize
<1>3. PICK R : R = CHOOSE f : Gathers(rows, n, free, precision, f)
  OBVIOUS
<1>4. Gathers(rows, n, free, precision, R)
  BY <1>3, GatheringExists
<1>5. Fitting(free, precision) = R[n]
  BY <1>1, <1>2, <1>3 DEF Fitting, Gathers
<1>6. R = [k \in 0 .. n |->
              IF k = 0 THEN <<>>
              ELSE IF rows[k][precision] <= free THEN Append(R[k - 1], rows[k]) ELSE R[k - 1]]
  BY <1>4 DEF Gathers
<1>7. FitsOf(R[n], n, rows, free, precision)
  <2>1. PICK G : G = {k \in 0 .. n : FitsOf(R[k], k, rows, free, precision)}
    OBVIOUS
  <2>2. 0 \in G
    <3>1. R[0] = <<>>
      BY <1>6
    <3>2. FitsOf(<<>>, 0, rows, free, precision)
      <4>1. IsList(<<>>, 0)
        BY DEF IsList
      <4>2. QED
        BY <4>1 DEF FitsOf
    <3>3. QED
      BY <2>1, <3>1, <3>2
  <2>3. ASSUME NEW k \in 1 .. n, k - 1 \in G PROVE k \in G
    <3>1. PICK L, M : L = R[k - 1] /\ M = R[k]
      OBVIOUS
    <3>2. FitsOf(L, k - 1, rows, free, precision)
      BY <2>1, <2>3, <3>1
    <3>3. M = IF rows[k][precision] <= free THEN Append(L, rows[k]) ELSE L
      <4>1. k \in 0 .. n /\ k # 0
        BY <2>3
      <4>2. R[k] = IF rows[k][precision] <= free THEN Append(R[k - 1], rows[k]) ELSE R[k - 1]
        BY <1>6, <4>1
      <4>3. QED
        BY <3>1, <4>2
    <3>4. \A i, j \in 1 .. k : i < j => rows[i].full >= rows[j].full /\ rows[i] # rows[j]
      <4>1. \A i \in 1 .. k : i \in 1 .. n
        OBVIOUS
      <4>2. QED
        BY <1>2, <4>1
    <3>5. FitsOf(M, k, rows, free, precision)
      <4>1. k \in Nat /\ k # 0
        BY <2>3
      <4>2. QED
        BY <3>2, <3>3, <3>4, <4>1, FitsGrow
    <3>6. QED
      BY <2>1, <3>1, <3>5
  <2>4. n \in G
    BY <2>2, <2>3, CountingUp
  <2>5. QED
    BY <2>1, <2>4
<1>8. PICK L : L = R[n] /\ FitsOf(L, n, rows, free, precision)
  BY <1>7
<1>9. PICK l \in Nat :
        /\ IsList(L, l)
        /\ \A i \in 1 .. l : \E j \in 1 .. n : L[i] = rows[j] /\ rows[j][precision] <= free
        /\ \A j \in 1 .. n : rows[j][precision] <= free => \E i \in 1 .. l : L[i] = rows[j]
        /\ \A i, j \in 1 .. l : i < j => L[i].full >= L[j].full /\ L[i] # L[j]
  BY <1>8, Zenon DEF FitsOf
<1>10. IsList(L, l)
  BY <1>9
<1>11. \A i \in 1 .. l : \E j \in 1 .. n : L[i] = rows[j] /\ rows[j][precision] <= free
  BY <1>9
<1>12. \A j \in 1 .. n : rows[j][precision] <= free => \E i \in 1 .. l : L[i] = rows[j]
  BY <1>9
<1>13. \A i, j \in 1 .. l : i < j => L[i].full >= L[j].full /\ L[i] # L[j]
  BY <1>9
<1>14. \A k \in 1 .. l : L[k] \in SizedModels /\ L[k][precision] <= free
  BY <1>2, <1>11
<1>15. \A m \in SizedModels : m[precision] <= free => \E k \in 1 .. l : L[k] = m
  BY <1>2, <1>12
<1>16. ListsFitting(L, l, free, precision)
  BY <1>10, <1>13, <1>14, <1>15 DEF ListsFitting
<1>17. QED
  <2>1. Len(L) = l
    BY <1>10 DEF IsList
  <2>2. Fitting(free, precision) = L
    BY <1>5, <1>8
  <2>3. QED
    BY <1>16, <2>1, <2>2, Zenon

LEMMA NothingFits ==
  ASSUME NEW free, NEW precision
  PROVE  Fitting(free, precision) = <<>> <=> \A m \in SizedModels : ~(m[precision] <= free)
<1>1. PICK R, n : R = Fitting(free, precision) /\ n = Len(R)
  OBVIOUS
<1>2. ListsFitting(R, n, free, precision)
  BY <1>1, FittingLists
<1>3. n \in Nat /\ R = [k \in 1 .. n |-> R[k]]
  BY <1>2 DEF ListsFitting, IsList
<1>4. \A k \in 1 .. n : R[k] \in SizedModels /\ R[k][precision] <= free
  BY <1>2 DEF ListsFitting
<1>5. \A m \in SizedModels : m[precision] <= free => \E k \in 1 .. n : R[k] = m
  BY <1>2 DEF ListsFitting
<1>6. ASSUME R = <<>> PROVE \A m \in SizedModels : ~(m[precision] <= free)
  <2>1. n = 0
    BY <1>3, <1>6
  <2>2. QED
    BY <1>5, <2>1
<1>7. ASSUME \A m \in SizedModels : ~(m[precision] <= free) PROVE R = <<>>
  <2>1. n = 0
    <3>1. n # 0 => 1 \in 1 .. n
      BY <1>3
    <3>2. QED
      BY <1>4, <1>7, <3>1
  <2>2. QED
    BY <1>3, <2>1
<1>8. QED
  BY <1>1, <1>6, <1>7

\* A row of the table is found by the name it is given out under.
LEMMA EntryOfRow ==
  ASSUME NEW m \in Range(Matrix)
  PROVE  Entry([provider |-> m.provider, model |-> m.model]) = {m}
<1>1. \A x \in Range(Matrix) : x.provider = m.provider /\ x.model = m.model => x = m
  BY KernelAssumption DEF Range
<1>2. QED
  BY <1>1 DEF Entry

\* The fields of a sized model.
LEMMA SizesOrdered ==
  ASSUME NEW m \in SizedModels
  PROVE  /\ m \in Range(Matrix)
         /\ m["full"] \in Nat /\ m["int8"] \in Nat /\ m["int4"] \in Nat
         /\ m["int4"] <= m["int8"] /\ m["int8"] <= m["full"] /\ m["int4"] > 0
<1>1. m \in Range(Matrix) /\ m.full > 0
  BY DEF SizedModels
<1>2. PICK i \in DOMAIN Matrix : m = Matrix[i]
  BY <1>1 DEF Range
<1>3. /\ m.full \in Nat /\ m.int8 \in Nat /\ m.int4 \in Nat
      /\ m.int4 <= m.int8 /\ m.int8 <= m.full
      /\ m.full # 0 => m.int4 # 0
  BY <1>2, KernelAssumption
<1>4. /\ m["full"] = m.full /\ m["int8"] = m.int8 /\ m["int4"] = m.int4
  OBVIOUS
<1>5. PICK a \in Nat, b \in Nat, c \in Nat : a = m.full /\ b = m.int8 /\ c = m.int4
  BY <1>3
<1>6. c <= b /\ b <= a /\ c > 0
  BY <1>1, <1>3, <1>5
<1>7. QED
  BY <1>1, <1>4, <1>5, <1>6

\* With something that fits at 4 bit, a GPU runs what is the best.
LEMMA BestOnGPU ==
  ASSUME NEW free, free \in Nat, Fitting(free, "int4") # <<>>
  PROVE  \E p \in {"full", "int8", "int4"} :
            /\ OnGPU(free) = Chosen(p, First4(Named(Fitting(free, p))))
            /\ Fitting(free, p) # <<>>
            /\ p = "int8" => Fitting(free, "full") = <<>>
            /\ p = "int4" => Fitting(free, "int8") = <<>>
<1>1. PICK F : F = [p \in {"full", "int8", "int4"} |-> Fitting(free, p)]
  OBVIOUS
<1>2. \E p \in {"full", "int8", "int4"} :
         /\ F[p] # <<>>
         /\ p = "int8" => F["full"] = <<>>
         /\ p = "int4" => F["int8"] = <<>>
  <2>1. CASE F["full"] # <<>>
    BY <2>1
  <2>2. CASE F["full"] = <<>> /\ F["int8"] # <<>>
    BY <2>2
  <2>3. CASE F["full"] = <<>> /\ F["int8"] = <<>>
    <3>1. F["int4"] # <<>>
      BY <1>1
    <3>2. QED
      BY <2>3, <3>1
  <2>4. QED
    BY <2>1, <2>2, <2>3
<1>3. PICK b : b = CHOOSE p \in {"full", "int8", "int4"} :
                      /\ Fitting(free, p) # <<>>
                      /\ p = "int8" => Fitting(free, "full") = <<>>
                      /\ p = "int4" => Fitting(free, "int8") = <<>>
  OBVIOUS
<1>4. \E p \in {"full", "int8", "int4"} :
         /\ Fitting(free, p) # <<>>
         /\ p = "int8" => Fitting(free, "full") = <<>>
         /\ p = "int4" => Fitting(free, "int8") = <<>>
  BY <1>1, <1>2
<1>5. /\ b \in {"full", "int8", "int4"}
      /\ Fitting(free, b) # <<>>
      /\ b = "int8" => Fitting(free, "full") = <<>>
      /\ b = "int4" => Fitting(free, "int8") = <<>>
  BY <1>3, <1>4, Zenon
<1>6. OnGPU(free) = Chosen(b, First4(Named(Fitting(free, b))))
  BY <1>3, Zenon DEF OnGPU
<1>7. QED
  BY <1>5, <1>6

\* The choice for a GPU: precision p, and the first of the n rows R that fit at p.
ChosenRows(s, free, p, R, n) ==
    /\ p \in {"full", "int8", "int4"}
    /\ s.precision = p
    /\ ListsFitting(R, n, free, p) /\ n # 0
    /\ p = "int8" => \A m \in SizedModels : ~(m["full"] <= free)
    /\ p = "int4" => \A m \in SizedModels : ~(m["int8"] <= free)
    /\ s.models = [k \in {i \in 1 .. n : i <= 4} |->
                      [provider |-> R[k].provider, model |-> R[k].model]]

LEMMA RowsOnGPU ==
  ASSUME NEW free \in Nat, Fitting(free, "int4") # <<>>
  PROVE  \E p, R, n : ChosenRows(OnGPU(free), free, p, R, n)
<1>1. PICK p \in {"full", "int8", "int4"} :
            /\ OnGPU(free) = Chosen(p, First4(Named(Fitting(free, p))))
            /\ Fitting(free, p) # <<>>
            /\ p = "int8" => Fitting(free, "full") = <<>>
            /\ p = "int4" => Fitting(free, "int8") = <<>>
  BY BestOnGPU
<1>2. PICK R, n : R = Fitting(free, p) /\ n = Len(R)
  OBVIOUS
<1>3. ListsFitting(R, n, free, p)
  BY <1>2, FittingLists
<1>4. n \in Nat /\ R = [k \in 1 .. n |-> R[k]]
  BY <1>3 DEF ListsFitting, IsList
<1>5. n # 0
  BY <1>1, <1>2, <1>4
<1>6. p = "int8" => \A m \in SizedModels : ~(m["full"] <= free)
  BY <1>1, NothingFits
<1>7. p = "int4" => \A m \in SizedModels : ~(m["int8"] <= free)
  BY <1>1, NothingFits
<1>8. PICK s : s = OnGPU(free)
  OBVIOUS
<1>9. s = Chosen(p, First4(Named(R)))
  BY <1>1, <1>2, <1>8
<1>10. s.precision = p /\ s.models = First4(Named(R))
  BY <1>9 DEF Chosen
<1>11. First4(Named(R)) = [k \in {i \in 1 .. n : i <= 4} |->
                             [provider |-> R[k].provider, model |-> R[k].model]]
  BY <1>4 DEF First4, Named
<1>12. ChosenRows(s, free, p, R, n)
  BY <1>3, <1>5, <1>6, <1>7, <1>10, <1>11 DEF ChosenRows
<1>13. QED
  BY <1>8, <1>12

KernelInv ==
    /\ machine \in Machines
    /\ current \in Machines \cup {<<>>, Unknown}
    /\ decision # Unknown =>
          \E r \in Questions, cards \in Machines \cup {<<>>} :
             decision = [request |-> r, cards |-> cards,
                         selection |-> Select(Classify(r), cards, r.local)]

THEOREM KernelInvariance == KernelSpec => []KernelInv
<1>1. KernelInit => KernelInv
  BY DEF KernelInit, KernelInv
<1>2. KernelInv /\ [KernelNext]_kernelVars => KernelInv'
  <2> SUFFICES ASSUME KernelInv, [KernelNext]_kernelVars PROVE KernelInv'
    OBVIOUS
  <2>1. CASE MachineChanges
    BY <2>1 DEF KernelInv, MachineChanges
  <2>2. CASE SampleNow
    BY <2>2 DEF KernelInv, SampleNow, Readings
  <2>3. CASE KernelDecide
    <3>1. PICK r \in Questions, cards \in IF current = Unknown THEN Readings ELSE {current} :
             decision' = [request |-> r, cards |-> cards,
                          selection |-> Select(Classify(r), cards, r.local)]
      BY <2>3 DEF KernelDecide
    <3>2. cards \in Machines \cup {<<>>}
      BY <3>1 DEF KernelInv, Readings
    <3>3. QED
      BY <2>3, <3>1, <3>2 DEF KernelInv, KernelDecide
  <2>4. CASE UNCHANGED kernelVars
    BY <2>4 DEF KernelInv, kernelVars
  <2>5. QED
    BY <2>1, <2>2, <2>3, <2>4 DEF KernelNext
<1>3. QED
  BY <1>1, <1>2, PTL DEF KernelSpec

\* A decision, taken apart: the first answer for a GPU, the CPU's, or a hosted one.
LEMMA DecisionsMade ==
  ASSUME KernelInv, Decided
  PROVE  /\ decision.cards \in Machines \cup {<<>>}
         /\ FreeMemory(decision.cards) \in Nat
         /\ \/ /\ FreeMemory(decision.cards) > 0
               /\ Fitting(FreeMemory(decision.cards), "int4") # <<>>
               /\ decision.selection = OnGPU(FreeMemory(decision.cards))
            \/ /\ \/ ~(FreeMemory(decision.cards) > 0)
                  \/ Fitting(FreeMemory(decision.cards), "int4") = <<>>
               /\ decision.selection = OnCPU
            \/ ~Secret(decision) /\ decision.selection.precision = "api"
<1>1. PICK r \in Questions, cards \in Machines \cup {<<>>} :
         decision = [request |-> r, cards |-> cards,
                     selection |-> Select(Classify(r), cards, r.local)]
  BY DEF KernelInv, Decided
<1>2. decision.cards = cards /\ decision.request = r
      /\ decision.selection = Select(Classify(r), cards, r.local)
  BY <1>1
<1>3. FreeMemory(cards) \in Nat
  <2>1. PICK n : n = Len(cards)
    OBVIOUS
  <2>2. n \in Nat /\ DOMAIN cards = 1 .. n /\ \A i \in 1 .. n : cards[i] \in Nat
    BY <2>1, KernelAssumption
  <2>3. QED
    BY <2>1, <2>2, FreeMemoryBound
<1>4. PICK free : free = FreeMemory(cards)
  OBVIOUS
<1>5. PICK c : c = Classify(r)
  OBVIOUS
<1>6. MustLocal(c, r.local) \/ ~Secret(decision)
  <2>1. Secret(decision) => r.local \/ c.sensitivity = "confidential"
    BY <1>2, <1>5 DEF Secret, Classify, Sensitivity
  <2>2. QED
    BY <2>1 DEF MustLocal
<1>7. InCloud(c).precision = "api"
  BY DEF InCloud, Chosen
<1>8. \/ free > 0 /\ Fitting(free, "int4") # <<>> /\ Select(c, cards, r.local) = OnGPU(free)
      \/ /\ MustLocal(c, r.local) /\ Select(c, cards, r.local) = OnCPU
         /\ ~(free > 0) \/ Fitting(free, "int4") = <<>>
      \/ ~MustLocal(c, r.local) /\ Select(c, cards, r.local) = InCloud(c)
  BY <1>4, Zenon DEF Select
<1>9. QED
  BY <1>2, <1>3, <1>4, <1>5, <1>6, <1>7, <1>8

LEMMA SecretsKept == KernelInv => SecretsAreSelfHosted
<1> SUFFICES ASSUME KernelInv, Decided, Secret(decision),
                    NEW e \in Range(decision.selection.models)
             PROVE  Entry(e) \cap SizedModels # {}
  BY DEF SecretsAreSelfHosted
<1>1. PICK s, free : s = decision.selection /\ free = FreeMemory(decision.cards)
  OBVIOUS
<1>2. free \in Nat /\ (s = OnCPU \/ (s = OnGPU(free) /\ Fitting(free, "int4") # <<>>))
  BY <1>1, DecisionsMade
<1>3. CASE s = OnGPU(free) /\ Fitting(free, "int4") # <<>>
  <2>1. PICK p, R, n : ChosenRows(s, free, p, R, n)
    BY <1>2, <1>3, RowsOnGPU
  <2>2. s.models = [k \in {i \in 1 .. n : i <= 4} |->
                       [provider |-> R[k].provider, model |-> R[k].model]]
    BY <2>1 DEF ChosenRows
  <2>3. \A k \in 1 .. n : R[k] \in SizedModels
    BY <2>1 DEF ChosenRows, ListsFitting
  <2>4. PICK k \in 1 .. n : e = [provider |-> R[k].provider, model |-> R[k].model]
    BY <1>1, <2>2 DEF Range
  <2>5. PICK m \in SizedModels : m = R[k]
    BY <2>3
  <2>6. m \in Range(Matrix)
    BY DEF SizedModels
  <2>7. Entry(e) = {m}
    BY <2>4, <2>5, <2>6, EntryOfRow
  <2>8. QED
    BY <2>7
<1>4. CASE s = OnCPU
  <2>1. s.models = <<[provider |-> "ollama", model |-> "llama3.2:3b"],
                     [provider |-> "ollama", model |-> "llama3.2:1b"]>>
    BY <1>4 DEF OnCPU, Chosen
  <2>2. e.provider = "ollama" /\ e.model \in {"llama3.2:3b", "llama3.2:1b"}
    BY <1>1, <2>1 DEF Range
  <2>3. PICK i \in DOMAIN Matrix : /\ Matrix[i].provider = "ollama"
                                   /\ Matrix[i].model = e.model /\ Matrix[i].full # 0
    BY <2>2, KernelAssumption
  <2>4. Matrix[i].full \in Nat /\ Matrix[i].full > 0
    BY <2>3, KernelAssumption
  <2>5. Matrix[i] \in Entry(e) /\ Matrix[i] \in SizedModels
    BY <2>2, <2>3, <2>4 DEF Entry, SizedModels, Range
  <2>6. QED
    BY <2>5
<1>5. QED
  BY <1>2, <1>3, <1>4

\* For any table, machine and request, every model named for a secret is one of the
\* table that runs in memory of its own.
THEOREM SecretsStaySelfHosted == KernelSpec => []SecretsAreSelfHosted
<1>1. QED
  BY SecretsKept, KernelInvariance, PTL

\* The first of the rows is the best, and each of them fits.
LEMMA RowsAreTheBest ==
  ASSUME NEW s, NEW free \in Nat, NEW p, NEW R, NEW n, ChosenRows(s, free, p, R, n)
  PROVE  /\ \A q \in {"full", "int8"} : q \in (CASE p = "full" -> {}
                                                [] p = "int8" -> {"full"}
                                                [] p = "int4" -> {"full", "int8"}) =>
               \A m \in SizedModels : m[q] > free
         /\ \A m \in SizedModels, best \in Entry(s.models[1]) : m[p] <= free => m.full <= best.full
         /\ IsInjective(s.models)
         /\ \A e \in Range(s.models) : \A m \in Entry(e) : m \in SizedModels /\ m[p] <= free
<1>1. /\ p \in {"full", "int8", "int4"}
      /\ ListsFitting(R, n, free, p) /\ n # 0
      /\ p = "int8" => \A m \in SizedModels : ~(m["full"] <= free)
      /\ p = "int4" => \A m \in SizedModels : ~(m["int8"] <= free)
      /\ s.models = [k \in {i \in 1 .. n : i <= 4} |->
                        [provider |-> R[k].provider, model |-> R[k].model]]
  BY DEF ChosenRows
<1>2. /\ n \in Nat
      /\ \A k \in 1 .. n : R[k] \in SizedModels /\ R[k][p] <= free
      /\ \A m \in SizedModels : m[p] <= free => \E k \in 1 .. n : R[k] = m
      /\ \A j, k \in 1 .. n : j < k => R[j].full >= R[k].full /\ R[j] # R[k]
  BY <1>1 DEF ListsFitting
<1>3. \A k \in 1 .. n : Entry([provider |-> R[k].provider, model |-> R[k].model]) = {R[k]}
  <2> SUFFICES ASSUME NEW k \in 1 .. n
               PROVE  Entry([provider |-> R[k].provider, model |-> R[k].model]) = {R[k]}
    OBVIOUS
  <2>1. PICK m \in SizedModels : m = R[k]
    BY <1>2
  <2>2. m \in Range(Matrix)
    BY DEF SizedModels
  <2>3. QED
    BY <2>1, <2>2, EntryOfRow
<1>4. ASSUME NEW m \in SizedModels, p = "int4" \/ p = "int8"
      PROVE  m["full"] > free /\ (p = "int4" => m["int8"] > free)
  <2>1. PICK a \in Nat, b \in Nat : a = m["full"] /\ b = m["int8"] /\ b <= a
    BY SizesOrdered
  <2>2. p = "int8" => ~(a <= free)
    BY <1>1, <2>1
  <2>3. p = "int4" => ~(b <= free)
    BY <1>1, <2>1
  <2>4. a > free /\ (p = "int4" => b > free)
    BY <1>4, <2>1, <2>2, <2>3
  <2>5. QED
    BY <2>1, <2>4
<1>5. \A q \in {"full", "int8"} : q \in (CASE p = "full" -> {}
                                         [] p = "int8" -> {"full"}
                                         [] p = "int4" -> {"full", "int8"}) =>
         \A m \in SizedModels : m[q] > free
  <2>1. CASE p = "full"
    BY <2>1
  <2>2. CASE p = "int8"
    BY <1>4, <2>2
  <2>3. CASE p = "int4"
    BY <1>4, <2>3
  <2>4. QED
    BY <1>1, <2>1, <2>2, <2>3
<1>6. ASSUME NEW m \in SizedModels, NEW best \in Entry(s.models[1]), m[p] <= free
      PROVE  m.full <= best.full
  <2>1. 1 \in 1 .. n /\ 1 \in {i \in 1 .. n : i <= 4}
    BY <1>1, <1>2
  <2>2. best = R[1]
    BY <1>1, <1>3, <2>1
  <2>3. PICK k \in 1 .. n : R[k] = m
    BY <1>2, <1>6
  <2>4. k = 1 \/ R[1].full >= R[k].full
    BY <1>2, <2>1
  <2>5. PICK a \in Nat, b \in Nat : a = m["full"] /\ b = best["full"]
    BY <1>2, <2>1, <2>2, SizesOrdered
  <2>6. b >= a
    BY <2>2, <2>3, <2>4, <2>5
  <2>7. QED
    BY <2>5, <2>6
<1>7. IsInjective(s.models)
  <2> SUFFICES ASSUME NEW a \in 1 .. n, NEW b \in 1 .. n, a <= 4, b <= 4,
                      [provider |-> R[a].provider, model |-> R[a].model]
                         = [provider |-> R[b].provider, model |-> R[b].model]
               PROVE  a = b
    BY <1>1 DEF IsInjective
  <2>1. {R[a]} = {R[b]}
    BY <1>3
  <2>2. R[a] = R[b]
    BY <2>1
  <2>3. ~(a < b) /\ ~(b < a)
    BY <1>2, <2>2
  <2>4. QED
    BY <2>3
<1>8. ASSUME NEW e \in Range(s.models), NEW m \in Entry(e)
      PROVE  m \in SizedModels /\ m[p] <= free
  <2>1. PICK k \in 1 .. n : e = [provider |-> R[k].provider, model |-> R[k].model]
    BY <1>1 DEF Range
  <2>2. m = R[k]
    BY <1>3, <2>1
  <2>3. QED
    BY <1>2, <2>2
<1>9. QED
  BY <1>5, <1>6, <1>7, <1>8

LEMMA BestChosen == KernelInv => ChoiceIsTheBestThatFits
<1> SUFFICES ASSUME KernelInv, Decided, decision.selection.precision # "api"
             PROVE  ChoiceIsTheBestThatFits
  BY DEF ChoiceIsTheBestThatFits
<1>1. PICK s, cards, free : /\ s = decision.selection /\ cards = decision.cards
                           /\ free = FreeMemory(cards)
  OBVIOUS
<1>2. /\ cards \in Machines \cup {<<>>} /\ free \in Nat
      /\ \/ Fitting(free, "int4") # <<>> /\ s = OnGPU(free)
         \/ (~(free > 0) \/ Fitting(free, "int4") = <<>>) /\ s = OnCPU
  BY <1>1, DecisionsMade
<1>3. PICK truth, l : truth = Total(cards) /\ l = Len(cards)
  OBVIOUS
<1>4. l \in Nat /\ truth \in Nat /\ free * 1024 <= truth * 10 + 512 * l
  <2>1. l \in Nat /\ DOMAIN cards = 1 .. l /\ \A i \in 1 .. l : cards[i] \in Nat
    BY <1>2, <1>3, KernelAssumption
  <2>2. truth \in Nat /\ RoundedFrom(truth, free, l)
    BY <1>1, <1>3, <2>1, FreeMemoryBound
  <2>3. QED
    BY <2>1, <2>2 DEF RoundedFrom
<1>5. CASE Fitting(free, "int4") # <<>> /\ s = OnGPU(free)
  <2>1. PICK p, R, n : ChosenRows(s, free, p, R, n)
    BY <1>2, <1>5, RowsOnGPU
  <2>2. s.precision = p /\ p \in {"full", "int8", "int4"}
    BY <2>1 DEF ChosenRows
  <2>3. PICK higher : higher = CASE p = "full" -> {}
                                 [] p = "int8" -> {"full"}
                                 [] p = "int4" -> {"full", "int8"}
    OBVIOUS
  <2>4. higher \subseteq {"full", "int8"}
    BY <2>2, <2>3
  <2>5. \A q \in higher, m \in SizedModels : m[q] > free
    BY <1>2, <2>1, <2>3, <2>4, RowsAreTheBest
  <2>6. \A m \in SizedModels, best \in Entry(s.models[1]) : m[p] <= free => m.full <= best.full
    BY <1>2, <2>1, RowsAreTheBest
  <2>7. IsInjective(s.models)
    BY <1>2, <2>1, RowsAreTheBest
  <2>8. ASSUME NEW e \in Range(s.models), NEW m \in Entry(e)
        PROVE  m[p] * 1024 <= truth * 10 + 512 * l
    <3>1. m \in SizedModels /\ m[p] <= free
      BY <1>2, <2>1, RowsAreTheBest
    <3>2. PICK x \in Nat : x = m[p]
      BY <2>2, <3>1, SizesOrdered
    <3>3. x <= free
      BY <3>1, <3>2
    <3>4. x * 1024 <= truth * 10 + 512 * l
      BY <1>2, <1>4, <3>3
    <3>5. QED
      BY <3>2, <3>4
  <2>9. ~\A m \in SizedModels : m.int4 > free
    <3>1. PICK m \in SizedModels : m["int4"] <= free
      BY <1>5, NothingFits
    <3>2. PICK x \in Nat : x = m["int4"] /\ x = m.int4
      BY SizesOrdered
    <3>3. ~(x > free)
      BY <1>2, <3>1, <3>2
    <3>4. QED
      BY <3>2, <3>3
  <2>10. QED
    BY <1>1, <1>3, <2>2, <2>3, <2>5, <2>6, <2>7, <2>8, <2>9 DEF ChoiceIsTheBestThatFits
<1>6. CASE (~(free > 0) \/ Fitting(free, "int4") = <<>>) /\ s = OnCPU
  <2>1. ASSUME NEW m \in SizedModels PROVE m.int4 > free
    <3>1. PICK x \in Nat : x = m["int4"] /\ x = m.int4 /\ x > 0
      BY SizesOrdered
    <3>2. Fitting(free, "int4") = <<>> => ~(x <= free)
      BY <3>1, NothingFits
    <3>3. x > free
      BY <1>2, <1>6, <3>1, <3>2
    <3>4. QED
      BY <3>1, <3>3
  <2>2. QED
    BY <1>1, <1>6, <2>1 DEF ChoiceIsTheBestThatFits
<1>7. QED
  BY <1>2, <1>5, <1>6

\* For any table, machine and request, a choice for a GPU is the best that fits, and
\* the CPU is chosen only where nothing does.
THEOREM ChoicesAreTheBest == KernelSpec => []ChoiceIsTheBestThatFits
<1>1. QED
  BY BestChosen, KernelInvariance, PTL
=============================================================================
