------------------------------- MODULE TaskGraph -------------------------------
(***************************************************************************)
(* The order in which the tasks of a plan are created (tasks/task_graph.py): *)
(* Kahn's algorithm over names, one step for each task taken from the queue. *)
(***************************************************************************)
EXTENDS Integers, SequencesExt

CONSTANTS
    Plans,      \* sequences of [name, dependencies], dependencies a sequence
    NoError     \* no error so far

ASSUME GraphAssumption ==
    /\ \A p \in Plans :
          /\ Len(p) \in Nat /\ DOMAIN p = 1 .. Len(p)
          /\ \A i \in DOMAIN p : LET d == p[i].dependencies
                                 IN  Len(d) \in Nat /\ DOMAIN d = 1 .. Len(d)
    /\ NoError \notin {"Unknown dependency", "Task graph contains a cycle."}

VARIABLES
    plan,       \* the tasks as planned
    indegree,   \* for each name, the dependencies that are still open
    queue,      \* names whose dependencies are done
    ordered,    \* names taken from the queue
    error       \* the ValueError raised, or NoError

graphVars == <<plan, indegree, queue, ordered, error>>

NamesOf(p) == {p[i].name : i \in DOMAIN p}

\* The dependencies of a name, each by its task and its place there, and what each
\* waits for.  A name that occurs twice in the plan has the dependencies of both tasks.
Edges(name) ==
    UNION {{i} \X DOMAIN plan[i].dependencies : i \in {i \in DOMAIN plan : plan[i].name = name}}
Target(e) == plan[e[1]].dependencies[e[2]]
EdgesTo(name, target) == {e \in Edges(name) : Target(e) = target}

UnknownNames == {d \in UNION {Range(plan[i].dependencies) : i \in DOMAIN plan} : d \notin NamesOf(plan)}

\* The names of the tasks at the indices S, in the order of the plan.
NamesInOrder(S) ==
    [k \in 1 .. Cardinality(S) |->
        plan[CHOOSE i \in S : Cardinality({j \in S : j < i}) = k - 1].name]

\* The keys of a dict keep the place where they came first.
FirstOfName(i) == \A j \in 1 .. i - 1 : plan[j].name # plan[i].name

GraphInit ==
    /\ plan \in Plans
    /\ error = IF UnknownNames = {} THEN NoError ELSE "Unknown dependency"
    /\ indegree = [name \in NamesOf(plan) |-> Cardinality(Edges(name))]
    /\ queue = NamesInOrder({i \in DOMAIN plan : FirstOfName(i) /\ indegree[plan[i].name] = 0})
    /\ ordered = <<>>

\* Mutant: one finished dependency is enough.
Released_Any(degrees, name) == degrees[name] < indegree[name] /\ name \notin Range(ordered \o queue)

Released(degrees, name) == degrees[name] = 0

\* The dependents of a task are counted down, an edge at a time; the ones that come
\* to zero join the queue at their last edge.
TakeTask ==
    /\ error = NoError
    /\ queue # <<>>
    /\ LET target == Head(queue)
           waits(i) == \E k \in DOMAIN plan[i].dependencies : plan[i].dependencies[k] = target
           last(i) == waits(i) /\ \A j \in i + 1 .. Len(plan) : plan[j].name = plan[i].name => ~waits(j)
           degrees == [n \in DOMAIN indegree |-> indegree[n] - Cardinality(EdgesTo(n, target))]
       IN  /\ indegree' = degrees
           /\ queue' = Tail(queue) \o
                 NamesInOrder({i \in DOMAIN plan : last(i) /\ Released(degrees, plan[i].name)})
           /\ ordered' = Append(ordered, target)
    /\ UNCHANGED <<plan, error>>

FindCycle ==
    /\ error = NoError
    /\ queue = <<>>
    /\ Len(ordered) # Len(plan)
    /\ error' = "Task graph contains a cycle."
    /\ UNCHANGED <<plan, indegree, queue, ordered>>

GraphNext == TakeTask \/ FindCycle

GraphSpec == GraphInit /\ [][GraphNext]_graphVars

-------------------------------------------------------------------------------
Follows(order) ==
    \A i \in DOMAIN plan, j, k \in DOMAIN order :
        (order[j] = plan[i].name /\ order[k] \in Range(plan[i].dependencies)) => k < j

\* The tasks come in an order in which each follows all it depends on, every task
\* once; an error is the answer to exactly those plans that have no such order,
\* because a name is unknown or doubled or a task depends on itself in the end.
OrdersOrRefuses ==
    LET done == queue = <<>> /\ (error # NoError \/ Len(ordered) = Len(plan))
        orders == {f \in [DOMAIN plan -> NamesOf(plan)] : Range(f) = NamesOf(plan) /\ IsInjective(f)}
    IN  done =>
            IF error = NoError THEN ordered \in orders /\ Follows(ordered)
            ELSE UnknownNames # {} \/ ~\E f \in orders : Follows(f)
===============================================================================
