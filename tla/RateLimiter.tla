---------------------------- MODULE RateLimiter ----------------------------
(***************************************************************************)
(* RateLimitMiddleware (core/rate_limiter.py): a counter per caller in     *)
(* Redis that should vanish a minute after it was created.                 *)
(*                                                                         *)
(* INCR and EXPIRE are two round trips, and only the request that saw the  *)
(* counter at one sends the second.  An error of Redis lets a request      *)
(* through.                                                                *)
(***************************************************************************)
EXTENDS Naturals, FiniteSets

CONSTANTS Caller,   \* what identifies callers: API key, project or address
          Req,      \* requests the process can have in hand at once
          Limit,    \* default_rate_limit_per_minute
          Window,   \* the minute, in ticks of the clock
          MaxCount, \* bound on a counter
          Faults    \* TRUE when Redis or the process may fail

ASSUME RateAssumption ==
    /\ Limit \in Nat \ {0} /\ Window \in Nat \ {0} /\ MaxCount > Limit
    /\ Faults \in BOOLEAN

VARIABLES counters,  \* [Caller -> count and time to live]
          reqs,      \* [Req -> where the request is]
          granted,   \* [Caller -> grants of the last Window: their age in ticks, where
                     \* the present tick is 1, and their number in the counter]
          stuck      \* callers whose EXPIRE was lost, for ever

vars == <<counters, reqs, granted, stuck>>

Forever == Window + 1
NoCounter == [count |-> 0, ttl |-> 0]

Init ==
    /\ counters = [c \in Caller |-> NoCounter]
    /\ reqs = [q \in Req |-> [pc |-> "idle", caller |-> CHOOSE c \in Caller : TRUE,
                              current |-> 0]]
    /\ granted = [c \in Caller |-> {}]
    /\ stuck = {}

----------------------------------------------------------------------------
Move(q, pc) == reqs' = [reqs EXCEPT ![q].pc = pc]

\* INCR: a counter that Redis creates has no time to live.
Arrive(q, c) ==
    LET n == counters[c].count + 1 IN
    /\ reqs[q].pc = "idle"
    /\ n <= MaxCount
    /\ counters' = [counters EXCEPT ![c] =
                      [count |-> n, ttl |-> IF n = 1 THEN Forever ELSE @.ttl]]
    /\ reqs' = [reqs EXCEPT ![q] = [pc |-> "counted", caller |-> c,
                                    current |-> n]]
    /\ granted' = IF n <= Limit
                  THEN [granted EXCEPT ![c] = @ \cup {[age |-> 1, number |-> n]}]
                  ELSE granted
    /\ UNCHANGED stuck

\* Mutant: the time to live is shorter than the window of the limit.
SetShortExpiry(c) ==
    counters' = [counters EXCEPT ![c].ttl = IF @ = 0 THEN 0 ELSE 1]

\* EXPIRE has no effect on a counter that is gone.
SetExpiry(c) ==
    counters' = [counters EXCEPT ![c].ttl = IF @ = 0 THEN 0 ELSE Window]

\* Mutant: the comparison with one is off by one.
ExpireSkipped(q) ==
    /\ reqs[q].pc = "counted"
    /\ reqs[q].current = 1
    /\ Move(q, "admitted")
    /\ UNCHANGED <<counters, granted, stuck>>

\* EXPIRE, by the request that saw the counter at one.
Expire(q) ==
    /\ reqs[q].pc = "counted"
    /\ reqs[q].current = 1
    /\ SetExpiry(reqs[q].caller)
    /\ Move(q, "admitted")
    /\ UNCHANGED <<granted, stuck>>

\* The others go on to the decision; a refused one gets 429 and Retry-After.
Decide(q) ==
    /\ reqs[q].pc = "counted"
    /\ reqs[q].current > 1
    /\ Move(q, IF reqs[q].current > Limit THEN "refused" ELSE "admitted")
    /\ UNCHANGED <<counters, granted, stuck>>

Respond(q) ==
    /\ reqs[q].pc \in {"admitted", "refused"}
    /\ Move(q, "idle")
    /\ UNCHANGED <<counters, granted, stuck>>

\* EXPIRE fails and the request passes, or its process dies before it.
ExpireLost(q) ==
    /\ Faults
    /\ reqs[q].pc = "counted"
    /\ reqs[q].current = 1
    /\ \E pc \in {"idle", "admitted"} : Move(q, pc)
    /\ stuck' = stuck \cup {reqs[q].caller}
    /\ UNCHANGED <<counters, granted>>

\* A tick of the clock of Redis.
Aged(k) == IF k.ttl \in {0, Forever} THEN k
           ELSE IF k.ttl = 1 THEN NoCounter ELSE [k EXCEPT !.ttl = @ - 1]

Older(grants) ==
    {[age |-> g.age + 1, number |-> g.number] : g \in {h \in grants : h.age < Window}}

Tick ==
    /\ counters' = [c \in Caller |-> Aged(counters[c])]
    /\ granted' = [c \in Caller |-> Older(granted[c])]
    /\ UNCHANGED <<reqs, stuck>>

Step(q) == Expire(q) \/ Decide(q) \/ Respond(q)

Next ==
    \/ \E q \in Req, c \in Caller : Arrive(q, c)
    \/ \E q \in Req : Step(q) \/ ExpireLost(q)
    \/ Tick

Spec == Init /\ [][Next]_vars

\* Time passes and requests are carried on.
FairSpec == Spec /\ WF_vars(Tick) /\ \A q \in Req : WF_vars(Step(q))

----------------------------------------------------------------------------
\* In any minute, however it lies across the counters' lifetimes and however
\* late EXPIRE comes, a caller is granted at most twice the limit.  (A counter only
\* vanishes on a tick, so the grants of one tick differ in their numbers.)
AtMostTwiceTheLimit ==
    \A c \in Caller : Cardinality(granted[c]) <= 2 * Limit

\* A caller at its limit is not refused for ever, unless its EXPIRE was lost:
\* the counter vanishes, whatever more requests it sends meanwhile.
LimitIsLifted ==
    \A c \in Caller :
        counters[c].count >= Limit ~> counters[c].count = 0 \/ c \in stuck
=============================================================================
