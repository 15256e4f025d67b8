------------------------------ MODULE Routing ------------------------------
(***************************************************************************)
(* RoutingService (services/routing_service.py) with the state it shares   *)
(* between the calls of one process: the circuit breaker, the exact-match  *)
(* cache in Redis and the similarity cache in PostgreSQL.                  *)
(*                                                                         *)
(* One call runs on the event loop until its next await, so a step is what *)
(* happens between two awaits.  The provider is chosen before the first    *)
(* await and its outcome is recorded after the last one: meanwhile other   *)
(* calls open and close the breaker and fill the caches.                   *)
(***************************************************************************)
EXTENDS RouteSelection

CONSTANTS Call,       \* calls of route and stream_route
          Similar,    \* pairs of prompts at or above the similarity threshold
          Threshold,  \* failures that open the breaker; 3 in the code
          Faults      \* TRUE when Redis, the embedder, clients or the process
                      \* may fail

ASSUME RoutingAssumption ==
    /\ Similar \subseteq Prompt \X Prompt
    /\ \A p \in Prompt : <<p, p>> \in Similar
    /\ Threshold \in Nat \ {0}
    /\ Faults \in BOOLEAN

VARIABLES breaker,  \* CircuitBreaker._states
          redis,    \* SemanticCache: [Prompt -> [Cap -> entry or None]]
          rows,     \* semantic_cache_entries, without expiry
          calls

vars == <<breaker, redis, rows, calls>>

----------------------------------------------------------------------------
\* The text of a completion: what it answers, the provider that wrote it and
\* the model's name under which it was asked there.
Answer == [prompt : Prompt, provider : Provider, name : Name]
Entry  == [answer : Answer, local : BOOLEAN]
Row    == [prompt : Prompt, cap : Cap, answer : Answer, local : BOOLEAN]

Health == [failures : Nat, healthy : BOOLEAN]
Healthy == [failures |-> 0, healthy |-> TRUE]

Ended == {"rejected", "answered", "failed", "gone"}
InCall == {"lookup", "search", "warm", "call", "store", "persist"}
CallState == [pc : {"idle"} \cup InCall \cup Ended,
              req : Request \cup {None}, cap : Cap \cup {None},
              found : Row \cup {None}, answer : Answer \cup {None}]
IdleCall == [pc |-> "idle", req |-> None, cap |-> None, found |-> None,
             answer |-> None]

\* The shared state and every call hold values of their types.
TypeOK ==
    /\ breaker \in [Provider -> Health]
    /\ redis \in [Prompt -> [Cap -> Entry \cup {None}]]
    /\ rows \subseteq Row
    /\ calls \in [Call -> CallState]

Init ==
    /\ breaker = [p \in Provider |-> Healthy]
    /\ redis = [p \in Prompt |-> [c \in Cap |-> None]]
    /\ rows = {}
    /\ calls = [q \in Call |-> IdleCall]

----------------------------------------------------------------------------
(* Circuit breaker                                                         *)

is_available(p) == breaker[p].healthy

\* Mutant: the comparison is off by one.
RecordFailureEarly(p) ==
    LET n == breaker[p].failures + 1 IN
    breaker' = [breaker EXCEPT ![p] =
                  [failures |-> n,
                   healthy |-> breaker[p].healthy /\ n < Threshold - 1]]

record_failure(p) ==
    LET n == breaker[p].failures + 1 IN
    breaker' = [breaker EXCEPT ![p] =
                  [failures |-> n,
                   healthy |-> breaker[p].healthy /\ n < Threshold]]

record_success(p) == breaker' = [breaker EXCEPT ![p] = Healthy]

----------------------------------------------------------------------------
(* One call                                                                *)

Goto(q, state) == calls' = [calls EXCEPT ![q] = state]
Move(q, pc)    == Goto(q, [calls[q] EXCEPT !.pc = pc])

\* Requests with tools defined and streams do not use the caches.
Cached(r) == ~r.agentic /\ ~r.stream

Available(r) == {c \in Candidates(r) : is_available(c.provider)}

Dispatch(q, r, S) ==
    /\ calls[q].pc = "idle"
    /\ Admissible(r)
    /\ S # {}
    /\ Goto(q, [IdleCall EXCEPT !.pc = IF Cached(r) THEN "lookup" ELSE "call",
                                !.req = r, !.cap = Select(r, S)])
    /\ UNCHANGED <<breaker, redis, rows>>

\* Mutant: availability is not asked.
PrepareUnchecked(q, r) == Dispatch(q, r, Candidates(r))

\* Mutant: the policy is not asked again for each provider.
PrepareWithoutPrivacy(q, r) ==
    Dispatch(q, r, {c \in Cap : /\ Resolves[r.name] \in {None, c}
                                /\ r.local => c.local
                                /\ is_available(c.provider)})

\* _prepare_route, and the start of route or of the stream.
Prepare(q, r) == Dispatch(q, r, Available(r))

\* Policy, quota or breaker leave nothing to route to.
Reject(q, r) ==
    /\ calls[q].pc = "idle"
    /\ ~Admissible(r) \/ Available(r) = {}
    /\ Goto(q, [IdleCall EXCEPT !.pc = "rejected", !.req = r])
    /\ UNCHANGED <<breaker, redis, rows>>

Answered(q, answer) ==
    Goto(q, [calls[q] EXCEPT !.pc = "answered", !.answer = answer])

\* semantic_cache.get; an error counts as a miss.
EntryOf(c) == redis[c.req.text][c.cap]
Hit(c) == EntryOf(c) # None /\ (c.req.local => EntryOf(c).local)

Lookup(q) ==
    LET c == calls[q] IN
    /\ c.pc = "lookup"
    /\ \/ Hit(c) /\ Answered(q, EntryOf(c).answer)
       \/ (~Hit(c) \/ Faults) /\ Move(q, "search")
    /\ UNCHANGED <<breaker, redis, rows>>

\* find_similar_entry: a row of the same prompt if there is one, otherwise a
\* similar one; for a local request only rows that were made locally.
Matching(c) == {w \in rows : /\ w.cap = c.cap
                             /\ <<w.prompt, c.req.text>> \in Similar
                             /\ c.req.local => w.local}
Nearest(c) ==
    LET exact == {w \in Matching(c) : w.prompt = c.req.text} IN
    IF exact # {} THEN exact ELSE Matching(c)

Search(q) ==
    LET c == calls[q] IN
    /\ c.pc = "search"
    /\ \/ \E w \in Nearest(c) :
             Goto(q, [c EXCEPT !.pc = "warm", !.found = w])
       \/ (Nearest(c) = {} \/ Faults) /\ Move(q, "call")
    /\ UNCHANGED <<breaker, redis, rows>>

SetEntry(c, answer, local) ==
    redis' = [redis EXCEPT ![c.req.text] =
                [@ EXCEPT ![c.cap] = [answer |-> answer, local |-> local]]]

\* Mutant: an answer found under another prompt is persisted for this one.
WarmAndPersist(q) ==
    LET c == calls[q] IN
    /\ c.pc = "warm"
    /\ SetEntry(c, c.found.answer, c.found.local)
    /\ rows' = rows \cup {[prompt |-> c.req.text, cap |-> c.cap,
                           answer |-> c.found.answer, local |-> c.found.local]}
    /\ Answered(q, c.found.answer)
    /\ UNCHANGED breaker

\* The row's answer is put into Redis under this prompt and returned.
Warm(q) ==
    LET c == calls[q] IN
    /\ c.pc = "warm"
    /\ SetEntry(c, c.found.answer, c.found.local) \/ (Faults /\ UNCHANGED redis)
    /\ Answered(q, c.found.answer)
    /\ UNCHANGED <<breaker, rows>>

\* The provider of the chosen capability answers, as the model that the request
\* names: the name of the chosen one is not sent.  Without caching the success
\* is recorded at once.
Complete(q) ==
    LET c == calls[q]
        a == [prompt |-> c.req.text, provider |-> c.cap.provider,
              name |-> c.req.name] IN
    /\ c.pc = "call"
    /\ <<a.provider, a.name>> \in Serves
    /\ IF Cached(c.req)
          THEN /\ Goto(q, [c EXCEPT !.pc = "store", !.answer = a])
               /\ UNCHANGED breaker
          ELSE Answered(q, a) /\ record_success(c.cap.provider)
    /\ UNCHANGED <<redis, rows>>

\* The provider fails, or its stream breaks off.
CallFails(q) ==
    /\ calls[q].pc = "call"
    /\ record_failure(calls[q].cap.provider)
    /\ Move(q, "failed")
    /\ UNCHANGED <<redis, rows>>

\* _store_cached_response, first half; an error is swallowed.
Store(q) ==
    LET c == calls[q] IN
    /\ c.pc = "store"
    /\ SetEntry(c, c.answer, c.req.local) \/ (Faults /\ UNCHANGED redis)
    /\ Move(q, "persist")
    /\ UNCHANGED <<breaker, rows>>

\* Second half, persist_entry; only now is the success recorded.
Persist(q) ==
    LET c == calls[q]
        w == [prompt |-> c.req.text, cap |-> c.cap, answer |-> c.answer,
              local |-> c.req.local] IN
    /\ c.pc = "persist"
    /\ rows' = rows \cup {w} \/ (Faults /\ UNCHANGED rows)
    /\ record_success(c.cap.provider)
    /\ Move(q, "answered")
    /\ UNCHANGED redis

\* The call is cancelled at an await, as when the client of a stream goes
\* away or the server shuts down: CancelledError is no Exception, so
\* neither outcome is recorded.
Cancel(q) ==
    /\ Faults
    /\ calls[q].pc \in InCall
    /\ Move(q, "gone")
    /\ UNCHANGED <<breaker, redis, rows>>

----------------------------------------------------------------------------
(* Around the calls                                                        *)

\* Redis drops an entry after an hour.
Expire(p, c) ==
    /\ redis[p][c] # None
    /\ redis' = [redis EXCEPT ![p] = [@ EXCEPT ![c] = None]]
    /\ UNCHANGED <<breaker, rows, calls>>

\* The process starts anew: the breaker forgets, its calls are lost.
Restart ==
    /\ Faults
    /\ breaker' = [p \in Provider |-> Healthy]
    /\ calls' = [q \in Call |-> IF calls[q].pc \in InCall
                                THEN [calls[q] EXCEPT !.pc = "gone"]
                                ELSE calls[q]]
    /\ UNCHANGED <<redis, rows>>

Step(q) == \/ Lookup(q) \/ Search(q) \/ Warm(q) \/ Complete(q)
           \/ CallFails(q) \/ Store(q) \/ Persist(q)

Next ==
    \/ \E q \in Call, r \in Request : Prepare(q, r) \/ Reject(q, r)
    \/ \E q \in Call : Step(q) \/ Cancel(q)
    \/ \E p \in Prompt, c \in Cap : Expire(p, c)
    \/ Restart

Spec == Init /\ [][Next]_vars

----------------------------------------------------------------------------
(* Safety                                                                  *)

\* A local request is only ever sent to Ollama, and only answered with text
\* that Ollama wrote, through whichever cache it comes.
LocalStaysLocal ==
    \A q \in Call :
        calls[q].req # None /\ calls[q].req.local =>
            /\ calls[q].pc \in InCall => calls[q].cap.provider = Ollama
            /\ calls[q].answer # None => calls[q].answer.provider = Ollama

\* An answer was written by the provider that the decision names, for a prompt
\* similar to the one asked, and under a name that means no other registered
\* model than the decision's: filling Redis from PostgreSQL, under a prompt that
\* the answer was not written for, does not add up over several hits.  It may
\* still be the text of an unregistered model, cached under the decision's.
AnswerWithinOneHop ==
    \A q \in Call :
        LET c == calls[q] IN
        c.answer # None =>
            /\ c.answer.provider = c.cap.provider
            /\ Resolves[c.answer.name] \in {None, c.cap}
            /\ <<c.answer.prompt, c.req.text>> \in Similar

\* The breaker is open only if as many different calls of that provider failed
\* as the threshold says, and it counts no failure that did not happen.
FailedAt(p) == {q \in Call : calls[q].pc = "failed" /\ calls[q].cap.provider = p}
OpenAfterFailures ==
    \A p \in Provider :
        /\ breaker[p].failures <= Cardinality(FailedAt(p))
        /\ ~breaker[p].healthy => Cardinality(FailedAt(p)) >= Threshold

\* A provider whose breaker is open while none of its calls is under way is
\* out of use until the process restarts: no call is sent to it, and so
\* nothing can close the breaker.
InFlight(p) == {q \in Call : calls[q].pc \in InCall /\ calls[q].cap.provider = p}
Stranded(p) == ~breaker[p].healthy /\ InFlight(p) = {}
StrandedStaysStranded ==
    [][\A p \in Provider : Stranded(p) => Stranded(p)' \/ Restart]_vars

----------------------------------------------------------------------------
(* What the documents say                                                  *)

Calling(q) == calls[q].pc = "call"

\* SPEC.md: "Scrub sensitive data before sending to hosted providers".
ScrubbedForHosted ==
    \A q \in Call : Calling(q) /\ calls[q].cap.provider # Ollama =>
        SentUnredacted(calls[q].req) = {}
=============================================================================
