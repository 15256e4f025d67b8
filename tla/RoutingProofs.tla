--------------------------- MODULE RoutingProofs ---------------------------
(***************************************************************************)
(* What Routing guarantees for any number of providers, capabilities,      *)
(* prompts, requests and overlapping calls.                                *)
(***************************************************************************)
EXTENDS Routing, NumberFacts

(* The choice                                                              *)

\* The list is sorted without ties, so it has a first and a last member.
LEMMA FirstOfCandidates ==
  ASSUME NEW S \in SUBSET Cap, S # {}, NEW s \in Strategy
  PROVE  First(S, s) \in S
<1>1. \E c \in S : \A d \in S : Rank[s][c] <= Rank[s][d]
  <2>1. \A x \in S : Rank[s][x] \in Nat
    BY RankAssumption
  <2>2. QED
    BY <2>1, LeastOfAny
<1>2. QED
  BY <1>1 DEF First

LEMMA LastOfCandidates ==
  ASSUME NEW S \in SUBSET Cap, S # {}, NEW s \in Strategy
  PROVE  Last(S, s) \in S
<1>1. \E c \in S : \A d \in S : Rank[s][d] <= Rank[s][c]
  <2>1. \A x \in S : Rank[s][x] \in Nat
    BY RankAssumption
  <2>2. IsFiniteSet(S)
    BY SelectionAssumption, FS_Subset
  <2>3. QED
    BY <2>1, <2>2, GreatestOfFinite
<1>2. QED
  BY <1>1 DEF Last

\* The choice is one of the candidates, whatever the window and the latency
\* rule out.
LEMMA SelectionIsACandidate ==
  ASSUME NEW r \in Request, NEW S \in SUBSET Cap, S # {}
  PROVE  Select(r, S) \in S
<1> DEFINE suits == {c \in S : ~Overflows(r, c) /\ WithinSla(r, c)}
<1>1. r.strategy \in Strategy
  BY SelectionAssumption DEF RequestType
<1>2. suits # {} => First(suits, r.strategy) \in suits
  BY <1>1, FirstOfCandidates
<1>3. Last(S, r.strategy) \in S
  BY <1>1, LastOfCandidates
<1>4. QED
  BY <1>2, <1>3 DEF Select

\* A call goes to a provider that is available and that its privacy allows.
LEMMA ChoiceIsAvailable ==
  ASSUME NEW r \in Request, Available(r) # {}
  PROVE  LET c == Select(r, Available(r)) IN
         /\ c \in Cap
         /\ is_available(c.provider)
         /\ r.local => c.provider = Ollama
         /\ Resolves[r.name] \in {None, c}
<1>1. Available(r) \in SUBSET Cap
  BY DEF Available, Candidates
<1>2. Select(r, Available(r)) \in Available(r)
  BY <1>1, SelectionIsACandidate
<1>3. QED
  BY <1>2 DEF Available, Candidates, Capable, PrivacyAllows

----------------------------------------------------------------------------
(* The caches                                                              *)

\* The answer was written for a call to which capability c was given: by the
\* provider of c, and under no name of another capability.
MadeFor(answer, c) ==
    /\ answer.provider = c.provider
    /\ Resolves[answer.name] \in {None, c}

\* What an entry of Redis says under prompt p and capability c: the answer was
\* written for c and for a similar prompt, and local answers are Ollama's.
EntryIsTrue(e, p, c) ==
    /\ MadeFor(e.answer, c)
    /\ <<e.answer.prompt, p>> \in Similar
    /\ e.local => c.provider = Ollama

\* A row of PostgreSQL only ever holds the answer that was written for its own
\* prompt.  This is why a hit through Redis, one through PostgreSQL and the
\* next through Redis again do not carry an answer further and further.
RowIsTrue(w) ==
    /\ MadeFor(w.answer, w.cap)
    /\ w.answer.prompt = w.prompt
    /\ w.local => w.cap.provider = Ollama

\* What a call holds.
CallIsTrue(c) ==
    /\ c.pc \in InCall =>
          /\ c.req \in Request
          /\ c.cap \in Cap
          /\ Resolves[c.req.name] \in {None, c.cap}
    /\ (c.pc \in InCall \/ c.answer # None) /\ c.req.local =>
          c.cap.provider = Ollama
    /\ c.pc = "warm" =>
          /\ c.found \in Row
          /\ RowIsTrue(c.found)
          /\ c.found.cap = c.cap
          /\ <<c.found.prompt, c.req.text>> \in Similar
    /\ c.pc \in {"store", "persist"} =>
          /\ c.answer \in Answer
          /\ MadeFor(c.answer, c.cap)
          /\ c.answer.prompt = c.req.text
    /\ c.answer # None =>
          /\ MadeFor(c.answer, c.cap)
          /\ <<c.answer.prompt, c.req.text>> \in Similar

CachesAreTrue ==
    /\ \A p \in Prompt, c \in Cap :
          redis[p][c] # None => EntryIsTrue(redis[p][c], p, c)
    /\ \A w \in rows : RowIsTrue(w)

\* The inductive invariant behind LocalStaysLocal and AnswerWithinOneHop.
CacheInv ==
    /\ TypeOK
    /\ CachesAreTrue
    /\ \A q \in Call : CallIsTrue(calls[q])

\* A step that moves one call to state v.
LEMMA CallMoves ==
  ASSUME CacheInv, NEW q \in Call, NEW v \in CallState, Goto(q, v),
         CallIsTrue(v), breaker' \in [Provider -> Health],
         redis' \in [Prompt -> [Cap -> Entry \cup {None}]],
         rows' \subseteq Row, CachesAreTrue'
  PROVE  CacheInv'
<1>1. calls'[q] = v /\ \A x \in Call \ {q} : calls'[x] = calls[x]
  BY DEF CacheInv, TypeOK, Goto
<1>2. TypeOK'
  BY DEF CacheInv, TypeOK, Goto
<1>3. QED
  BY <1>1, <1>2 DEF CacheInv

\* Filling Redis under the call's own prompt and model.
LEMMA EntrySet ==
  ASSUME CacheInv, NEW q \in Call, NEW answer \in Answer, NEW local \in BOOLEAN,
         calls[q].req \in Request, calls[q].cap \in Cap,
         SetEntry(calls[q], answer, local) \/ UNCHANGED redis,
         EntryIsTrue([answer |-> answer, local |-> local],
                     calls[q].req.text, calls[q].cap),
         UNCHANGED rows
  PROVE  /\ redis' \in [Prompt -> [Cap -> Entry \cup {None}]]
         /\ rows' \subseteq Row
         /\ CachesAreTrue'
<1> DEFINE p == calls[q].req.text
           c == calls[q].cap
           e == [answer |-> answer, local |-> local]
<1>1. p \in Prompt /\ c \in Cap /\ e \in Entry
  BY SelectionAssumption DEF RequestType, Entry
<1>2. /\ redis \in [Prompt -> [Cap -> Entry \cup {None}]]
      /\ rows \subseteq Row /\ CachesAreTrue
  BY DEF CacheInv, TypeOK
<1>3. CASE UNCHANGED redis
  BY <1>2, <1>3 DEF CachesAreTrue
<1>4. CASE SetEntry(calls[q], answer, local)
  <2>1. redis' = [redis EXCEPT ![p] = [redis[p] EXCEPT ![c] = e]]
    BY <1>1, <1>2, <1>4 DEF SetEntry
  <2>2. /\ redis' \in [Prompt -> [Cap -> Entry \cup {None}]]
        /\ \A x \in Prompt, d \in Cap :
              redis'[x][d] = IF x = p /\ d = c THEN e ELSE redis[x][d]
    <3> HIDE DEF e, p, c
    <3>1. QED
      BY <1>1, <1>2, <2>1
  <2>3. EntryIsTrue(e, p, c)
    OBVIOUS
  <2>4. QED
    <3> HIDE DEF e, p, c
    <3>1. QED
      BY <1>2, <2>2, <2>3 DEF CachesAreTrue
<1>5. QED
  BY <1>3, <1>4

LEMMA NextCache == CacheInv /\ [Next]_vars => CacheInv'
<1> SUFFICES ASSUME CacheInv, [Next]_vars PROVE CacheInv'
  OBVIOUS
<1> USE DEF InCall, Ended
<1>0. /\ TypeOK /\ CachesAreTrue
      /\ \A q \in Call : calls[q] \in CallState /\ CallIsTrue(calls[q])
  BY DEF CacheInv, TypeOK
<1>1. CASE UNCHANGED vars
  BY <1>1 DEF vars, CacheInv, TypeOK, CachesAreTrue
<1>2. ASSUME UNCHANGED <<redis, rows>>
      PROVE  CachesAreTrue' /\ redis' \in [Prompt -> [Cap -> Entry \cup {None}]]
             /\ rows' \subseteq Row
  BY <1>0, <1>2 DEF CachesAreTrue, TypeOK
<1>3. ASSUME NEW p \in Provider, record_failure(p) \/ record_success(p)
      PROVE  breaker' \in [Provider -> Health]
  <2>1. /\ breaker \in [Provider -> Health] /\ breaker[p].failures + 1 \in Nat
        /\ breaker[p].healthy \in BOOLEAN
    BY <1>0 DEF TypeOK, Health
  <2>2. PICK h \in Health : breaker' = [breaker EXCEPT ![p] = h]
    <3>1. CASE record_success(p)
      BY <3>1 DEF record_success, Healthy, Health
    <3>2. CASE record_failure(p)
      <4> DEFINE h == [failures |-> breaker[p].failures + 1,
                       healthy |-> breaker[p].healthy
                                      /\ breaker[p].failures + 1 < Threshold]
      <4>1. h \in Health
        BY <2>1, <3>2 DEF Health
      <4>2. breaker' = [breaker EXCEPT ![p] = h]
        BY <3>2 DEF record_failure
      <4> HIDE DEF h
      <4>3. QED
        BY <4>1, <4>2
    <3>3. QED
      BY <1>3, <3>1, <3>2
  <2>3. QED
    BY <2>1, <2>2
<1>4. ASSUME NEW q \in Call, NEW r \in Request, Prepare(q, r) PROVE CacheInv'
  <2> DEFINE c == Select(r, Available(r))
             v == [IdleCall EXCEPT !.pc = IF Cached(r) THEN "lookup" ELSE "call",
                                   !.req = r, !.cap = c]
  <2>1. /\ c \in Cap /\ (r.local => c.provider = Ollama)
        /\ Resolves[r.name] \in {None, c}
    BY <1>4, ChoiceIsAvailable DEF Prepare, Dispatch
  <2>2. Goto(q, v) /\ UNCHANGED <<breaker, redis, rows>>
    BY <1>4 DEF Prepare, Dispatch
  <2>3. v \in CallState /\ CallIsTrue(v)
    <3> HIDE DEF c
    <3>1. QED
      BY <2>1 DEF IdleCall, CallState, CallIsTrue
  <2>4. QED
    <3> HIDE DEF v
    <3>1. QED
      BY <1>0, <1>2, <2>2, <2>3, CallMoves DEF TypeOK
<1>5. ASSUME NEW q \in Call, NEW r \in Request, Reject(q, r) PROVE CacheInv'
  <2> DEFINE v == [IdleCall EXCEPT !.pc = "rejected", !.req = r]
  <2>1. Goto(q, v) /\ UNCHANGED <<breaker, redis, rows>>
    BY <1>5 DEF Reject
  <2>2. v \in CallState /\ CallIsTrue(v)
    BY DEF IdleCall, CallState, CallIsTrue
  <2>3. QED
    <3> HIDE DEF v
    <3>1. QED
      BY <1>0, <1>2, <2>1, <2>2, CallMoves DEF TypeOK
\* A step between two awaits that leaves the caches alone and only moves on.
<1>6. ASSUME NEW q \in Call,
             NEW pc \in {"search", "call", "persist", "failed", "gone", "answered"},
             Move(q, pc), calls[q].pc \in InCall,
             pc \in {"search", "call"} => calls[q].pc \in {"lookup", "search"},
             pc = "persist" => calls[q].pc = "store",
             breaker' \in [Provider -> Health],
             redis' \in [Prompt -> [Cap -> Entry \cup {None}]],
             rows' \subseteq Row, CachesAreTrue'
      PROVE  CacheInv'
  <2> DEFINE c == calls[q]
             v == [c EXCEPT !.pc = pc]
  <2>1. c \in CallState /\ CallIsTrue(c)
    BY <1>0
  <2>2. /\ v \in CallState /\ v.pc = pc /\ v.req = c.req /\ v.cap = c.cap
        /\ v.answer = c.answer
    BY <2>1 DEF CallState
  <2>3. CallIsTrue(v)
    <3> HIDE DEF v, c
    <3>1. c.pc \in InCall
      BY <1>6 DEF c
    <3>2. pc = "persist" => c.pc = "store"
      BY <1>6 DEF c
    <3>3. QED
      BY <2>1, <2>2, <3>1, <3>2 DEF CallIsTrue
  <2>4. Goto(q, v)
    BY <1>6 DEF Move
  <2>5. QED
    <3> HIDE DEF v
    <3>1. QED
      BY <1>6, <2>2, <2>3, <2>4, CallMoves
\* A step that ends the call with an answer, or holds one to be stored.
<1>7. ASSUME NEW q \in Call, NEW a \in Answer, NEW pc \in {"answered", "store"},
             Goto(q, [calls[q] EXCEPT !.pc = pc, !.answer = a]),
             calls[q].pc \in InCall,
             MadeFor(a, calls[q].cap),
             <<a.prompt, calls[q].req.text>> \in Similar,
             pc = "store" => a.prompt = calls[q].req.text,
             breaker' \in [Provider -> Health],
             redis' \in [Prompt -> [Cap -> Entry \cup {None}]],
             rows' \subseteq Row, CachesAreTrue'
      PROVE  CacheInv'
  <2> DEFINE c == calls[q]
             v == [c EXCEPT !.pc = pc, !.answer = a]
  <2>1. c \in CallState /\ CallIsTrue(c)
    BY <1>0
  <2>2. /\ v \in CallState /\ v.pc = pc /\ v.req = c.req /\ v.cap = c.cap
        /\ v.answer = a
    BY <2>1 DEF CallState
  <2>3. /\ c.pc \in InCall /\ MadeFor(a, c.cap)
        /\ <<a.prompt, c.req.text>> \in Similar
        /\ pc = "store" => a.prompt = c.req.text
    BY <1>7
  <2>4. CallIsTrue(v)
    <3> HIDE DEF v, c
    <3>1. QED
      BY <2>1, <2>2, <2>3 DEF CallIsTrue
  <2>5. QED
    <3> HIDE DEF v
    <3>1. QED
      BY <1>7, <2>2, <2>4, CallMoves DEF v
<1>8. ASSUME NEW q \in Call, Lookup(q) PROVE CacheInv'
  <2> DEFINE c == calls[q]
             e == EntryOf(c)
  <2>1. UNCHANGED <<breaker, redis, rows>> /\ c.pc = "lookup"
    BY <1>8 DEF Lookup
  <2>2. CASE Hit(c) /\ Answered(q, e.answer)
    <3>1. c.req \in Request /\ c.cap \in Cap /\ c.req.text \in Prompt
      BY <1>0, <2>1, SelectionAssumption DEF CallIsTrue, RequestType
    <3>2. e \in Entry /\ EntryIsTrue(e, c.req.text, c.cap)
      BY <1>0, <2>2, <3>1 DEF Hit, EntryOf, TypeOK, CachesAreTrue
    <3>3. e.answer \in Answer
      BY <3>2 DEF Entry
    <3>4. Goto(q, [calls[q] EXCEPT !.pc = "answered", !.answer = e.answer])
      BY <2>2 DEF Answered
    <3> HIDE DEF e
    <3>5. QED
      BY <1>0, <1>2, <1>7, <2>1, <3>2, <3>3, <3>4 DEF TypeOK, EntryIsTrue
  <2>3. CASE Move(q, "search")
    BY <1>0, <1>2, <1>6, <2>1, <2>3 DEF TypeOK
  <2>4. QED
    BY <1>8, <2>2, <2>3 DEF Lookup
<1>9. ASSUME NEW q \in Call, Search(q) PROVE CacheInv'
  <2> DEFINE c == calls[q]
  <2>1. UNCHANGED <<breaker, redis, rows>> /\ c.pc = "search"
    BY <1>9 DEF Search
  <2>2. ASSUME NEW w \in Nearest(c), Goto(q, [c EXCEPT !.pc = "warm", !.found = w])
        PROVE  CacheInv'
    <3> DEFINE v == [c EXCEPT !.pc = "warm", !.found = w]
    <3>1. /\ w \in rows /\ w.cap = c.cap
          /\ <<w.prompt, c.req.text>> \in Similar
      BY DEF Nearest, Matching
    <3>2. w \in Row /\ RowIsTrue(w)
      BY <1>0, <3>1 DEF TypeOK, CachesAreTrue
    <3>3. c \in CallState /\ CallIsTrue(c)
      BY <1>0
    <3>4. /\ v \in CallState /\ v.pc = "warm" /\ v.req = c.req
          /\ v.cap = c.cap /\ v.answer = c.answer /\ v.found = w
      BY <3>2, <3>3 DEF CallState
    <3>5. CallIsTrue(v)
      <4> HIDE DEF v
      <4>1. QED
        BY <2>1, <3>1, <3>2, <3>3, <3>4 DEF CallIsTrue
    <3>6. QED
      <4> HIDE DEF v
      <4>1. QED
        BY <1>0, <1>2, <2>1, <2>2, <3>4, <3>5, CallMoves DEF TypeOK, v
  <2>3. CASE Move(q, "call")
    BY <1>0, <1>2, <1>6, <2>1, <2>3 DEF TypeOK
  <2>4. QED
    BY <1>9, <2>2, <2>3 DEF Search
<1>10. ASSUME NEW q \in Call, Warm(q) PROVE CacheInv'
  <2> DEFINE c == calls[q]
             w == c.found
  <2>1. /\ c.pc = "warm" /\ UNCHANGED <<breaker, rows>>
        /\ SetEntry(c, w.answer, w.local) \/ UNCHANGED redis
        /\ Goto(q, [calls[q] EXCEPT !.pc = "answered", !.answer = w.answer])
    BY <1>10 DEF Warm, Answered
  <2>2. /\ c.req \in Request /\ c.cap \in Cap
        /\ w \in Row /\ RowIsTrue(w) /\ w.cap = c.cap
        /\ <<w.prompt, c.req.text>> \in Similar
    BY <1>0, <2>1 DEF CallIsTrue
  <2>3. /\ w.answer \in Answer /\ w.local \in BOOLEAN
        /\ MadeFor(w.answer, c.cap) /\ w.answer.prompt = w.prompt
    BY <2>2 DEF Row, RowIsTrue
  <2>4. EntryIsTrue([answer |-> w.answer, local |-> w.local], c.req.text, c.cap)
    BY <2>2, <2>3 DEF EntryIsTrue, RowIsTrue
  <2>5. /\ redis' \in [Prompt -> [Cap -> Entry \cup {None}]]
        /\ rows' \subseteq Row
        /\ CachesAreTrue'
    <3> HIDE DEF w
    <3>1. QED
      BY <2>1, <2>2, <2>3, <2>4, EntrySet
  <2>6. QED
    <3> HIDE DEF w
    <3>1. QED
      BY <1>0, <1>7, <2>1, <2>2, <2>3, <2>5 DEF TypeOK
<1>11. ASSUME NEW q \in Call, Complete(q) PROVE CacheInv'
  <2> DEFINE c == calls[q]
             a == [prompt |-> c.req.text, provider |-> c.cap.provider,
                   name |-> c.req.name]
  <2>1. c.pc = "call" /\ UNCHANGED <<redis, rows>>
    BY <1>11 DEF Complete
  <2>2. /\ c.req \in Request /\ c.cap \in Cap /\ c.req.text \in Prompt
        /\ c.cap.provider \in Provider /\ c.req.name \in Name
        /\ Resolves[c.req.name] \in {None, c.cap}
    BY <1>0, <2>1, SelectionAssumption DEF CallIsTrue, RequestType, CapType
  <2>3. /\ a \in Answer /\ MadeFor(a, c.cap) /\ a.prompt = c.req.text
        /\ <<a.prompt, c.req.text>> \in Similar
    BY <2>2, RoutingAssumption DEF Answer, MadeFor
  <2>4. PICK pc \in {"answered", "store"} :
           Goto(q, [calls[q] EXCEPT !.pc = pc, !.answer = a])
    BY <1>11 DEF Complete, Answered
  <2>5. breaker' \in [Provider -> Health]
    BY <1>0, <1>3, <1>11, <2>2 DEF Complete, TypeOK
  <2>6. QED
    <3> HIDE DEF a
    <3>1. QED
      BY <1>2, <1>7, <2>1, <2>3, <2>4, <2>5
<1>12. ASSUME NEW q \in Call, CallFails(q) PROVE CacheInv'
  <2>1. calls[q].pc = "call" /\ UNCHANGED <<redis, rows>> /\ Move(q, "failed")
    BY <1>12 DEF CallFails
  <2>2. calls[q].cap.provider \in Provider
    BY <1>0, <2>1, SelectionAssumption DEF CallIsTrue, CapType
  <2>3. breaker' \in [Provider -> Health]
    BY <1>3, <1>12, <2>2 DEF CallFails
  <2>4. QED
    BY <1>2, <1>6, <2>1, <2>3
<1>13. ASSUME NEW q \in Call, Store(q) PROVE CacheInv'
  <2> DEFINE c == calls[q]
  <2>1. /\ c.pc = "store" /\ UNCHANGED <<breaker, rows>> /\ Move(q, "persist")
        /\ SetEntry(c, c.answer, c.req.local) \/ UNCHANGED redis
    BY <1>13 DEF Store
  <2>2. /\ c.req \in Request /\ c.cap \in Cap /\ c.req \in RequestType
        /\ c.answer \in Answer /\ MadeFor(c.answer, c.cap)
        /\ c.answer.prompt = c.req.text
        /\ c.req.local => c.cap.provider = Ollama
    BY <1>0, <2>1, SelectionAssumption DEF CallIsTrue
  <2>3. c.req.local \in BOOLEAN /\ <<c.req.text, c.req.text>> \in Similar
    BY <2>2, RoutingAssumption DEF RequestType
  <2>4. EntryIsTrue([answer |-> c.answer, local |-> c.req.local],
                    c.req.text, c.cap)
    BY <2>2, <2>3 DEF EntryIsTrue
  <2>5. /\ redis' \in [Prompt -> [Cap -> Entry \cup {None}]]
        /\ rows' \subseteq Row
        /\ CachesAreTrue'
    BY <2>1, <2>2, <2>3, <2>4, EntrySet
  <2>6. QED
    BY <1>0, <1>6, <2>1, <2>5 DEF TypeOK
<1>14. ASSUME NEW q \in Call, Persist(q) PROVE CacheInv'
  <2> DEFINE c == calls[q]
             w == [prompt |-> c.req.text, cap |-> c.cap, answer |-> c.answer,
                   local |-> c.req.local]
  <2>1. /\ c.pc = "persist" /\ UNCHANGED redis /\ Move(q, "answered")
        /\ rows' = rows \cup {w} \/ UNCHANGED rows
        /\ record_success(c.cap.provider)
    BY <1>14 DEF Persist
  <2>2. /\ c.req \in Request /\ c.cap \in Cap /\ c.req \in RequestType
        /\ c.cap.provider \in Provider
        /\ c.answer \in Answer /\ MadeFor(c.answer, c.cap)
        /\ c.answer.prompt = c.req.text
        /\ c.req.local => c.cap.provider = Ollama
    BY <1>0, <2>1, SelectionAssumption DEF CallIsTrue, CapType
  <2>3. w \in Row /\ RowIsTrue(w)
    BY <2>2 DEF Row, RequestType, RowIsTrue
  <2>4. CachesAreTrue' /\ rows' \subseteq Row
        /\ redis' \in [Prompt -> [Cap -> Entry \cup {None}]]
    <3> HIDE DEF w
    <3>1. QED
      BY <1>0, <2>1, <2>3 DEF CachesAreTrue, TypeOK
  <2>5. QED
    BY <1>3, <1>6, <2>1, <2>2, <2>4
<1>15. ASSUME NEW q \in Call, Cancel(q) PROVE CacheInv'
  BY <1>0, <1>2, <1>6, <1>15 DEF Cancel, TypeOK
<1>16. ASSUME NEW p \in Prompt, NEW c \in Cap, Expire(p, c) PROVE CacheInv'
  <2>1. redis' = [redis EXCEPT ![p] = [redis[p] EXCEPT ![c] = None]]
        /\ UNCHANGED <<breaker, rows, calls>>
    BY <1>0, <1>16 DEF Expire, TypeOK
  <2>2. /\ redis' \in [Prompt -> [Cap -> Entry \cup {None}]]
        /\ \A x \in Prompt, d \in Cap : redis'[x][d] \in {None, redis[x][d]}
    BY <1>0, <2>1 DEF TypeOK
  <2>3. QED
    BY <1>0, <2>1, <2>2 DEF CacheInv, TypeOK, CachesAreTrue
<1>17. CASE Restart
  <2>1. \A q \in Call :
           calls'[q] \in {calls[q], [calls[q] EXCEPT !.pc = "gone"]}
    BY <1>17 DEF Restart
  <2>2. \A q \in Call : calls'[q] \in CallState /\ CallIsTrue(calls'[q])
    <3> SUFFICES ASSUME NEW q \in Call
                 PROVE  calls'[q] \in CallState /\ CallIsTrue(calls'[q])
      OBVIOUS
    <3> DEFINE c == calls[q]
               v == [c EXCEPT !.pc = "gone"]
    <3>1. c \in CallState /\ CallIsTrue(c)
      BY <1>0
    <3>2. /\ v \in CallState /\ v.pc = "gone" /\ v.req = c.req
          /\ v.cap = c.cap /\ v.answer = c.answer
      BY <3>1 DEF CallState
    <3>3. CallIsTrue(v)
      <4> HIDE DEF v, c
      <4>1. QED
        BY <3>1, <3>2 DEF CallIsTrue
    <3>4. QED
      BY <2>1, <3>1, <3>2, <3>3
  <2>3. /\ breaker' \in [Provider -> Health] /\ UNCHANGED <<redis, rows>>
        /\ calls' \in [Call -> CallState]
    BY <1>17, <2>2 DEF Restart, Healthy, Health
  <2>4. QED
    BY <1>0, <1>2, <2>2, <2>3 DEF CacheInv, TypeOK
<1>18. QED
  BY <1>1, <1>4, <1>5, <1>8, <1>9, <1>10, <1>11, <1>12, <1>13, <1>14, <1>15,
     <1>16, <1>17 DEF Next, Step

LEMMA InitCache == Init => CacheInv
  BY DEF Init, CacheInv, TypeOK, CachesAreTrue, CallIsTrue, IdleCall, CallState,
         Healthy, Health, InCall, Ended

THEOREM CacheInvariance == Spec => []CacheInv
<1>1. QED
  BY InitCache, NextCache, PTL DEF Spec

\* The breaker, the caches and every call keep their types.
THEOREM RoutingTypes == Spec => []TypeOK
<1>1. CacheInv => TypeOK
  BY DEF CacheInv
<1>2. QED
  BY <1>1, CacheInvariance, PTL

\* A local request is sent to Ollama and answered with Ollama's text, through
\* the provider, Redis or PostgreSQL (services/routing_service.py).
THEOREM LocalRequestsStayLocal == Spec => []LocalStaysLocal
<1>1. CacheInv => LocalStaysLocal
  BY DEF CacheInv, CallIsTrue, MadeFor, LocalStaysLocal
<1>2. QED
  BY <1>1, CacheInvariance, PTL

\* An answer is of the provider that was chosen, under a name that means no other
\* registered model than the chosen one, and of a similar prompt, however often
\* entries are copied from PostgreSQL to Redis (services/routing_service.py).
THEOREM AnswersStaySimilar == Spec => []AnswerWithinOneHop
<1>1. CacheInv => AnswerWithinOneHop
  BY DEF CacheInv, CallIsTrue, MadeFor, AnswerWithinOneHop
<1>2. QED
  BY <1>1, CacheInvariance, PTL

----------------------------------------------------------------------------
(* The circuit breaker                                                     *)

\* What a step does to the call q and to the breaker.  A call that starts
\* finds its provider available; only a call under way records an outcome.
Starts(q) ==
    /\ calls[q].pc = "idle"
    /\ calls'[q].pc \in InCall => is_available(calls'[q].cap.provider)
    /\ calls'[q].pc # "failed"
    /\ UNCHANGED breaker
Continues(q) ==
    /\ calls[q].pc \in InCall
    /\ calls'[q].cap = calls[q].cap
    /\ calls'[q].pc # "failed"
    /\ UNCHANGED breaker \/ record_success(calls[q].cap.provider)
Fails(q) ==
    /\ calls[q].pc \in InCall
    /\ calls'[q].cap = calls[q].cap
    /\ calls'[q].pc = "failed"
    /\ record_failure(calls[q].cap.provider)

LEMMA StepOfACall ==
  ASSUME CacheInv, Next
  PROVE  \/ UNCHANGED <<breaker, calls>>
         \/ Restart
         \/ \E q \in Call :
               /\ \A x \in Call \ {q} : calls'[x] = calls[x]
               /\ Starts(q) \/ Continues(q) \/ Fails(q)
<1> USE DEF InCall
<1>0. \A q \in Call : calls[q] \in CallState
  BY DEF CacheInv, TypeOK
<1>1. ASSUME NEW q \in Call, NEW v, Goto(q, v)
      PROVE  calls'[q] = v /\ \A x \in Call \ {q} : calls'[x] = calls[x]
  BY <1>1 DEF Goto, CacheInv, TypeOK
<1>2. ASSUME NEW q \in Call, NEW pc, Move(q, pc)
      PROVE  /\ calls'[q].pc = pc /\ calls'[q].cap = calls[q].cap
             /\ \A x \in Call \ {q} : calls'[x] = calls[x]
  BY <1>0, <1>1, <1>2 DEF Move, CallState
<1>3. ASSUME NEW q \in Call, NEW pc, NEW a,
             Goto(q, [calls[q] EXCEPT !.pc = pc, !.answer = a])
      PROVE  /\ calls'[q].pc = pc /\ calls'[q].cap = calls[q].cap
             /\ \A x \in Call \ {q} : calls'[x] = calls[x]
  <2> DEFINE v == [calls[q] EXCEPT !.pc = pc, !.answer = a]
  <2>1. v.pc = pc /\ v.cap = calls[q].cap
    BY <1>0 DEF CallState
  <2>2. Goto(q, v)
    BY <1>3
  <2> HIDE DEF v
  <2>3. QED
    BY <1>1, <2>1, <2>2
<1>4. ASSUME NEW q \in Call, NEW a, Answered(q, a)
      PROVE  /\ calls'[q].pc = "answered" /\ calls'[q].cap = calls[q].cap
             /\ \A x \in Call \ {q} : calls'[x] = calls[x]
  BY <1>3, <1>4 DEF Answered
<1>5. ASSUME NEW q \in Call, NEW r \in Request, Prepare(q, r)
      PROVE  /\ \A x \in Call \ {q} : calls'[x] = calls[x]
             /\ Starts(q)
  <2> DEFINE c == Select(r, Available(r))
             v == [IdleCall EXCEPT !.pc = IF Cached(r) THEN "lookup" ELSE "call",
                                   !.req = r, !.cap = c]
  <2>1. Goto(q, v) /\ calls[q].pc = "idle" /\ UNCHANGED breaker
    BY <1>5 DEF Prepare, Dispatch
  <2>2. v.cap = c /\ v.pc \in {"lookup", "call"}
    BY DEF IdleCall
  <2>3. is_available(c.provider)
    BY <1>5, ChoiceIsAvailable DEF Prepare, Dispatch
  <2>4. QED
    <3> HIDE DEF v, c
    <3>1. QED
      BY <1>1, <2>1, <2>2, <2>3 DEF Starts
<1>6. ASSUME NEW q \in Call, NEW r \in Request, Reject(q, r)
      PROVE  /\ \A x \in Call \ {q} : calls'[x] = calls[x]
             /\ Starts(q)
  <2> DEFINE v == [IdleCall EXCEPT !.pc = "rejected", !.req = r]
  <2>1. v.pc = "rejected"
    BY DEF IdleCall
  <2>2. Goto(q, v) /\ calls[q].pc = "idle" /\ UNCHANGED breaker
    BY <1>6 DEF Reject
  <2> HIDE DEF v
  <2>3. QED
    BY <1>1, <2>1, <2>2 DEF Starts
<1>7. ASSUME NEW q \in Call, Lookup(q) \/ Warm(q) \/ Store(q) \/ Cancel(q)
      PROVE  /\ \A x \in Call \ {q} : calls'[x] = calls[x]
             /\ Continues(q)
  BY <1>2, <1>4, <1>7 DEF Lookup, Warm, Store, Cancel, Continues
<1>8. ASSUME NEW q \in Call, Search(q)
      PROVE  /\ \A x \in Call \ {q} : calls'[x] = calls[x]
             /\ Continues(q)
  <2>1. CASE Move(q, "call")
    BY <1>2, <1>8, <2>1 DEF Search, Continues
  <2>2. ASSUME NEW w,
               Goto(q, [calls[q] EXCEPT !.pc = "warm", !.found = w])
        PROVE  /\ calls'[q].pc = "warm" /\ calls'[q].cap = calls[q].cap
               /\ \A x \in Call \ {q} : calls'[x] = calls[x]
    <3> DEFINE v == [calls[q] EXCEPT !.pc = "warm", !.found = w]
    <3>1. v.pc = "warm" /\ v.cap = calls[q].cap
      BY <1>0 DEF CallState
    <3>2. Goto(q, v)
      BY <2>2
    <3> HIDE DEF v
    <3>3. QED
      BY <1>1, <3>1, <3>2
  <2>3. QED
    BY <1>8, <2>1, <2>2 DEF Search, Continues
<1>9. ASSUME NEW q \in Call, Complete(q)
      PROVE  /\ \A x \in Call \ {q} : calls'[x] = calls[x]
             /\ Continues(q)
  <2> DEFINE a == [prompt |-> calls[q].req.text,
                   provider |-> calls[q].cap.provider,
                   name |-> calls[q].req.name]
  <2>1. CASE Goto(q, [calls[q] EXCEPT !.pc = "store", !.answer = a])
             /\ UNCHANGED breaker
    <3>1. /\ calls'[q].pc = "store" /\ calls'[q].cap = calls[q].cap
          /\ \A x \in Call \ {q} : calls'[x] = calls[x]
      BY <1>3, <2>1
    <3>2. QED
      BY <1>9, <2>1, <3>1 DEF Complete, Continues
  <2>2. CASE Answered(q, a) /\ record_success(calls[q].cap.provider)
    BY <1>4, <1>9, <2>2 DEF Complete, Continues
  <2>3. QED
    BY <1>9, <2>1, <2>2 DEF Complete
<1>10. ASSUME NEW q \in Call, CallFails(q)
      PROVE  /\ \A x \in Call \ {q} : calls'[x] = calls[x]
             /\ Fails(q)
  BY <1>2, <1>10 DEF CallFails, Fails
<1>11. ASSUME NEW q \in Call, Persist(q)
       PROVE  /\ \A x \in Call \ {q} : calls'[x] = calls[x]
              /\ Continues(q)
  BY <1>2, <1>11 DEF Persist, Continues
<1>12. ASSUME NEW p \in Prompt, NEW c \in Cap, Expire(p, c)
       PROVE  UNCHANGED <<breaker, calls>>
  BY <1>12 DEF Expire
<1>13. QED
  BY <1>5, <1>6, <1>7, <1>8, <1>9, <1>10, <1>11, <1>12 DEF Next, Step

\* The inductive invariant behind OpenAfterFailures: a failed call stays
\* failed, so the count that a success or a restart takes back never gets
\* ahead of the calls that failed.
BreakerInv ==
    /\ OpenAfterFailures
    /\ \A p \in Provider : IsFiniteSet(FailedAt(p))

LEMMA NextBreaker == CacheInv /\ BreakerInv /\ [Next]_vars => BreakerInv'
<1> SUFFICES ASSUME CacheInv, BreakerInv, [Next]_vars PROVE BreakerInv'
  OBVIOUS
<1> USE DEF InCall
<1>0. breaker \in [Provider -> Health] /\ Threshold \in Nat
  BY RoutingAssumption DEF CacheInv, TypeOK
<1>1. \A p \in Provider :
        /\ breaker[p].failures \in Nat /\ breaker[p].healthy \in BOOLEAN
        /\ IsFiniteSet(FailedAt(p)) /\ Cardinality(FailedAt(p)) \in Nat
        /\ breaker[p].failures <= Cardinality(FailedAt(p))
        /\ ~breaker[p].healthy => Cardinality(FailedAt(p)) >= Threshold
  BY <1>0, FS_CardinalityType DEF BreakerInv, OpenAfterFailures, Health
\* A provider whose calls did not fail in this step.
<1>2. ASSUME NEW p \in Provider, FailedAt(p)' = FailedAt(p),
             breaker'[p] = breaker[p] \/ breaker'[p] = Healthy
      PROVE  /\ IsFiniteSet(FailedAt(p))'
             /\ breaker'[p].failures <= Cardinality(FailedAt(p)')
             /\ ~breaker'[p].healthy => Cardinality(FailedAt(p)') >= Threshold
  BY <1>1, <1>2 DEF Healthy
<1>3. CASE UNCHANGED <<breaker, calls>>
  BY <1>1, <1>3 DEF BreakerInv, OpenAfterFailures, FailedAt
<1>4. CASE Restart
  <2>1. \A q \in Call : \/ calls'[q] = calls[q]
                        \/ calls[q].pc # "failed" /\ calls'[q].pc # "failed"
    BY <1>4 DEF Restart, CacheInv, TypeOK, CallState
  <2>2. \A p \in Provider : FailedAt(p)' = FailedAt(p) /\ breaker'[p] = Healthy
    BY <1>4, <2>1 DEF FailedAt, Restart
  <2>3. QED
    BY <1>2, <2>2 DEF BreakerInv, OpenAfterFailures
<1>5. ASSUME NEW q \in Call, \A x \in Call \ {q} : calls'[x] = calls[x],
             Starts(q) \/ Continues(q)
      PROVE  BreakerInv'
  <2>1. \A p \in Provider : FailedAt(p)' = FailedAt(p)
    BY <1>5 DEF FailedAt, Starts, Continues
  <2>2. \A p \in Provider : breaker'[p] = breaker[p] \/ breaker'[p] = Healthy
    BY <1>0, <1>5 DEF Starts, Continues, record_success
  <2>3. QED
    BY <1>2, <2>1, <2>2 DEF BreakerInv, OpenAfterFailures
<1>6. ASSUME NEW q \in Call, \A x \in Call \ {q} : calls'[x] = calls[x], Fails(q)
      PROVE  BreakerInv'
  <2>1. PICK o \in Provider : o = calls[q].cap.provider
    BY <1>6, SelectionAssumption DEF Fails, CacheInv, CallIsTrue, CapType
  <2> DEFINE n == breaker[o].failures + 1
  <2>2. /\ breaker'[o] = [failures |-> n,
                          healthy |-> breaker[o].healthy /\ n < Threshold]
        /\ \A p \in Provider \ {o} : breaker'[p] = breaker[p]
    BY <1>0, <1>6, <2>1 DEF Fails, record_failure
  <2>3. /\ FailedAt(o)' = FailedAt(o) \cup {q} /\ q \notin FailedAt(o)
        /\ \A p \in Provider \ {o} : FailedAt(p)' = FailedAt(p)
    BY <1>6, <2>1 DEF FailedAt, Fails
  <2>4. /\ IsFiniteSet(FailedAt(o)')
        /\ Cardinality(FailedAt(o)') = Cardinality(FailedAt(o)) + 1
    BY <1>1, <2>1, <2>3, FS_AddElement
  <2>5. breaker'[o].failures = n
        /\ (breaker'[o].healthy <=> breaker[o].healthy /\ n < Threshold)
    <3>1. CASE breaker[o].healthy /\ n < Threshold
      <4>1. breaker'[o] = [failures |-> n, healthy |-> TRUE]
        BY <2>2, <3>1
      <4>2. QED
        BY <3>1, <4>1
    <3>2. CASE ~(breaker[o].healthy /\ n < Threshold)
      <4>1. breaker'[o] = [failures |-> n, healthy |-> FALSE]
        BY <2>2, <3>2
      <4>2. QED
        BY <3>2, <4>1
    <3>3. QED
      BY <3>1, <3>2
  <2>6. /\ breaker'[o].failures <= Cardinality(FailedAt(o)')
        /\ ~breaker'[o].healthy => Cardinality(FailedAt(o)') >= Threshold
    BY <1>0, <1>1, <2>1, <2>4, <2>5
  <2>7. \A p \in Provider \ {o} :
             /\ IsFiniteSet(FailedAt(p)')
             /\ breaker'[p].failures <= Cardinality(FailedAt(p)')
             /\ ~breaker'[p].healthy => Cardinality(FailedAt(p)') >= Threshold
    BY <1>2, <2>2, <2>3
  <2>8. \A p \in Provider :
             /\ IsFiniteSet(FailedAt(p)')
             /\ breaker'[p].failures <= Cardinality(FailedAt(p)')
             /\ ~breaker'[p].healthy => Cardinality(FailedAt(p)') >= Threshold
    BY <2>4, <2>6, <2>7
  <2>9. QED
    BY <2>8 DEF BreakerInv, OpenAfterFailures
<1>7. QED
  BY <1>3, <1>4, <1>5, <1>6, StepOfACall DEF vars

LEMMA InitBreaker == Init => BreakerInv
<1> SUFFICES ASSUME Init PROVE BreakerInv
  OBVIOUS
<1>1. \A p \in Provider : FailedAt(p) = {}
  BY DEF Init, FailedAt, IdleCall
<1>2. \A p \in Provider : breaker[p].failures = 0 /\ breaker[p].healthy
  BY DEF Init, Healthy
<1>3. \A p \in Provider : /\ IsFiniteSet(FailedAt(p))
                          /\ Cardinality(FailedAt(p)) = 0
  BY <1>1, FS_EmptySet
<1>4. QED
  BY <1>2, <1>3 DEF BreakerInv, OpenAfterFailures

\* The breaker opens only after as many different calls of that provider
\* failed as the threshold says, and counts no failure that did not happen.
THEOREM BreakerOpensOnFailures == Spec => []OpenAfterFailures
<1>1. BreakerInv => OpenAfterFailures
  BY DEF BreakerInv
<1>2. QED
  BY <1>1, InitBreaker, NextBreaker, CacheInvariance, PTL DEF Spec

\* A provider whose breaker is open with none of its calls under way is out
\* of use until the process starts anew: nothing half-opens the breaker.
THEOREM StrandedForGood == Spec => StrandedStaysStranded
<1>1. ASSUME CacheInv, [Next]_vars, NEW p \in Provider, Stranded(p), ~Restart
      PROVE  Stranded(p)'
  <2> USE DEF InCall
  <2>0. breaker \in [Provider -> Health]
    BY <1>1 DEF CacheInv, TypeOK
  <2>1. CASE UNCHANGED <<breaker, calls>>
    BY <1>1, <2>1 DEF Stranded, InFlight
  <2>2. ASSUME NEW q \in Call, \A x \in Call \ {q} : calls'[x] = calls[x], Starts(q)
        PROVE  Stranded(p)'
    BY <1>1, <2>2 DEF Stranded, InFlight, Starts, is_available
  <2>3. ASSUME NEW q \in Call, \A x \in Call \ {q} : calls'[x] = calls[x],
               Continues(q) \/ Fails(q)
        PROVE  Stranded(p)'
    <3>1. calls[q].cap.provider # p
      BY <1>1, <2>3 DEF Stranded, InFlight, Continues, Fails
    <3>2. breaker'[p] = breaker[p]
      BY <2>0, <2>3, <3>1 DEF Continues, Fails, record_success, record_failure
    <3>3. QED
      BY <1>1, <2>3, <3>1, <3>2 DEF Stranded, InFlight, Continues, Fails
  <2>4. QED
    BY <1>1, <2>1, <2>2, <2>3, StepOfACall DEF vars
<1>2. CacheInv /\ [Next]_vars =>
        [\A p \in Provider : Stranded(p) => Stranded(p)' \/ Restart]_vars
  BY <1>1
<1>3. QED
  BY <1>2, CacheInvariance, PTL DEF Spec, StrandedStaysStranded
=============================================================================
