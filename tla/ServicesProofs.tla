--------------------------- MODULE ServicesProofs ---------------------------
(***************************************************************************)
(* What the components that keep to themselves guarantee for any number of *)
(* callers, threads, terminals, clients, rows and pieces: the rate limiter,*)
(* the token ledger, the contract pipeline, the records an administrator   *)
(* changes, a streamed answer, and the spend dashboard.                    *)
(***************************************************************************)
EXTENDS RateLimiter, TokenLedger, ContractPipeline, Administration, ChatStream,
        SpendAnalytics, NumberFacts, SequenceTheorems, FiniteSetTheorems

(* The rate limiter                                                        *)

Grants == [age : 1 .. Window, number : 1 .. Limit]

\* The grants of the counter that was created in the last b ticks, and those of the
\* one before it.
Fresh(G, b) == {g \in G : g.age <= b}
Stale(G, b) == {g \in G : g.age > b}

Differ(G) == \A g, h \in G : g.number = h.number => g = h

\* Of a counter k and its grants G: a counter that has been told to vanish outlives
\* whatever the one before it has granted.
TwoCounters(k, G, b) ==
    /\ b \in 0 .. Window
    /\ Differ(Fresh(G, b)) /\ Differ(Stale(G, b))
    /\ \A g \in Fresh(G, b) : g.number <= k.count
    /\ k.count = 0 => (b = 0 /\ k.ttl = 0 /\ \A g \in G : g.age # 1)
    /\ k.count > 0 => (b >= 1 /\ k.ttl \in 1 .. Forever)
    /\ k.ttl \in 1 .. Window => \A g \in Stale(G, b) : g.age + k.ttl > Window + 1

CounterOk(k, G) ==
    /\ k = [count |-> k.count, ttl |-> k.ttl]
    /\ k.count \in Nat /\ k.ttl \in 0 .. Forever
    /\ G \subseteq Grants
    /\ \E b \in 0 .. Window : TwoCounters(k, G, b)

RateInv ==
    /\ counters = [c \in Caller |-> counters[c]]
    /\ granted = [c \in Caller |-> granted[c]]
    /\ \A c \in Caller : CounterOk(counters[c], granted[c])

\* Grants that differ in their numbers are no more than the limit.
LEMMA LimitBounds ==
  ASSUME NEW G, G \subseteq Grants, Differ(G)
  PROVE  IsFiniteSet(G) /\ Cardinality(G) \in Nat /\ Cardinality(G) <= Limit
<1> DEFINE f == [g \in G |-> g.number]
<1>1. Limit \in Nat
  BY RateAssumption
<1>2. f \in Injection(G, 1 .. Limit)
  <2>1. f \in [G -> 1 .. Limit]
    BY DEF Grants
  <2>2. \A g, h \in G : f[g] = f[h] => g = h
    BY DEF Differ
  <2>3. QED
    BY <2>1, <2>2 DEF Injection, IsInjective
<1>3. IsFiniteSet(1 .. Limit) /\ Cardinality(1 .. Limit) = Limit
  BY <1>1, FS_Interval
<1> HIDE DEF f
<1>4. IsFiniteSet(G) /\ Cardinality(G) <= Limit
  BY <1>2, <1>3, FS_Injection
<1>5. QED
  BY <1>4, FS_CardinalityType

\* A request is counted: with number n for a caller whose counter was at n - 1.
LEMMA CountedOk ==
  ASSUME NEW k, NEW G, CounterOk(k, G), NEW k2, NEW G2, NEW n, n = k.count + 1,
         k2 = [count |-> n, ttl |-> IF n = 1 THEN Forever ELSE k.ttl],
         G2 = IF n <= Limit THEN G \cup {[age |-> 1, number |-> n]} ELSE G
  PROVE  CounterOk(k2, G2)
<1>0. Limit \in Nat \ {0} /\ Window \in Nat \ {0}
  BY RateAssumption
<1>1. PICK b : TwoCounters(k, G, b)
  BY DEF CounterOk
<1>2. k.count \in Nat /\ n \in Nat \ {0} /\ b \in 0 .. Window /\ k.ttl \in 0 .. Forever /\ Forever = Window + 1
  BY <1>1 DEF CounterOk, TwoCounters, Forever
<1>3. k2.count = n /\ k2.ttl = IF n = 1 THEN Forever ELSE k.ttl
  OBVIOUS
<1>4. PICK e, b2 : e = [age |-> 1, number |-> n] /\ b2 = IF b = 0 THEN 1 ELSE b
  OBVIOUS
<1>5. e.age = 1 /\ e.number = n /\ b2 \in 1 .. Window /\ (n <= Limit => e \in Grants)
  BY <1>0, <1>2, <1>4 DEF Grants
<1>6. \A g \in G : g.age \in 1 .. Window /\ g.number \in 1 .. Limit
  BY DEF CounterOk, Grants
<1>7. /\ Fresh(G, b2) = Fresh(G, b) /\ Stale(G, b2) = Stale(G, b)
  <2>1. CASE b = 0
    <3>1. k.count = 0 /\ \A g \in G : g.age # 1
      BY <1>1, <1>2, <2>1 DEF TwoCounters
    <3>2. \A g \in G : ~(g.age <= b2) /\ ~(g.age <= b) /\ g.age > b2 /\ g.age > b
      BY <1>4, <1>6, <2>1, <3>1
    <3>3. QED
      BY <3>2 DEF Fresh, Stale
  <2>2. CASE b # 0
    BY <1>4, <2>2
  <2>3. QED
    BY <2>1, <2>2
<1>8. /\ Fresh(G2, b2) \subseteq Fresh(G, b2) \cup {e}
      /\ Stale(G2, b2) = Stale(G, b2)
  BY <1>4, <1>5 DEF Fresh, Stale
<1>9. \A g \in Fresh(G, b2) : g.number \in Nat /\ g.number < n
  BY <1>1, <1>2, <1>6, <1>7 DEF TwoCounters, Fresh
<1>10. Differ(Fresh(G2, b2)) /\ Differ(Stale(G2, b2)) /\ \A g \in Fresh(G2, b2) : g.number <= n
  <2>1. Differ(Fresh(G, b2)) /\ Differ(Stale(G, b2))
    BY <1>1, <1>7 DEF TwoCounters
  <2>2. \A g, h \in Fresh(G2, b2) : g.number = h.number => g = h
    BY <1>2, <1>5, <1>8, <1>9, <2>1 DEF Differ
  <2>3. \A g \in Fresh(G2, b2) : g.number <= n
    BY <1>2, <1>5, <1>8, <1>9
  <2>4. QED
    BY <1>8, <2>1, <2>2, <2>3 DEF Differ
<1>11. k2.ttl \in 1 .. Forever
  <2>1. CASE n = 1
    BY <1>0, <1>2, <1>3, <2>1
  <2>2. CASE n # 1
    BY <1>1, <1>2, <1>3, <2>2 DEF TwoCounters
  <2>3. QED
    BY <2>1, <2>2
<1>12. k2.ttl \in 1 .. Window => \A g \in Stale(G2, b2) : g.age + k2.ttl > Window + 1
  <2>1. CASE n = 1
    BY <1>0, <1>2, <1>3, <2>1
  <2>2. CASE n # 1
    BY <1>1, <1>3, <1>7, <1>8, <2>2 DEF TwoCounters
  <2>3. QED
    BY <2>1, <2>2
<1>13. TwoCounters(k2, G2, b2)
  <2>1. k2.count # 0 /\ k2.count = n /\ b2 \in 0 .. Window /\ b2 >= 1
    BY <1>0, <1>2, <1>3, <1>5
  <2>2. QED
    BY <1>10, <1>11, <1>12, <2>1 DEF TwoCounters
<1>14. G2 \subseteq Grants
  BY <1>4, <1>5 DEF CounterOk
<1>15. QED
  <2>1. k2 = [count |-> k2.count, ttl |-> k2.ttl]
    OBVIOUS
  <2>2. k2.count \in Nat /\ k2.ttl \in 0 .. Forever /\ b2 \in 0 .. Window
    BY <1>0, <1>2, <1>3, <1>5, <1>11
  <2>3. QED
    BY <1>13, <1>14, <2>1, <2>2 DEF CounterOk

\* EXPIRE: what the counter before has granted is from earlier ticks.
LEMMA ExpiringOk ==
  ASSUME NEW k, NEW G, CounterOk(k, G), NEW k2,
         k2 = [count |-> k.count, ttl |-> IF k.ttl = 0 THEN 0 ELSE Window]
  PROVE  CounterOk(k2, G)
<1>1. Window \in Nat \ {0} /\ Forever = Window + 1
  BY RateAssumption DEF Forever
<1>2. PICK b : TwoCounters(k, G, b)
  BY DEF CounterOk
<1>3. /\ k.count \in Nat /\ b \in 0 .. Window /\ k.ttl \in 0 .. Forever
      /\ k2.count = k.count /\ k2.ttl = IF k.ttl = 0 THEN 0 ELSE Window
  BY <1>2 DEF CounterOk, TwoCounters
<1>4. k2.ttl \in 0 .. Forever /\ (k.count = 0 => k2.ttl = 0) /\ (k.count > 0 => k2.ttl = Window)
  BY <1>1, <1>2, <1>3 DEF TwoCounters
<1>5. k2.ttl \in 1 .. Window => \A g \in Stale(G, b) : g.age + k2.ttl > Window + 1
  <2> SUFFICES ASSUME k2.ttl \in 1 .. Window, NEW g \in Stale(G, b)
               PROVE  g.age + k2.ttl > Window + 1
    OBVIOUS
  <2>1. k.count > 0 /\ b >= 1 /\ k2.ttl = Window
    BY <1>1, <1>2, <1>3, <1>4 DEF TwoCounters
  <2>2. g.age > b /\ g.age \in Nat
    BY DEF Stale, CounterOk, Grants
  <2>3. QED
    BY <1>1, <1>3, <2>1, <2>2
<1>6. TwoCounters(k2, G, b)
  BY <1>1, <1>2, <1>3, <1>4, <1>5 DEF TwoCounters
<1>7. QED
  BY <1>3, <1>4, <1>6 DEF CounterOk

\* A tick: a counter vanishes when the grants of the one before it are too old.
LEMMA AgedOk ==
  ASSUME NEW k, NEW G, CounterOk(k, G) PROVE CounterOk(Aged(k), Older(G))
<1>1. Window \in Nat \ {0} /\ Forever = Window + 1
  BY RateAssumption DEF Forever
<1>2. PICK b : TwoCounters(k, G, b)
  BY DEF CounterOk
<1>3. k.count \in Nat /\ b \in 0 .. Window /\ k.ttl \in 0 .. Forever
  BY <1>2 DEF CounterOk, TwoCounters
<1>4. \A g \in G : /\ g = [age |-> g.age, number |-> g.number]
                   /\ g.age \in 1 .. Window /\ g.number \in 1 .. Limit
  BY DEF CounterOk, Grants
<1>5. PICK G2 : G2 = Older(G)
  OBVIOUS
<1>6. \A h \in G2 : \E g \in G : /\ h = [age |-> g.age + 1, number |-> g.number]
                                 /\ h.age = g.age + 1 /\ h.number = g.number /\ g.age < Window
  BY <1>5 DEF Older
<1>7. \A h \in G2 : h \in Grants /\ h.age \in 2 .. Window
  BY <1>1, <1>4, <1>6 DEF Grants
<1>8. ASSUME NEW S, NEW S2, Differ(S), S2 \subseteq G2,
             \A h \in S2 : \A g \in G : h.age = g.age + 1 /\ h.number = g.number => g \in S
      PROVE  Differ(S2)
  <2> SUFFICES ASSUME NEW h \in S2, NEW i \in S2, h.number = i.number PROVE h = i
    BY DEF Differ
  <2>1. PICK g \in G : /\ h = [age |-> g.age + 1, number |-> g.number]
                       /\ h.age = g.age + 1 /\ h.number = g.number
    BY <1>6, <1>8
  <2>2. PICK j \in G : /\ i = [age |-> j.age + 1, number |-> j.number]
                       /\ i.age = j.age + 1 /\ i.number = j.number
    BY <1>6, <1>8
  <2>3. g \in S /\ j \in S /\ g.number = j.number
    BY <1>8, <2>1, <2>2
  <2>4. QED
    BY <1>8, <2>1, <2>2, <2>3 DEF Differ
<1>9. CASE k.ttl = 1
  <2>1. PICK k2 : k2 = NoCounter
    OBVIOUS
  <2>2. k2.count = 0 /\ k2.ttl = 0 /\ k2 = [count |-> 0, ttl |-> 0] /\ Aged(k) = k2
    BY <1>1, <1>9, <2>1 DEF Aged, NoCounter
  <2>3. Stale(G, b) = {}
    <3>1. \A g \in Stale(G, b) : g.age + 1 > Window + 1 /\ g \in G
      BY <1>1, <1>2, <1>9 DEF TwoCounters, Stale
    <3>2. QED
      BY <1>1, <1>4, <3>1
  <2>4. Fresh(G, b) = G
    BY <1>3, <1>4, <2>3 DEF Fresh, Stale
  <2>5. Differ(G)
    BY <1>2, <2>4 DEF TwoCounters
  <2>6. Differ(G2)
    BY <1>8, <2>5
  <2>7. Fresh(G2, 0) = {} /\ Stale(G2, 0) = G2
    BY <1>7 DEF Fresh, Stale
  <2>8. TwoCounters(k2, G2, 0)
    <3>1. Differ(Fresh(G2, 0)) /\ Differ(Stale(G2, 0)) /\ \A g \in Fresh(G2, 0) : g.number <= k2.count
      BY <2>6, <2>7 DEF Differ
    <3>2. \A g \in G2 : g.age # 1
      BY <1>7
    <3>3. QED
      BY <1>1, <2>2, <3>1, <3>2 DEF TwoCounters
  <2>9. QED
    BY <1>1, <1>5, <1>7, <2>2, <2>8 DEF CounterOk
<1>10. CASE k.ttl # 1
  <2>1. PICK k2, b2 : k2 = Aged(k) /\ b2 = IF b = 0 THEN 0 ELSE IF b = Window THEN b ELSE b + 1
    OBVIOUS
  <2>2. /\ k2 = [count |-> k2.count, ttl |-> k2.ttl] /\ k2.count = k.count
        /\ k2.ttl = IF k.ttl \in {0, Forever} THEN k.ttl ELSE k.ttl - 1
    BY <1>10, <2>1 DEF Aged, CounterOk
  <2>3. b2 \in 0 .. Window /\ (b = 0 <=> b2 = 0)
    BY <1>1, <1>3, <2>1
  <2>4. /\ \A h \in Fresh(G2, b2) : \A g \in G : (h.age = g.age + 1 /\ h.number = g.number) => g \in Fresh(G, b)
        /\ \A h \in Stale(G2, b2) : \A g \in G : (h.age = g.age + 1 /\ h.number = g.number) => g \in Stale(G, b)
    BY <1>1, <1>3, <1>4, <1>7, <2>1 DEF Fresh, Stale
  <2>5. Fresh(G2, b2) \subseteq G2 /\ Stale(G2, b2) \subseteq G2
    BY DEF Fresh, Stale
  <2>6. Differ(Fresh(G2, b2)) /\ Differ(Stale(G2, b2))
    <3>1. Differ(Fresh(G, b)) /\ Differ(Stale(G, b))
      BY <1>2 DEF TwoCounters
    <3>2. QED
      BY <1>8, <2>4, <2>5, <3>1
  <2>7. \A h \in Fresh(G2, b2) : h.number <= k2.count
    BY <1>2, <1>6, <2>2, <2>4, <2>5 DEF TwoCounters
  <2>8. k2.count = 0 => (b2 = 0 /\ k2.ttl = 0 /\ \A h \in G2 : h.age # 1)
    BY <1>2, <1>7, <2>2, <2>3 DEF TwoCounters
  <2>9. k2.count > 0 => (b2 >= 1 /\ k2.ttl \in 1 .. Forever)
    BY <1>1, <1>2, <1>3, <1>10, <2>2, <2>3 DEF TwoCounters
  <2>10. ASSUME k2.ttl \in 1 .. Window, NEW h \in Stale(G2, b2)
         PROVE  h.age + k2.ttl > Window + 1
    <3>1. PICK g \in G : h.age = g.age + 1 /\ h.number = g.number
      BY <1>6, <2>5
    <3>2. g \in Stale(G, b) /\ g.age \in Nat
      BY <1>4, <2>4, <3>1
    <3>3. k.ttl \in 1 .. Window /\ k2.ttl = k.ttl - 1
      BY <1>1, <1>3, <2>2, <2>10
    <3>4. g.age + k.ttl > Window + 1
      BY <1>2, <3>2, <3>3 DEF TwoCounters
    <3>5. QED
      BY <1>1, <3>1, <3>2, <3>3, <3>4
  <2>11. TwoCounters(k2, G2, b2)
    BY <2>3, <2>6, <2>7, <2>8, <2>9, <2>10 DEF TwoCounters
  <2>12. k2.count \in Nat /\ k2.ttl \in 0 .. Forever
    BY <1>1, <1>3, <1>10, <2>2
  <2>13. QED
    <3>1. G2 \subseteq Grants
      BY <1>7
    <3>2. CounterOk(k2, G2)
      BY <2>2, <2>3, <2>11, <2>12, <3>1 DEF CounterOk
    <3>3. QED
      BY <1>5, <2>1, <3>2
<1>11. QED
  BY <1>9, <1>10

LEMMA RatesStart == Init => RateInv
<1> SUFFICES ASSUME Init PROVE RateInv
  OBVIOUS
<1>1. ASSUME NEW c \in Caller PROVE CounterOk(counters[c], granted[c])
  <2>1. PICK k, G : k = counters[c] /\ G = granted[c]
    OBVIOUS
  <2>2. k = [count |-> 0, ttl |-> 0] /\ k.count = 0 /\ k.ttl = 0 /\ G = {}
    BY <2>1 DEF Init, NoCounter
  <2>3. Fresh(G, 0) = {} /\ Stale(G, 0) = {} /\ Window \in Nat /\ Forever = Window + 1
    BY <2>2, RateAssumption DEF Fresh, Stale, Forever
  <2>4. TwoCounters(k, G, 0)
    BY <2>2, <2>3 DEF TwoCounters, Differ
  <2>5. QED
    BY <2>1, <2>2, <2>3, <2>4 DEF CounterOk
<1>2. QED
  BY <1>1 DEF RateInv, Init

\* A step that leaves each counter and its grants in order.
LEMMA RatesKept ==
  ASSUME RateInv, NEW K, NEW G, counters' = [c \in Caller |-> K[c]],
         granted' = [c \in Caller |-> G[c]],
         \A c \in Caller : CounterOk(K[c], G[c])
  PROVE  RateInv'
<1>1. \A c \in Caller : counters'[c] = K[c] /\ granted'[c] = G[c]
  OBVIOUS
<1>2. QED
  BY <1>1 DEF RateInv

LEMMA RatesSteps == RateInv /\ [Next]_vars => RateInv'
<1> SUFFICES ASSUME RateInv, [Next]_vars PROVE RateInv'
  OBVIOUS
<1>0. /\ \A c \in Caller : CounterOk(counters[c], granted[c])
      /\ counters = [c \in Caller |-> counters[c]] /\ granted = [c \in Caller |-> granted[c]]
  BY DEF RateInv
<1>1. CASE counters' = counters /\ granted' = granted
  BY <1>1 DEF RateInv
<1>2. ASSUME NEW q \in Req, NEW c \in Caller, Arrive(q, c) PROVE RateInv'
  <2>1. PICK k, G, n : k = counters[c] /\ G = granted[c] /\ n = k.count + 1
    OBVIOUS
  <2>2. PICK k2, G2 : /\ k2 = [count |-> n, ttl |-> IF n = 1 THEN Forever ELSE k.ttl]
                      /\ G2 = IF n <= Limit THEN G \cup {[age |-> 1, number |-> n]} ELSE G
    OBVIOUS
  <2>3. CounterOk(k, G)
    BY <1>0, <2>1
  <2>4. CounterOk(k2, G2)
    BY <2>1, <2>2, <2>3, CountedOk
  <2>5. counters' = [counters EXCEPT ![c] = k2] /\ granted' = [granted EXCEPT ![c] = G2]
    <3>1. counters' = [counters EXCEPT ![c] = k2]
      BY <1>2, <2>1, <2>2 DEF Arrive
    <3>2. granted' = [granted EXCEPT ![c] = G2]
      BY <1>0, <1>2, <2>1, <2>2 DEF Arrive
    <3>3. QED
      BY <3>1, <3>2
  <2>6. \A d \in Caller : IF d = c THEN counters'[d] = k2 /\ granted'[d] = G2
                          ELSE counters'[d] = counters[d] /\ granted'[d] = granted[d]
    BY <1>0, <2>5
  <2>7. counters' = [d \in Caller |-> counters'[d]] /\ granted' = [d \in Caller |-> granted'[d]]
    BY <1>0, <2>5
  <2>8. QED
    BY <1>0, <2>4, <2>6, <2>7 DEF RateInv
<1>3. ASSUME NEW q \in Req, Expire(q) PROVE RateInv'
  <2>1. PICK c : c = reqs[q].caller
    OBVIOUS
  <2>2. counters' = [counters EXCEPT ![c].ttl = IF @ = 0 THEN 0 ELSE Window] /\ granted' = granted
    BY <1>3, <2>1 DEF Expire, SetExpiry
  <2>3. ASSUME NEW d \in Caller PROVE CounterOk(counters'[d], granted'[d])
    <3>1. CASE d = c
      <4>1. PICK k, G : k = counters[d] /\ G = granted[d]
        OBVIOUS
      <4>2. PICK k2 : k2 = [count |-> k.count, ttl |-> IF k.ttl = 0 THEN 0 ELSE Window]
        OBVIOUS
      <4>3. CounterOk(k, G)
        BY <1>0, <4>1
      <4>4. k = [count |-> k.count, ttl |-> k.ttl]
        BY <4>3 DEF CounterOk
      <4>5. counters'[d] = [k EXCEPT !.ttl = IF k.ttl = 0 THEN 0 ELSE Window]
        BY <1>0, <2>2, <3>1, <4>1
      <4>6. counters'[d] = k2
        BY <4>2, <4>4, <4>5
      <4>7. CounterOk(k2, G)
        BY <4>2, <4>3, ExpiringOk
      <4>8. QED
        BY <2>2, <4>1, <4>6, <4>7
    <3>2. CASE d # c
      BY <1>0, <2>2, <3>2
    <3>3. QED
      BY <3>1, <3>2
  <2>4. counters' = [d \in Caller |-> counters'[d]] /\ granted' = [d \in Caller |-> granted'[d]]
    BY <1>0, <2>2
  <2>5. QED
    BY <2>3, <2>4 DEF RateInv
<1>4. CASE Tick
  <2>1. \A c \in Caller : counters'[c] = Aged(counters[c]) /\ granted'[c] = Older(granted[c])
    BY <1>4 DEF Tick
  <2>2. ASSUME NEW c \in Caller PROVE CounterOk(counters'[c], granted'[c])
    <3>1. PICK k, G : k = counters[c] /\ G = granted[c]
      OBVIOUS
    <3>2. CounterOk(k, G)
      BY <1>0, <3>1
    <3>3. CounterOk(Aged(k), Older(G))
      BY <3>2, AgedOk
    <3>4. QED
      BY <2>1, <3>1, <3>3
  <2>3. counters' = [d \in Caller |-> counters'[d]] /\ granted' = [d \in Caller |-> granted'[d]]
    BY <1>4 DEF Tick
  <2>4. QED
    BY <2>2, <2>3 DEF RateInv
<1>5. ASSUME NEW q \in Req, Decide(q) \/ Respond(q) \/ ExpireLost(q)
      PROVE  counters' = counters /\ granted' = granted
  BY <1>5 DEF Decide, Respond, ExpireLost
<1>6. QED
  BY <1>1, <1>2, <1>3, <1>4, <1>5 DEF Next, Step, vars

\* The grants of the last minute are those of two counters, and each grants a number
\* only once.
THEOREM RateInvariance == Spec => []RateInv
<1>1. QED
  BY RatesStart, RatesSteps, PTL DEF Spec

\* No minute, wherever it begins, has more than twice the limit of grants for one
\* caller, however late EXPIRE comes and whatever fails.
THEOREM TwiceTheLimitAtMost == Spec => []AtMostTwiceTheLimit
<1>1. RateInv => AtMostTwiceTheLimit
  <2> SUFFICES ASSUME RateInv, NEW c \in Caller
               PROVE  Cardinality(granted[c]) <= 2 * Limit
    BY DEF AtMostTwiceTheLimit
  <2>1. PICK G, b : /\ G = granted[c] /\ G \subseteq Grants
                    /\ Differ(Fresh(G, b)) /\ Differ(Stale(G, b)) /\ b \in 0 .. Window
    BY DEF RateInv, CounterOk, TwoCounters
  <2>2. PICK A, B : A = Fresh(G, b) /\ B = Stale(G, b)
    OBVIOUS
  <2>3. A \subseteq Grants /\ B \subseteq Grants
    BY <2>1, <2>2 DEF Fresh, Stale
  <2>4. /\ IsFiniteSet(A) /\ Cardinality(A) \in Nat /\ Cardinality(A) <= Limit
        /\ IsFiniteSet(B) /\ Cardinality(B) \in Nat /\ Cardinality(B) <= Limit
    BY <2>1, <2>2, <2>3, LimitBounds
  <2>5. G = A \cup B /\ A \cap B = {}
    <3>1. Window \in Nat /\ \A g \in G : g.age \in Nat
      BY <2>1, RateAssumption DEF Grants
    <3>2. \A g \in G : (g.age <= b \/ g.age > b) /\ ~(g.age <= b /\ g.age > b)
      BY <2>1, <3>1
    <3>3. QED
      BY <2>2, <3>2 DEF Fresh, Stale
  <2>6. Cardinality(A \cup B) = Cardinality(A) + Cardinality(B) - 0
    <3>1. Cardinality(A \cup B) = Cardinality(A) + Cardinality(B) - Cardinality(A \cap B)
      BY <2>4, FS_Union
    <3>2. Cardinality(A \cap B) = 0
      BY <2>5, FS_EmptySet
    <3>3. QED
      BY <3>1, <3>2
  <2>7. Limit \in Nat
    BY RateAssumption
  <2>8. QED
    BY <2>1, <2>4, <2>5, <2>6, <2>7
<1>2. QED
  BY <1>1, RateInvariance, PTL

\* Grants of one tick have different numbers, so the set loses none of them.
THEOREM GrantsAreCounted ==
  Spec => [][\A q \in Req, c \in Caller :
                Arrive(q, c) =>
                    [age |-> 1, number |-> counters[c].count + 1] \notin granted[c]]_vars
<1>1. ASSUME RateInv, NEW c \in Caller
      PROVE  [age |-> 1, number |-> counters[c].count + 1] \notin granted[c]
  <2>1. PICK k, G, b : k = counters[c] /\ G = granted[c] /\ TwoCounters(k, G, b) /\ k.count \in Nat
    BY <1>1 DEF RateInv, CounterOk
  <2>2. PICK e : e = [age |-> 1, number |-> k.count + 1]
    OBVIOUS
  <2>3. e.age = 1 /\ e.number = k.count + 1
    BY <2>2
  <2>4. CASE k.count = 0
    BY <2>1, <2>2, <2>3, <2>4 DEF TwoCounters
  <2>5. CASE k.count # 0
    <3>1. b \in Nat /\ 1 <= b
      BY <2>1, <2>5, RateAssumption DEF TwoCounters
    <3>2. e \in G => e.number <= k.count
      BY <2>1, <2>3, <3>1 DEF TwoCounters, Fresh
    <3>3. QED
      BY <2>1, <2>2, <2>3, <3>2
  <2>6. QED
    BY <2>4, <2>5
<1>2. RateInv /\ [Next]_vars =>
        [\A q \in Req, c \in Caller :
           Arrive(q, c) =>
               [age |-> 1, number |-> counters[c].count + 1] \notin granted[c]]_vars
  BY <1>1
<1>3. QED
  BY <1>2, RateInvariance, PTL DEF Spec

(* The ledger                                                              *)

\* A list of entries in the order they were recorded.
GoodList(s, n) ==
    /\ s \in Seq(Nat)
    /\ \A i \in 1 .. Len(s) : s[i] <= n
    /\ \A i, j \in 1 .. Len(s) : i < j => s[i] < s[j]

\* What is read of t behind a beginning of s was recorded later.
Beyond(s, t) == \A i \in 1 .. Len(s), j \in 1 .. Len(t) : i < j => s[i] < t[j]

Resting2(r) == r = Idle \/ r = Failed

Dumping(r, n, now) ==
    /\ r.step = "dump"
    /\ r = [step |-> "dump", list |-> r.list, alone |-> r.alone]
    /\ r.alone \in BOOLEAN
    /\ GoodList(r.list, n)
    /\ Beyond(r.list, now)
    /\ r.alone => r.list = now

Writing2(r, n, now, content) ==
    /\ r.step \in {"open", "write"}
    /\ r = [step |-> r.step, text |-> r.text, alone |-> r.alone]
    /\ r.alone \in BOOLEAN
    /\ GoodList(r.text, n)
    /\ r.alone => r.text = now
    /\ (r.alone /\ r.step = "write") => content = <<>>

\* A thread dumps a list that what is recorded since can only continue; one that is
\* alone has the whole list in hand, and finds the file as it has left it.
LedgerInv ==
    /\ recorded \in Nat
    /\ GoodList(entries, recorded)
    /\ stored # Garbled => GoodList(stored, recorded)
    /\ work = [w \in Workers |-> work[w]]
    /\ \A w \in Workers :
          \/ Resting2(work[w])
          \/ Dumping(work[w], recorded, entries)
          \/ Writing2(work[w], recorded, entries, stored)
    /\ \A v, w \in Workers : (~Free(w) /\ work[w].alone /\ v # w) => Free(v)

LEMMA AppendedList ==
  ASSUME NEW n \in Nat, NEW s, GoodList(s, n)
  PROVE  /\ GoodList(Append(s, n + 1), n + 1)
         /\ \A t : (GoodList(t, n) /\ Beyond(t, s)) => Beyond(t, Append(s, n + 1))
         /\ \A t : GoodList(t, n) => GoodList(t, n + 1)
<1> DEFINE A == Append(s, n + 1)
<1>1. /\ s \in Seq(Nat) /\ Len(s) \in Nat /\ A \in Seq(Nat) /\ Len(A) = Len(s) + 1
      /\ A[Len(s) + 1] = n + 1
      /\ \A i \in 1 .. Len(s) : A[i] = s[i] /\ s[i] \in Nat /\ s[i] <= n
  BY DEF GoodList
<1> HIDE DEF A
<1>2. \A i \in 1 .. Len(A) : i \in 1 .. Len(s) \/ i = Len(s) + 1
  BY <1>1
<1>3. GoodList(A, n + 1)
  <2>1. ASSUME NEW i \in 1 .. Len(A) PROVE A[i] <= n + 1
    <3>1. CASE i \in 1 .. Len(s)
      BY SMTT(30), <1>1, <3>1
    <3>2. CASE i = Len(s) + 1
      BY <1>1, <3>2
    <3>3. QED
      BY <1>2, <3>1, <3>2
  <2>2. ASSUME NEW i \in 1 .. Len(A), NEW j \in 1 .. Len(A), i < j
        PROVE  A[i] < A[j]
    <3>1. i \in 1 .. Len(s)
      BY <1>1, <1>2, <2>2
    <3>2. CASE j \in 1 .. Len(s)
      BY <1>1, <2>2, <3>1, <3>2 DEF GoodList
    <3>3. CASE j = Len(s) + 1
      <4>1. A[i] \in Nat /\ A[i] <= n /\ A[j] = n + 1
        BY <1>1, <3>1, <3>3
      <4>2. QED
        BY <4>1
    <3>4. QED
      BY <1>2, <3>2, <3>3
  <2>3. QED
    BY <1>1, <2>1, <2>2 DEF GoodList
<1>4. ASSUME NEW t, GoodList(t, n), Beyond(t, s)
      PROVE  Beyond(t, A)
  <2>1. ASSUME NEW i \in 1 .. Len(t), NEW j \in 1 .. Len(A), i < j
        PROVE  t[i] < A[j]
    <3>1. t[i] \in Nat /\ t[i] <= n
      BY <1>4 DEF GoodList
    <3>2. CASE j \in 1 .. Len(s)
      BY <1>1, <1>4, <2>1, <3>2 DEF Beyond
    <3>3. CASE j = Len(s) + 1
      BY <1>1, <3>1, <3>3
    <3>4. QED
      BY <1>2, <3>2, <3>3
  <2>2. QED
    BY <2>1 DEF Beyond
<1>5. ASSUME NEW t, GoodList(t, n)
      PROVE  GoodList(t, n + 1)
  <2>1. \A i \in 1 .. Len(t) : t[i] \in Nat /\ t[i] <= n
    BY <1>5 DEF GoodList
  <2>2. QED
    BY <1>5, <2>1 DEF GoodList
<1>6. QED
  BY <1>3, <1>4, <1>5 DEF A

\* A list is read up to some place, and what has become of it from there on.
Joined(s, t, k) == SubSeq(s, 1, k) \o SubSeq(t, k + 1, Len(t))

LEMMA JoinedList ==
  ASSUME NEW n \in Nat, NEW s, NEW t, NEW k \in 0 .. Len(s),
         GoodList(s, n), GoodList(t, n), Beyond(s, t)
  PROVE  GoodList(Joined(s, t, k), n) /\ (s = t => Joined(s, t, k) = t)
<1> DEFINE X == SubSeq(s, 1, k)
           Y == SubSeq(t, k + 1, Len(t))
           T == X \o Y
<1>1. /\ s \in Seq(Nat) /\ t \in Seq(Nat) /\ Len(s) \in Nat /\ Len(t) \in Nat /\ k \in Nat
      /\ k <= Len(s)
  BY DEF GoodList
<1>2. X \in Seq(Nat) /\ Len(X) = k /\ \A i \in 1 .. k : X[i] = s[i] /\ i \in 1 .. Len(s)
  BY <1>1, SubSeqProperties
<1>3. /\ Y \in Seq(Nat) /\ Len(Y) = IF k + 1 <= Len(t) THEN Len(t) - k ELSE 0
      /\ \A i \in 1 .. Len(Y) : Y[i] = t[k + i] /\ k + i \in 1 .. Len(t)
  BY <1>1, SubSeqProperties
<1> HIDE DEF X, Y
<1>4. /\ T \in Seq(Nat) /\ Len(T) = k + Len(Y) /\ Len(Y) \in Nat
      /\ \A i \in 1 .. Len(T) : T[i] = IF i <= k THEN X[i] ELSE Y[i - k]
  <2>1. Len(Y) \in Nat
    BY <1>3
  <2>2. /\ T \in Seq(Nat) /\ Len(T) = Len(X) + Len(Y)
        /\ \A i \in 1 .. Len(X) + Len(Y) : T[i] = IF i <= Len(X) THEN X[i] ELSE Y[i - Len(X)]
    BY <1>2, <1>3, ConcatProperties
  <2>3. QED
    BY <1>2, <2>1, <2>2
<1>5. ASSUME NEW i \in 1 .. Len(T)
      PROVE  /\ i <= k => i \in 1 .. Len(s) /\ T[i] = s[i]
             /\ k < i => i \in 1 .. Len(t) /\ T[i] = t[i]
  <2>1. CASE i <= k
    <3>1. i \in 1 .. k /\ ~(k < i)
      BY <1>1, <1>4, <2>1
    <3>2. T[i] = X[i]
      BY <1>4, <2>1
    <3>3. X[i] = s[i] /\ i \in 1 .. Len(s)
      BY <1>2, <3>1
    <3>4. QED
      BY <3>1, <3>2, <3>3
  <2>2. CASE k < i
    <3>1. i - k \in 1 .. Len(Y) /\ k + (i - k) = i
      <4>1. i \in Int /\ 1 <= i /\ i <= k + Len(Y) /\ k \in Nat /\ Len(Y) \in Nat
        BY <1>1, <1>4
      <4>2. QED
        BY <2>2, <4>1
    <3>2. T[i] = Y[i - k]
      BY <1>1, <1>4, <2>2
    <3>3. Y[i - k] = t[k + (i - k)] /\ k + (i - k) \in 1 .. Len(t)
      BY <1>3, <3>1
    <3>4. ~(i <= k)
      BY <1>1, <1>4, <2>2
    <3>5. QED
      BY <3>1, <3>2, <3>3, <3>4
  <2>3. QED
    BY <1>1, <1>4, <2>1, <2>2
<1> HIDE DEF T
<1>6. \A i \in 1 .. Len(T) : T[i] <= n
  <2>1. \A i \in 1 .. Len(T) : i <= k \/ k < i
    BY <1>1, <1>4
  <2>2. QED
    BY <1>5, <2>1 DEF GoodList
<1>7. ASSUME NEW i \in 1 .. Len(T), NEW j \in 1 .. Len(T), i < j
      PROVE  T[i] < T[j]
  <2>0. i \in Nat /\ j \in Nat
    BY <1>4
  <2>1. CASE i <= k /\ j <= k
    <3>1. i \in 1 .. Len(s) /\ T[i] = s[i] /\ j \in 1 .. Len(s) /\ T[j] = s[j]
      BY <1>1, <1>5, <2>0, <2>1
    <3>2. QED
      BY <1>7, <3>1 DEF GoodList
  <2>2. CASE i <= k /\ k < j
    <3>1. i \in 1 .. Len(s) /\ T[i] = s[i] /\ j \in 1 .. Len(t) /\ T[j] = t[j]
      BY <1>1, <1>5, <2>0, <2>2
    <3>2. QED
      BY <1>7, <3>1 DEF Beyond
  <2>3. CASE k < i /\ k < j
    <3>1. i \in 1 .. Len(t) /\ T[i] = t[i] /\ j \in 1 .. Len(t) /\ T[j] = t[j]
      BY <1>1, <1>5, <2>0, <2>3
    <3>2. QED
      BY <1>7, <3>1 DEF GoodList
  <2>4. QED
    BY <1>1, <1>7, <2>0, <2>1, <2>2, <2>3
<1>8. GoodList(T, n)
  BY <1>4, <1>6, <1>7 DEF GoodList
<1>9. ASSUME s = t PROVE T = t
  <2>1. Len(T) = Len(t)
    BY <1>1, <1>3, <1>4, <1>9
  <2>2. \A i \in 1 .. Len(t) : T[i] = t[i]
    <3>1. \A i \in 1 .. Len(T) : i <= k \/ k < i
      BY <1>1, <1>4
    <3>2. QED
      BY <1>5, <1>9, <2>1, <3>1
  <2>3. QED
    BY <1>1, <1>4, <2>1, <2>2, SeqEqual
<1>10. QED
  BY <1>8, <1>9 DEF T, X, Y, Joined

\* A prefix of the same list is followed by nothing smaller than it.
LEMMA BeyondItself ==
  ASSUME NEW n \in Nat, NEW s, GoodList(s, n)
  PROVE  Beyond(s, s) /\ Beyond(s, <<>>) /\ Beyond(<<>>, s)
<1>1. PICK T : T = <<>>
  OBVIOUS
<1>2. T \in Seq(Nat) /\ Len(T) = 0
  BY <1>1
<1>3. Beyond(s, s)
  BY DEF GoodList, Beyond
<1>4. Beyond(s, T) /\ Beyond(T, s)
  BY <1>2 DEF Beyond
<1>5. QED
  BY <1>1, <1>3, <1>4

LEMMA EmptyList == ASSUME NEW n \in Nat PROVE GoodList(<<>>, n)
<1>1. PICK T : T = <<>>
  OBVIOUS
<1>2. T \in Seq(Nat) /\ Len(T) = 0
  BY <1>1
<1>3. GoodList(T, n)
  BY <1>2 DEF GoodList
<1>4. QED
  BY <1>1, <1>3

\* What a thread at work holds when another one has changed the list or the file.
LEMMA OthersWork ==
  ASSUME NEW n \in Nat, NEW m \in Nat, NEW now, NEW later, NEW content, NEW r, NEW q,
         \A t : GoodList(t, n) => GoodList(t, m),
         \A t : (GoodList(t, n) /\ Beyond(t, now)) => Beyond(t, later),
         Dumping(r, n, now) \/ Writing2(r, n, now, content),
         q = [r EXCEPT !.alone = FALSE]
  PROVE  /\ \A any : Dumping(q, m, later) \/ Writing2(q, m, later, any)
         /\ ~q.alone
<1>1. CASE Dumping(r, n, now)
  <2>1. q = [step |-> "dump", list |-> r.list, alone |-> FALSE]
    BY <1>1 DEF Dumping
  <2>2. q.step = "dump" /\ q.list = r.list /\ q.alone = FALSE
    BY <2>1
  <2>3. Dumping(q, m, later)
    BY <1>1, <2>1, <2>2 DEF Dumping
  <2>4. QED
    BY <2>2, <2>3
<1>2. CASE Writing2(r, n, now, content)
  <2>1. q = [step |-> r.step, text |-> r.text, alone |-> FALSE]
    BY <1>2 DEF Writing2
  <2>2. q.step = r.step /\ q.text = r.text /\ q.alone = FALSE
    BY <2>1
  <2>3. \A any : Writing2(q, m, later, any)
    BY <1>2, <2>1, <2>2 DEF Writing2
  <2>4. QED
    BY <2>2, <2>3
<1>3. QED
  BY <1>1, <1>2

\* A thread has changed the list and goes on to write it.
LEMMA ChangedList ==
  ASSUME LedgerInv, NEW w \in Workers, Free(w), Persisting(w), stored' = stored,
         recorded' \in Nat, GoodList(entries', recorded'),
         Beyond(entries', entries'),
         \A t : GoodList(t, recorded) => GoodList(t, recorded'),
         \A t : (GoodList(t, recorded) /\ Beyond(t, entries)) => Beyond(t, entries')
  PROVE  LedgerInv'
<1> DEFINE others == {v \in Workers \ {w} : ~Free(v)}
<1>1. PICK mine : mine = [step |-> "dump", list |-> entries', alone |-> others = {}]
  OBVIOUS
<1>2. /\ mine.step = "dump" /\ mine.list = entries' /\ mine.alone = (others = {})
      /\ mine # Idle /\ mine # Failed
  BY <1>1 DEF Idle, Failed
<1>3. \A v \in Workers :
         work'[v] = IF v = w THEN mine
                    ELSE IF v \in others THEN [work[v] EXCEPT !.alone = FALSE] ELSE work[v]
  BY <1>1 DEF Persisting
<1>4. work' = [v \in Workers |-> work'[v]]
  <2> DEFINE G(v) == IF v = w THEN mine
                     ELSE IF v \in others THEN [work[v] EXCEPT !.alone = FALSE] ELSE work[v]
  <2>1. PICK f : f = [v \in Workers |-> G(v)]
    OBVIOUS
  <2>2. f = work'
    BY <1>1, <2>1 DEF Persisting
  <2> HIDE DEF G
  <2>3. f = [v \in Workers |-> f[v]]
    BY <2>1
  <2>4. QED
    BY <2>2, <2>3
<1>5. work'[w] = mine
  BY <1>3
<1>6. (Dumping(work[w], recorded, entries))'
  BY <1>2, <1>5, <1>1 DEF Dumping
<1>7. \A v \in Workers : v # w => v \in others <=> ~Free(v)
  OBVIOUS
<1>8. ASSUME NEW v \in Workers, v # w, ~Free(v)
      PROVE  /\ (Dumping(work[v], recorded, entries) \/ Writing2(work[v], recorded, entries, stored))'
             /\ ~work'[v].alone
  <2>1. work'[v] = [work[v] EXCEPT !.alone = FALSE]
    BY <1>3, <1>7, <1>8
  <2>2. Dumping(work[v], recorded, entries) \/ Writing2(work[v], recorded, entries, stored)
    BY <1>8 DEF LedgerInv, Resting2, Free
  <2>3. PICK n, m, now, later, content, r, q :
           /\ n = recorded /\ m = recorded' /\ now = entries /\ later = entries'
           /\ content = stored /\ r = work[v] /\ q = work'[v]
    OBVIOUS
  <2>4. n \in Nat /\ m \in Nat
    BY <2>3 DEF LedgerInv
  <2>5. /\ \A any : Dumping(q, m, later) \/ Writing2(q, m, later, any)
        /\ ~q.alone
    <3>1. Dumping(r, n, now) \/ Writing2(r, n, now, content)
      BY <2>2, <2>3
    <3>2. q = [r EXCEPT !.alone = FALSE]
      BY <2>1, <2>3
    <3>3. \A t : GoodList(t, n) => GoodList(t, m)
      BY <2>3
    <3>4. \A t : (GoodList(t, n) /\ Beyond(t, now)) => Beyond(t, later)
      BY <2>3
    <3>5. QED
      BY <2>4, <3>1, <3>2, <3>3, <3>4, OthersWork
  <2>6. QED
    BY <2>3, <2>5
<1>9. ASSUME NEW v \in Workers, v # w, Free(v)
      PROVE  work'[v] = work[v] /\ (Resting2(work[v]))' /\ Free(v)'
  <2>1. work'[v] = work[v]
    BY <1>3, <1>7, <1>9
  <2>2. QED
    BY <1>9, <2>1 DEF Free, Resting2
<1>10. ASSUME NEW u \in Workers, NEW v \in Workers, (~Free(v))', work'[v].alone, u # v
       PROVE  Free(u)'
  <2>1. v = w
    BY <1>8, <1>9, <1>10
  <2>2. others = {}
    BY <1>2, <1>5, <1>10, <2>1
  <2>3. Free(u)
    BY <1>7, <1>10, <2>1, <2>2
  <2>4. QED
    BY <1>9, <1>10, <2>1, <2>3
<1>11. (stored # Garbled => GoodList(stored, recorded))'
  BY DEF LedgerInv
<1> HIDE DEF others
<1>12. (\A v \in Workers :
          \/ Resting2(work[v])
          \/ Dumping(work[v], recorded, entries)
          \/ Writing2(work[v], recorded, entries, stored))'
  BY <1>6, <1>8, <1>9
<1>13. QED
  BY <1>4, <1>10, <1>11, <1>12 DEF LedgerInv

LEMMA LedgerStarts == LedgerInit => LedgerInv
<1> SUFFICES ASSUME LedgerInit PROVE LedgerInv
  OBVIOUS
<1>1. GoodList(<<>>, 0)
  BY EmptyList
<1>2. \A w \in Workers : Free(w) /\ Resting2(work[w])
  BY DEF LedgerInit, Free, Resting2
<1>3. work = [w \in Workers |-> work[w]]
  BY DEF LedgerInit
<1>4. QED
  BY <1>1, <1>2, <1>3 DEF LedgerInit, LedgerInv

LEMMA LedgerRecord == LedgerInv /\ Record => LedgerInv'
<1> SUFFICES ASSUME LedgerInv, Record PROVE LedgerInv'
  OBVIOUS
<1>1. PICK n, s : n = recorded /\ s = entries
  OBVIOUS
<1>2. n \in Nat /\ n + 1 \in Nat /\ GoodList(s, n)
  BY <1>1 DEF LedgerInv
<1>3. recorded' = n + 1 /\ entries' = Append(s, n + 1)
  BY <1>1 DEF Record
<1>4. /\ GoodList(Append(s, n + 1), n + 1)
      /\ \A t : (GoodList(t, n) /\ Beyond(t, s)) => Beyond(t, Append(s, n + 1))
      /\ \A t : GoodList(t, n) => GoodList(t, n + 1)
  BY <1>2, AppendedList
<1>5. Beyond(Append(s, n + 1), Append(s, n + 1))
  BY <1>2, <1>4, BeyondItself
<1>6. Loop \in Workers /\ Free(Loop) /\ Persisting(Loop) /\ stored' = stored
  BY DEF Record, Workers
<1>7. /\ recorded' \in Nat /\ GoodList(entries', recorded') /\ Beyond(entries', entries')
      /\ \A t : GoodList(t, recorded) => GoodList(t, recorded')
      /\ \A t : (GoodList(t, recorded) /\ Beyond(t, entries)) => Beyond(t, entries')
  BY <1>1, <1>2, <1>3, <1>4, <1>5
<1>8. QED
  BY <1>6, <1>7, ChangedList

LEMMA LedgerClear == ASSUME LedgerInv, NEW w \in Workers, Clear(w) PROVE LedgerInv'
<1>1. PICK n : n = recorded
  OBVIOUS
<1>2. n \in Nat
  BY <1>1 DEF LedgerInv
<1>3. GoodList(<<>>, n) /\ \A t : GoodList(t, n) => Beyond(t, <<>>)
  BY <1>2, EmptyList, BeyondItself
<1>4. Free(w) /\ Persisting(w) /\ stored' = stored /\ recorded' = n /\ entries' = <<>>
  BY <1>1 DEF Clear
<1>5. /\ recorded' \in Nat /\ GoodList(entries', recorded') /\ Beyond(entries', entries')
      /\ \A t : GoodList(t, recorded) => GoodList(t, recorded')
      /\ \A t : (GoodList(t, recorded) /\ Beyond(t, entries)) => Beyond(t, entries')
  BY <1>1, <1>2, <1>3, <1>4
<1>6. QED
  BY <1>4, <1>5, ChangedList

\* A step of a thread that is already at work.
LEMMA LedgerStep ==
  ASSUME LedgerInv, NEW w \in Workers, ~Free(w), NEW r, work' = [work EXCEPT ![w] = r],
         entries' = entries, recorded' = recorded,
         stored' # Garbled => GoodList(stored', recorded),
         \/ Resting2(r)
         \/ Dumping(r, recorded, entries)
         \/ Writing2(r, recorded, entries, stored'),
         \/ Resting2(r)
         \/ r.alone = work[w].alone,
         \/ stored' = stored
         \/ stored' = <<>>
         \/ work[w].step = "write"
  PROVE  LedgerInv'
<1>1. /\ work'[w] = r
      /\ \A v \in Workers : v # w => work'[v] = work[v]
  BY DEF LedgerInv
<1>2. work' = [v \in Workers |-> work'[v]]
  <2>1. PICK f, g : f = work /\ g = work'
    OBVIOUS
  <2>2. f = [v \in Workers |-> f[v]] /\ g = [f EXCEPT ![w] = r]
    BY <2>1 DEF LedgerInv
  <2>3. g = [v \in Workers |-> g[v]]
    BY <2>2
  <2>4. QED
    BY <2>1, <2>3
<1>3. \A v \in Workers : v # w => (Free(v) <=> Free(v)')
  BY <1>1 DEF Free
<1>4. Resting2(r) <=> Free(w)'
  BY <1>1 DEF Free, Resting2
<1>5. ASSUME NEW v \in Workers, v # w
      PROVE  (\/ Resting2(work[v])
              \/ Dumping(work[v], recorded, entries)
              \/ Writing2(work[v], recorded, entries, stored))'
  <2>1. \/ Resting2(work[v])
        \/ Dumping(work[v], recorded, entries)
        \/ Writing2(work[v], recorded, entries, stored)
    BY DEF LedgerInv
  <2>2. CASE Writing2(work[v], recorded, entries, stored)
    <3>1. ~Free(v)
      BY <2>2 DEF Writing2, Free, Idle, Failed
    <3>2. ~work[v].alone
      BY <1>5, <3>1 DEF LedgerInv
    <3>3. Writing2(work[v], recorded, entries, stored')
      BY <2>2, <3>2 DEF Writing2
    <3>4. QED
      BY <1>1, <1>5, <3>3
  <2>3. QED
    BY <1>1, <1>5, <2>1, <2>2
<1>6. (\A v \in Workers :
          \/ Resting2(work[v])
          \/ Dumping(work[v], recorded, entries)
          \/ Writing2(work[v], recorded, entries, stored))'
  BY <1>1, <1>5
<1>7. (\A u, v \in Workers : (~Free(v) /\ work[v].alone /\ u # v) => Free(u))'
  <2>1. ASSUME NEW u \in Workers, NEW v \in Workers, (~Free(v))', work'[v].alone, u # v
        PROVE  Free(u)'
    <3>1. CASE v = w
      <4>1. work[w].alone
        BY <1>1, <1>4, <2>1, <3>1
      <4>2. Free(u)
        BY <2>1, <3>1, <4>1 DEF LedgerInv
      <4>3. QED
        BY <1>3, <2>1, <3>1, <4>2
    <3>2. CASE v # w
      <4>1. ~Free(v) /\ work[v].alone
        BY <1>1, <1>3, <2>1, <3>2
      <4>2. \A x \in Workers : x # v => Free(x)
        BY <4>1 DEF LedgerInv
      <4>3. QED
        BY <3>2, <4>2
    <3>3. QED
      BY <3>1, <3>2
  <2>2. QED
    BY <2>1
<1>8. QED
  BY <1>2, <1>6, <1>7 DEF LedgerInv

LEMMA LedgerDump == ASSUME LedgerInv, NEW w \in Workers, Dump(w) PROVE LedgerInv'
<1>1. work[w].step = "dump" /\ ~Free(w) /\ Dumping(work[w], recorded, entries)
  BY DEF Dump, LedgerInv, Free, Resting2, Writing2, Idle, Failed
<1>2. PICK n, s, t : n = recorded /\ s = work[w].list /\ t = entries
  OBVIOUS
<1>3. n \in Nat /\ GoodList(s, n) /\ GoodList(t, n) /\ Beyond(s, t)
  BY <1>1, <1>2 DEF LedgerInv, Dumping
<1>4. PICK k \in 0 .. Len(s) :
        work' = [work EXCEPT ![w] =
          [step |-> "open", text |-> Joined(s, t, k), alone |-> work[w].alone]]
  BY <1>2 DEF Dump, Dumped, Proceeds, Joined
<1>5. PICK text : text = Joined(s, t, k)
  OBVIOUS
<1>6. GoodList(text, n) /\ (s = t => text = t)
  <2>1. k \in 0 .. Len(s)
    BY <1>4
  <2>2. QED
    BY <1>3, <1>5, <2>1, JoinedList
<1>7. PICK r : r = [step |-> "open", text |-> text, alone |-> work[w].alone]
  OBVIOUS
<1>8. r.step = "open" /\ r.text = text /\ r.alone = work[w].alone
  BY <1>7
<1>9. Writing2(r, recorded, entries, stored')
  BY <1>1, <1>2, <1>6, <1>7, <1>8 DEF Writing2, Dumping
<1>10. work' = [work EXCEPT ![w] = r]
  BY <1>4, <1>5, <1>7
<1>11. entries' = entries /\ recorded' = recorded /\ stored' = stored
  BY DEF Dump
<1>12. stored' # Garbled => GoodList(stored', recorded)
  BY <1>11 DEF LedgerInv
<1>13. QED
  BY <1>1, <1>8, <1>9, <1>10, <1>11, <1>12, LedgerStep

LEMMA LedgerOpen == ASSUME LedgerInv, NEW w \in Workers, Open(w) PROVE LedgerInv'
<1>1. work[w].step = "open" /\ ~Free(w) /\ Writing2(work[w], recorded, entries, stored)
  BY DEF Open, LedgerInv, Free, Resting2, Dumping, Idle, Failed
<1>2. PICK r : r = [work[w] EXCEPT !.step = "write"]
  OBVIOUS
<1>3. r = [step |-> "write", text |-> work[w].text, alone |-> work[w].alone]
  BY <1>1, <1>2 DEF Writing2
<1>4. r.step = "write" /\ r.text = work[w].text /\ r.alone = work[w].alone
  BY <1>3
<1>5. /\ entries' = entries /\ recorded' = recorded /\ stored' = <<>>
      /\ work' = [work EXCEPT ![w] = r]
  BY <1>2 DEF Open, Truncated, Proceeds
<1>6. Writing2(r, recorded, entries, stored')
  BY <1>1, <1>3, <1>4, <1>5 DEF Writing2
<1>7. stored' # Garbled => GoodList(stored', recorded)
  BY <1>5, EmptyList DEF LedgerInv
<1>8. QED
  BY <1>1, <1>4, <1>5, <1>6, <1>7, LedgerStep

\* What is left in the file after a write is its text, or cannot be read.
LEMMA LedgerWritten ==
  ASSUME LedgerInv, NEW w \in Workers, Write(w)
  PROVE  /\ work[w].step = "write" /\ ~Free(w)
         /\ Writing2(work[w], recorded, entries, stored)
         /\ stored' \in {work[w].text, Garbled}
         /\ stored = <<>> => stored' = work[w].text
<1>1. work[w].step = "write" /\ ~Free(w) /\ Writing2(work[w], recorded, entries, stored)
  BY DEF Write, LedgerInv, Free, Resting2, Dumping, Idle, Failed
<1>2. Over(work[w].text) \subseteq {work[w].text, Garbled}
  BY DEF Over
<1>3. stored' \in IF stored = <<>> THEN {work[w].text} ELSE Over(work[w].text)
  BY DEF Write
<1>4. QED
  BY <1>1, <1>2, <1>3

LEMMA LedgerWrite == ASSUME LedgerInv, NEW w \in Workers, Write(w) PROVE LedgerInv'
<1>1. /\ work[w].step = "write" /\ ~Free(w)
      /\ Writing2(work[w], recorded, entries, stored)
      /\ stored' \in {work[w].text, Garbled}
  BY LedgerWritten
<1>2. stored' # Garbled => GoodList(stored', recorded)
  BY <1>1 DEF Writing2
<1>3. /\ work' = [work EXCEPT ![w] = Idle] /\ entries' = entries /\ recorded' = recorded
      /\ Resting2(Idle)
  BY DEF Write, Proceeds, Resting2
<1>4. QED
  BY <1>1, <1>2, <1>3, LedgerStep

LEMMA LedgerPersistFails ==
  ASSUME LedgerInv, NEW w \in Workers, PersistFails(w) PROVE LedgerInv'
<1>1. /\ work' = [work EXCEPT ![w] = Failed] /\ entries' = entries /\ recorded' = recorded
      /\ Resting2(Failed) /\ ~Free(w)
  BY DEF PersistFails, Proceeds, Resting2
<1>2. CASE stored' = stored
  <2>1. stored' # Garbled => GoodList(stored', recorded)
    BY <1>2 DEF LedgerInv
  <2>2. QED
    BY <1>1, <1>2, <2>1, LedgerStep
<1>3. CASE work[w].step = "write" /\ stored' = Garbled
  BY <1>1, <1>3, LedgerStep
<1>4. QED
  BY <1>2, <1>3 DEF PersistFails

LEMMA LedgerRestart == LedgerInv /\ Restart => LedgerInv'
<1> SUFFICES ASSUME LedgerInv, Restart PROVE LedgerInv'
  OBVIOUS
<1>1. stored' = stored /\ recorded' = recorded /\ work' = [w \in Workers |-> Idle]
  BY DEF Restart
<1>2. GoodList(entries', recorded')
  BY <1>1, EmptyList DEF Restart, LedgerInv
<1>3. (\A w \in Workers : Free(w) /\ Resting2(work[w]))'
  BY <1>1 DEF Free, Resting2
<1>4. work' = [w \in Workers |-> work'[w]]
  BY <1>1
<1>5. QED
  BY <1>1, <1>2, <1>3, <1>4 DEF LedgerInv

LEMMA LedgerSteps == LedgerInv /\ [LedgerNext]_ledgerVars => LedgerInv'
<1> SUFFICES ASSUME LedgerInv, [LedgerNext]_ledgerVars PROVE LedgerInv'
  OBVIOUS
<1>1. CASE UNCHANGED ledgerVars
  <2>1. entries' = entries /\ stored' = stored /\ recorded' = recorded /\ work' = work
    BY <1>1 DEF ledgerVars
  <2>2. \A w \in Workers : Free(w) <=> Free(w)'
    BY <2>1 DEF Free
  <2>3. QED
    BY <2>1, <2>2 DEF LedgerInv
<1>2. CASE Record
  BY <1>2, LedgerRecord
<1>3. CASE Restart
  BY <1>3, LedgerRestart
<1>4. ASSUME NEW w \in Workers, Clear(w) \/ Dump(w) \/ Open(w) \/ Write(w) \/ PersistFails(w)
      PROVE  LedgerInv'
  BY <1>4, LedgerClear, LedgerDump, LedgerOpen, LedgerWrite, LedgerPersistFails
<1>5. QED
  BY <1>1, <1>2, <1>3, <1>4 DEF LedgerNext

\* Each thread writes a list whose entries come in the order they were recorded and
\* before whatever the list in memory has gained since; one that met no other thread
\* writes the list as it is, to a file it has emptied itself.
THEOREM LedgerInvariance == LedgerSpec => []LedgerInv
<1>1. QED
  BY LedgerStarts, LedgerSteps, PTL DEF LedgerSpec

\* However many threads clear the ledger while entries are recorded, and whichever
\* writes fail, neither the list nor a file that can be read has an entry twice or
\* out of order.
THEOREM LedgerKeepsTheOrder == LedgerSpec => []EntriesStayInOrder
<1>1. LedgerInv => EntriesStayInOrder
  <2> SUFFICES ASSUME LedgerInv PROVE EntriesStayInOrder
    OBVIOUS
  <2>1. \A s : GoodList(s, recorded) => InOrder(s)
    BY DEF GoodList, InOrder
  <2>2. QED
    BY <2>1 DEF LedgerInv, EntriesStayInOrder
<1>2. QED
  BY <1>1, LedgerInvariance, PTL

\* A change that is written without meeting another thread leaves the file as the
\* list is, whatever was in it before.
THEOREM LonePersistsHeal == LedgerSpec => LonePersistHeals
<1>1. ASSUME LedgerInv, NEW w \in Workers, Write(w), work[w].alone
      PROVE  stored' = entries'
  <2>1. /\ work[w].step = "write"
        /\ Writing2(work[w], recorded, entries, stored)
        /\ stored = <<>> => stored' = work[w].text
    BY <1>1, LedgerWritten
  <2>2. stored = <<>> /\ work[w].text = entries
    BY <1>1, <2>1 DEF Writing2
  <2>3. entries' = entries
    BY <1>1 DEF Write
  <2>4. QED
    BY <2>1, <2>2, <2>3
<1>2. LedgerInv => [\A w \in Workers : (Write(w) /\ work[w].alone) => stored' = entries']_ledgerVars
  BY <1>1
<1>3. QED
  BY <1>2, LedgerInvariance, PTL DEF LonePersistHeals, LedgerSpec

(* The contract pipeline                                                   *)

Paths == {PathOf(t, k) : t \in Targets, k \in Kinds}

PipelineJob(r) ==
    \/ r = Resting
    \/ /\ r.step \in {"chatgpt", "kimi", "claude"} \cup Kinds
       /\ r = [step |-> r.step, run |-> r.run, target |-> r.target]
       /\ r.target \in Targets

\* Terminal v is writing the files of target t.
Writes(v, t) == Writing(v) /\ job[v].target = t

\* The files of a target that v has written so far.
WrittenBy(v) ==
    /\ job[v].step \in {"notes", "audit"} => files[PathOf(job[v].target, "contract")] = job[v].run
    /\ job[v].step = "audit" => files[PathOf(job[v].target, "notes")] = job[v].run

\* A target has at most one writer, which finds the files it has written so far
\* untouched; with no writer its three files are of one run.
TargetInv(t) ==
    /\ \A u, v \in Validators : (Writes(u, t) /\ Writes(v, t)) => u = v
    /\ \A v \in Validators : Writes(v, t) => WrittenBy(v)
    /\ \/ \E v \in Validators : Writes(v, t)
       \/ \E x : \A k \in Kinds : files[PathOf(t, k)] = x

\* The pipeline guarantees this of the targets that are not disturbed.
ContractInv ==
    /\ files = [p \in Paths |-> files[p]]
    /\ job = [v \in Validators |-> job[v]]
    /\ \A v \in Validators : PipelineJob(job[v])
    /\ \A t \in Targets : t \notin disturbed => TargetInv(t)

\* No two targets share a file.
LEMMA PathsDiffer ==
  ASSUME NEW t \in Targets, NEW u \in Targets, NEW k, NEW l, PathOf(t, k) = PathOf(u, l)
  PROVE  t = u /\ k = l
<1>1. PICK a, m : t = <<a, m>>
  BY DEF Targets
<1>2. PICK b, n : u = <<b, n>>
  BY DEF Targets
<1>3. <<a, m, k>> = <<b, n, l>>
  BY <1>1, <1>2 DEF PathOf
<1>4. QED
  BY <1>1, <1>2, <1>3

LEMMA ContractStarts == ContractInit => ContractInv
<1> SUFFICES ASSUME ContractInit PROVE ContractInv
  OBVIOUS
<1>1. files = [p \in Paths |-> files[p]] /\ job = [v \in Validators |-> job[v]]
  BY DEF ContractInit, Paths
<1>2. \A v \in Validators : PipelineJob(job[v]) /\ ~Writing(v)
  BY DEF ContractInit, PipelineJob, Writing, Resting, Kinds
<1>3. \A t \in Targets, k \in Kinds : PathOf(t, k) \in Paths
  BY DEF Paths
<1>4. \A p \in Paths : files[p] = Unwritten
  BY DEF ContractInit, Paths
<1>5. \A t \in Targets : \E x : \A k \in Kinds : files[PathOf(t, k)] = x
  BY <1>3, <1>4
<1>6. QED
  BY <1>1, <1>2, <1>5 DEF ContractInv, TargetInv, Writes

\* A terminal moves on before it writes anything, or gives up there.
LEMMA RefiningStep ==
  ASSUME ContractInv, NEW v \in Validators, ~Writing(v),
         NEW r, PipelineJob(r), r.step \notin Kinds, job' = [job EXCEPT ![v] = r],
         files' = files, disturbed' = disturbed
  PROVE  ContractInv'
<1>1. /\ job'[v] = r
      /\ \A u \in Validators : u # v => job'[u] = job[u]
  BY DEF ContractInv
<1>2. job' = [u \in Validators |-> job'[u]]
  <2>1. PICK f, g : f = job /\ g = job'
    OBVIOUS
  <2>2. f = [u \in Validators |-> f[u]] /\ g = [f EXCEPT ![v] = r]
    BY <2>1 DEF ContractInv
  <2>3. g = [u \in Validators |-> g[u]]
    BY <2>2
  <2>4. QED
    BY <2>1, <2>3
<1>3. \A u \in Validators : (PipelineJob(job[u]))'
  BY <1>1 DEF ContractInv, PipelineJob, Targets
<1>4. \A u \in Validators : \A t : Writes(u, t) <=> Writes(u, t)'
  BY <1>1 DEF Writes, Writing, Kinds
<1>5. \A u \in Validators : \A t : Writes(u, t) => u # v
  BY DEF Writes
<1>6. \A u \in Validators : u # v => (WrittenBy(u) <=> WrittenBy(u)')
  BY <1>1 DEF WrittenBy, PathOf
<1>7. ASSUME NEW t \in Targets, t \notin disturbed
      PROVE  TargetInv(t)'
  <2>1. TargetInv(t)
    BY <1>7 DEF ContractInv
  <2>2. (\A u, w \in Validators : (Writes(u, t) /\ Writes(w, t)) => u = w)'
    BY <1>4, <2>1 DEF TargetInv
  <2>3. (\A w \in Validators : Writes(w, t) => WrittenBy(w))'
    BY <1>4, <1>5, <1>6, <2>1 DEF TargetInv
  <2>4. (\/ \E w \in Validators : Writes(w, t)
         \/ \E x : \A k \in Kinds : files[PathOf(t, k)] = x)'
    BY <1>4, <2>1 DEF TargetInv, PathOf, Kinds
  <2>5. QED
    BY <2>2, <2>3, <2>4 DEF TargetInv
<1>8. (files = [p \in Paths |-> files[p]])'
  BY DEF ContractInv, Paths, PathOf, Targets, Kinds
<1>9. QED
  BY <1>2, <1>3, <1>7, <1>8 DEF ContractInv, Targets

\* A terminal that is about to write, or writes, concerns its own target only.
LEMMA WritingStep ==
  ASSUME ContractInv, NEW v \in Validators, NEW t \in Targets, job[v].target = t,
         job[v] # Resting, NEW r, PipelineJob(r), r = Resting \/ r.target = t,
         job' = [job EXCEPT ![v] = r],
         files' = [p \in Paths |-> files'[p]],
         \A u \in Targets, k \in Kinds : u # t => files'[PathOf(u, k)] = files[PathOf(u, k)],
         \A u \in Targets : u # t => (u \in disturbed' <=> u \in disturbed),
         t \notin disturbed' => TargetInv(t)'
  PROVE  ContractInv'
<1>1. /\ job'[v] = r
      /\ \A u \in Validators : u # v => job'[u] = job[u]
  BY DEF ContractInv
<1>2. job' = [u \in Validators |-> job'[u]]
  <2>1. PICK f, g : f = job /\ g = job'
    OBVIOUS
  <2>2. f = [u \in Validators |-> f[u]] /\ g = [f EXCEPT ![v] = r]
    BY <2>1 DEF ContractInv
  <2>3. g = [u \in Validators |-> g[u]]
    BY <2>2
  <2>4. QED
    BY <2>1, <2>3
<1>3. \A u \in Validators : (PipelineJob(job[u]))'
  BY <1>1 DEF ContractInv, PipelineJob, Targets, Kinds, Resting
<1>4. ASSUME NEW u \in Targets, u # t
      PROVE  \A w \in Validators : Writes(w, u) => (w # v /\ Writes(w, u)' /\ (WrittenBy(w) => WrittenBy(w)'))
  <2>1. ASSUME NEW w \in Validators, Writes(w, u)
        PROVE  w # v /\ Writes(w, u)' /\ (WrittenBy(w) => WrittenBy(w)')
    <3>1. w # v /\ job'[w] = job[w] /\ job[w].target = u
      BY <1>1, <1>4, <2>1 DEF Writes
    <3>2. Writes(w, u)'
      BY <2>1, <3>1 DEF Writes, Writing, Kinds
    <3>3. "contract" \in Kinds /\ "notes" \in Kinds
      BY DEF Kinds
    <3>4. /\ files'[PathOf(u, "contract")] = files[PathOf(u, "contract")]
          /\ files'[PathOf(u, "notes")] = files[PathOf(u, "notes")]
      BY <1>4, <3>3
    <3>5. WrittenBy(w) => WrittenBy(w)'
      BY <3>1, <3>4 DEF WrittenBy, PathOf
    <3>6. QED
      BY <3>1, <3>2, <3>5
  <2>2. QED
    BY <2>1
<1>5. ASSUME NEW u \in Targets, u # t, NEW w \in Validators, Writes(w, u)'
      PROVE  Writes(w, u)
  <2>1. w # v
    BY <1>1, <1>5 DEF Writes, Writing, Kinds, Resting
  <2>2. QED
    BY <1>1, <1>5, <2>1 DEF Writes, Writing, Kinds
<1>6. ASSUME NEW u \in Targets, u # t, u \notin disturbed'
      PROVE  TargetInv(u)'
  <2>1. TargetInv(u)
    BY <1>6 DEF ContractInv
  <2>2. (\A a, b \in Validators : (Writes(a, u) /\ Writes(b, u)) => a = b)'
    BY <1>5, <1>6, <2>1 DEF TargetInv
  <2>3. (\A w \in Validators : Writes(w, u) => WrittenBy(w))'
    BY <1>4, <1>5, <1>6, <2>1 DEF TargetInv
  <2>4. (\/ \E w \in Validators : Writes(w, u)
         \/ \E x : \A k \in Kinds : files[PathOf(u, k)] = x)'
    <3>1. CASE \E w \in Validators : Writes(w, u)
      BY <1>4, <1>6, <3>1
    <3>2. CASE \E x : \A k \in Kinds : files[PathOf(u, k)] = x
      BY <1>6, <3>2 DEF PathOf, Kinds
    <3>3. QED
      BY <2>1, <3>1, <3>2 DEF TargetInv
  <2>5. QED
    BY <2>2, <2>3, <2>4 DEF TargetInv
<1>7. (\A u \in Targets : u \notin disturbed => TargetInv(u))'
  BY <1>6 DEF Targets
<1>8. (files = [p \in Paths |-> files[p]])'
  BY DEF Paths, PathOf, Targets, Kinds
<1>9. QED
  BY <1>2, <1>3, <1>7, <1>8 DEF ContractInv

LEMMA ContractValidate ==
  ASSUME ContractInv, NEW v \in Validators, Validate(v) PROVE ContractInv'
<1>1. PICK s \in DOMAIN SlugOf, n \in Majors :
        job' = [job EXCEPT ![v] = [step |-> "chatgpt", run |-> runs', target |-> <<SlugOf[s], n>>]]
  BY DEF Validate
<1>2. PICK r : r = [step |-> "chatgpt", run |-> runs', target |-> <<SlugOf[s], n>>]
  OBVIOUS
<1>3. PipelineJob(r) /\ r.step \notin Kinds
  BY <1>2 DEF PipelineJob, Targets, Kinds
<1>4. ~Writing(v) /\ files' = files /\ disturbed' = disturbed
  BY DEF Validate, Writing, Resting, Kinds
<1>5. QED
  BY <1>1, <1>2, <1>3, <1>4, RefiningStep

LEMMA ContractRefine ==
  ASSUME ContractInv, NEW v \in Validators, RefineStage(v) PROVE ContractInv'
<1>1. /\ job[v].step \in {"chatgpt", "kimi"} /\ ~Writing(v)
      /\ files' = files /\ disturbed' = disturbed
  BY DEF RefineStage, Writing, Kinds
<1>2. PICK step \in {"kimi", "claude"} : job' = [job EXCEPT ![v].step = step]
  BY DEF RefineStage, Advance
<1>3. PICK r : r = [job[v] EXCEPT !.step = step]
  OBVIOUS
<1>4. job' = [job EXCEPT ![v] = r]
  BY <1>2, <1>3
<1>5. /\ job[v] = [step |-> job[v].step, run |-> job[v].run, target |-> job[v].target]
      /\ job[v].target \in Targets
  BY <1>1 DEF ContractInv, PipelineJob, Resting
<1>6. r = [step |-> step, run |-> job[v].run, target |-> job[v].target]
  BY <1>3, <1>5
<1>7. PipelineJob(r) /\ r.step \notin Kinds
  BY <1>5, <1>6 DEF PipelineJob, Kinds
<1>8. QED
  BY <1>1, <1>4, <1>7, RefiningStep

LEMMA ContractStageFails ==
  ASSUME ContractInv, NEW v \in Validators, StageFails(v) PROVE ContractInv'
<1>1. /\ ~Writing(v) /\ files' = files /\ disturbed' = disturbed
      /\ job' = [job EXCEPT ![v] = Resting]
  BY DEF StageFails, Writing, Kinds
<1>2. PipelineJob(Resting) /\ Resting.step \notin Kinds
  BY DEF PipelineJob, Resting, Kinds
<1>3. QED
  BY <1>1, <1>2, RefiningStep

LEMMA ContractClaude ==
  ASSUME ContractInv, NEW v \in Validators, ClaudeStage(v) PROVE ContractInv'
<1>1. PICK t : t = job[v].target
  OBVIOUS
<1>2. /\ job[v].step = "claude" /\ job[v] # Resting /\ t \in Targets
      /\ job[v] = [step |-> job[v].step, run |-> job[v].run, target |-> t]
  BY <1>1 DEF ClaudeStage, ContractInv, PipelineJob, Resting
<1>3. PICK r : r = [step |-> "contract", run |-> job[v].run, target |-> t]
  OBVIOUS
<1>4. job' = [job EXCEPT ![v] = r]
  <2>1. [job[v] EXCEPT !.step = "contract"] = r
    BY <1>2, <1>3
  <2>2. QED
    BY <2>1 DEF ClaudeStage, Advance
<1>5. PipelineJob(r) /\ r.target = t
  BY <1>2, <1>3 DEF PipelineJob, Kinds
<1>6. files' = files /\ files = [p \in Paths |-> files[p]]
  BY DEF ClaudeStage, ContractInv
<1>7. /\ \A u \in Targets : u # t => (u \in disturbed' <=> u \in disturbed)
      /\ Writers(t) # {} => t \in disturbed'
  BY <1>1 DEF ClaudeStage
<1>8. ASSUME t \notin disturbed' PROVE TargetInv(t)'
  <2>1. \A u \in Validators : ~Writes(u, t)
    BY <1>7, <1>8 DEF Writers, Writes
  <2>2. job'[v] = r /\ \A u \in Validators : u # v => job'[u] = job[u]
    BY <1>4 DEF ContractInv
  <2>3. \A u \in Validators : Writes(u, t)' => u = v
    BY <2>1, <2>2 DEF Writes, Writing, Kinds
  <2>4. Writes(v, t)' /\ WrittenBy(v)'
    BY <1>3, <2>2 DEF Writes, Writing, Kinds, WrittenBy
  <2>5. QED
    BY <2>3, <2>4 DEF TargetInv
<1>9. QED
  BY <1>1, <1>2, <1>4, <1>5, <1>6, <1>7, <1>8, WritingStep

\* One file of a target is written or lost.
LEMMA OneFileChanges ==
  ASSUME ContractInv, NEW t \in Targets, NEW k \in Kinds, NEW x,
         files' = [files EXCEPT ![PathOf(t, k)] = x]
  PROVE  /\ files' = [p \in Paths |-> files'[p]]
         /\ files'[PathOf(t, k)] = x
         /\ \A u \in Targets, l \in Kinds :
               (u # t \/ l # k) => files'[PathOf(u, l)] = files[PathOf(u, l)]
<1>1. PICK f, g, p : f = files /\ g = files' /\ p = PathOf(t, k)
  OBVIOUS
<1>2. f = [q \in Paths |-> f[q]] /\ g = [f EXCEPT ![p] = x]
  BY <1>1 DEF ContractInv
<1>3. \A u \in Targets, l \in Kinds : PathOf(u, l) \in Paths
  BY DEF Paths
<1>4. \A u \in Targets, l \in Kinds : (u # t \/ l # k) => PathOf(u, l) # p
  BY <1>1, PathsDiffer
<1>5. g = [q \in Paths |-> g[q]]
  BY <1>2
<1>6. g[p] = x /\ \A q \in Paths : q # p => g[q] = f[q]
  BY <1>1, <1>2, <1>3
<1>7. QED
  BY <1>1, <1>3, <1>4, <1>5, <1>6

LEMMA ContractWrite ==
  ASSUME ContractInv, NEW v \in Validators, WriteFileOf(v) PROVE ContractInv'
<1>1. PICK t, k, run : t = job[v].target /\ k = job[v].step /\ run = job[v].run
  OBVIOUS
<1>2. /\ k \in Kinds /\ t \in Targets /\ job[v] # Resting /\ Writes(v, t)
      /\ job[v] = [step |-> k, run |-> run, target |-> t]
  BY <1>1 DEF WriteFileOf, ContractInv, PipelineJob, Resting, Writing, Kinds, Writes
<1>3. PICK r : r = IF k = "audit" THEN Resting
                   ELSE [step |-> IF k = "contract" THEN "notes" ELSE "audit",
                         run |-> run, target |-> t]
  OBVIOUS
<1>4. job' = [job EXCEPT ![v] = r]
  <2>1. CASE k = "audit"
    BY <1>1, <1>3, <2>1 DEF WriteFileOf
  <2>2. CASE k # "audit"
    <3>1. After(k) = IF k = "contract" THEN "notes" ELSE "audit"
      BY <1>2, <2>2 DEF After, Kinds
    <3>2. [job[v] EXCEPT !.step = After(k)] = r
      BY <1>2, <1>3, <2>2, <3>1
    <3>3. QED
      BY <1>1, <2>2, <3>2 DEF WriteFileOf, Advance
  <2>3. QED
    BY <2>1, <2>2
<1>5. PipelineJob(r) /\ (r = Resting \/ r.target = t)
  BY <1>2, <1>3 DEF PipelineJob, Kinds
<1>6. files' = [files EXCEPT ![PathOf(t, k)] = run] /\ disturbed' = disturbed
  BY <1>1 DEF WriteFileOf
<1>7. /\ files' = [p \in Paths |-> files'[p]]
      /\ files'[PathOf(t, k)] = run
      /\ \A u \in Targets, l \in Kinds :
            (u # t \/ l # k) => files'[PathOf(u, l)] = files[PathOf(u, l)]
  BY <1>2, <1>6, OneFileChanges
<1>8. ASSUME t \notin disturbed' PROVE TargetInv(t)'
  <2>1. TargetInv(t)
    BY <1>2, <1>6, <1>8 DEF ContractInv
  <2>2. \A u \in Validators : Writes(u, t) => u = v
    BY <1>2, <2>1 DEF TargetInv
  <2>3. job'[v] = r /\ \A u \in Validators : u # v => job'[u] = job[u]
    BY <1>4 DEF ContractInv
  <2>4. \A u \in Validators : Writes(u, t)' => u = v
    BY <2>2, <2>3 DEF Writes, Writing, Kinds
  <2>5. WrittenBy(v)
    BY <1>2, <2>1 DEF TargetInv
  <2>6. CASE k = "contract"
    <3>1. r = [step |-> "notes", run |-> run, target |-> t]
      BY <1>3, <2>6
    <3>2. Writes(v, t)'
      BY <2>3, <3>1 DEF Writes, Writing, Kinds
    <3>3. WrittenBy(v)'
      BY <1>7, <2>3, <2>6, <3>1 DEF WrittenBy, PathOf
    <3>4. QED
      BY <2>4, <3>2, <3>3 DEF TargetInv
  <2>7. CASE k = "notes"
    <3>1. r = [step |-> "audit", run |-> run, target |-> t]
      BY <1>3, <2>7
    <3>2. Writes(v, t)'
      BY <2>3, <3>1 DEF Writes, Writing, Kinds
    <3>3. files[PathOf(t, "contract")] = run /\ "contract" \in Kinds
      BY <1>1, <2>5, <2>7 DEF WrittenBy, Kinds
    <3>4. files'[PathOf(t, "contract")] = run /\ files'[PathOf(t, "notes")] = run
      BY <1>2, <1>7, <2>7, <3>3
    <3>5. WrittenBy(v)'
      BY <2>3, <3>1, <3>4 DEF WrittenBy, PathOf
    <3>6. QED
      BY <2>4, <3>2, <3>5 DEF TargetInv
  <2>8. CASE k = "audit"
    <3>1. ~Writing(v)'
      BY <1>3, <2>3, <2>8 DEF Resting, Writing, Kinds
    <3>2. \A u \in Validators : ~Writes(u, t)'
      BY <2>4, <3>1 DEF Writes
    <3>3. files[PathOf(t, "contract")] = run /\ files[PathOf(t, "notes")] = run
      BY <1>1, <2>5, <2>8 DEF WrittenBy
    <3>4. \A l \in Kinds : files'[PathOf(t, l)] = run
      BY <1>2, <1>7, <2>8, <3>3 DEF Kinds
    <3>5. (\E x : \A l \in Kinds : files[PathOf(t, l)] = x)'
      BY <3>4 DEF PathOf, Kinds
    <3>6. QED
      BY <3>2, <3>5 DEF TargetInv
  <2>9. QED
    BY <1>2, <2>6, <2>7, <2>8 DEF Kinds
<1>9. /\ \A u \in Targets, l \in Kinds : u # t => files'[PathOf(u, l)] = files[PathOf(u, l)]
      /\ \A u \in Targets : u # t => (u \in disturbed' <=> u \in disturbed)
  BY <1>6, <1>7
<1>10. QED
  BY <1>1, <1>2, <1>4, <1>5, <1>7, <1>8, <1>9, WritingStep

LEMMA ContractCut ==
  ASSUME ContractInv, NEW v \in Validators, WriteCut(v) PROVE ContractInv'
<1>1. PICK t, k : t = job[v].target /\ k = job[v].step
  OBVIOUS
<1>2. k \in Kinds /\ t \in Targets /\ job[v] # Resting
  BY <1>1 DEF WriteCut, ContractInv, PipelineJob, Resting, Writing, Kinds
<1>3. PICK x : files' = [files EXCEPT ![PathOf(t, k)] = x]
  BY <1>1 DEF WriteCut
<1>4. /\ files' = [p \in Paths |-> files'[p]]
      /\ \A u \in Targets, l \in Kinds :
            (u # t \/ l # k) => files'[PathOf(u, l)] = files[PathOf(u, l)]
  BY <1>2, <1>3, OneFileChanges
<1>5. PipelineJob(Resting) /\ job' = [job EXCEPT ![v] = Resting]
  BY DEF PipelineJob, WriteCut
<1>6. /\ \A u \in Targets : u # t => (u \in disturbed' <=> u \in disturbed)
      /\ t \in disturbed'
  BY <1>1 DEF WriteCut
<1>7. QED
  BY ZenonT(30), <1>1, <1>2, <1>4, <1>5, <1>6, WritingStep

LEMMA ContractSteps == ContractInv /\ [ContractNext]_contractVars => ContractInv'
<1> SUFFICES ASSUME ContractInv, [ContractNext]_contractVars PROVE ContractInv'
  OBVIOUS
<1>1. CASE UNCHANGED contractVars
  <2>1. files' = files /\ job' = job /\ disturbed' = disturbed
    BY <1>1 DEF contractVars
  <2>2. \A v \in Validators : /\ WrittenBy(v) <=> WrittenBy(v)'
                             /\ \A t : Writes(v, t) <=> Writes(v, t)'
    BY <2>1 DEF Writes, Writing, WrittenBy, PathOf, Kinds
  <2>3. \A v \in Validators : (PipelineJob(job[v]))'
    BY <2>1 DEF ContractInv, PipelineJob, Targets
  <2>4. (files = [p \in Paths |-> files[p]] /\ job = [v \in Validators |-> job[v]])'
    BY <2>1 DEF ContractInv, Paths, PathOf, Targets, Kinds
  <2>5. ASSUME NEW t \in Targets, t \notin disturbed
        PROVE  TargetInv(t)'
    <3>1. TargetInv(t)
      BY <2>5 DEF ContractInv
    <3>2. (\A u, v \in Validators : (Writes(u, t) /\ Writes(v, t)) => u = v)'
      BY <2>2, <3>1 DEF TargetInv
    <3>3. (\A v \in Validators : Writes(v, t) => WrittenBy(v))'
      BY <2>2, <3>1 DEF TargetInv
    <3>4. (\/ \E v \in Validators : Writes(v, t)
           \/ \E x : \A k \in Kinds : files[PathOf(t, k)] = x)'
      BY <2>1, <2>2, <3>1 DEF TargetInv, PathOf, Kinds
    <3>5. QED
      BY <3>2, <3>3, <3>4 DEF TargetInv
  <2>6. QED
    BY <2>1, <2>3, <2>4, <2>5 DEF ContractInv, Targets
<1>2. ASSUME NEW v \in Validators,
             \/ Validate(v) \/ RefineStage(v) \/ ClaudeStage(v) \/ StageFails(v)
             \/ WriteFileOf(v) \/ WriteCut(v)
      PROVE  ContractInv'
  BY <1>2, ContractValidate, ContractRefine, ContractClaude, ContractStageFails,
     ContractWrite, ContractCut
<1>3. QED
  BY <1>1, <1>2 DEF ContractNext

\* Whoever writes a target that is not disturbed is its only writer.
THEOREM ContractInvariance == ContractSpec => []ContractInv
<1>1. QED
  BY ContractStarts, ContractSteps, PTL DEF ContractSpec

\* Contract, notes and audit of a version are of one run, unless the last writers of
\* that very version overlapped or a write was cut short.
THEOREM VersionsAreOfOneRun == ContractSpec => []VersionIsOneRun
<1>1. ContractInv => VersionIsOneRun
  <2> SUFFICES ASSUME ContractInv, NEW t \in Targets, t \notin disturbed, Writers(t) = {}
               PROVE  Cardinality({files[PathOf(t, k)] : k \in Kinds}) = 1
    BY DEF VersionIsOneRun
  <2>1. \A v \in Validators : ~Writes(v, t)
    BY DEF Writers, Writes
  <2>2. PICK x : \A k \in Kinds : files[PathOf(t, k)] = x
    BY <2>1 DEF ContractInv, TargetInv
  <2>3. {files[PathOf(t, k)] : k \in Kinds} = {x}
    BY <2>2 DEF Kinds
  <2>4. QED
    BY <2>3, FS_Singleton
<1>2. QED
  BY <1>1, ContractInvariance, PTL

(* The records an administrator changes                                    *)

Pending == [status |-> "pending", approver |-> Null]
Verdicts == [status : {"approved", "rejected"}, approver : Approvers]
ApprovalRows == {Pending} \cup Verdicts
ProjectRows == [name : Names, local : BOOLEAN]
StateRows == [state : [base : Documents \cup {Null}, cli : Branches \cup {Null}]]

\* What a request sets of a document: all of it, or a client's part.
Puts == [state : [base : Documents, cli : {Null}]]
Parts == [cli : Branches]

Tracked == Approvals \cup Projects \cup States

IsRow(x, row) ==
    /\ x \in Approvals => row \in ApprovalRows
    /\ x \in Projects => row \in ProjectRows
    /\ x \in States => row \in StateRows

Settable(x, sets) ==
    /\ x \in Approvals => sets \in Verdicts
    /\ x \in Projects => /\ "cli" \notin DOMAIN sets
                         /\ "name" \in DOMAIN sets => sets.name \in Names
                         /\ "local" \in DOMAIN sets => sets.local \in BOOLEAN
    /\ x \in States => sets \in Puts \cup Parts

Ids(ups) == {u.id : u \in ups}

\* Update u of a document has been replaced by one that may count as later.
Replaced(u, ups) ==
    \E v \in ups : v # u /\ v.id \notin u.after /\ ("state" \in DOMAIN v.sets \/ u.id \notin v.after)

OneResolution(row, ups) ==
    \/ \E u \in ups : row = u.sets
    \/ \E u, v \in ups : /\ u # v /\ u.id \notin v.after /\ v.id \notin u.after
                         /\ v.loaded.status # "pending"

\* Where an update u of a document is still seen.
InDocument(u, row, ups) ==
    /\ u.sets \in Puts => (row.state.base = u.sets.state.base \/ Replaced(u, ups))
    /\ u.sets \in Parts =>
          (row.state.cli = u.sets.cli \/ \E v \in ups : v # u /\ v.id \notin u.after)

RowOk(x, row, ups) ==
    /\ row # Absent => IsRow(x, row)
    /\ row = Absent => ups = {}
    /\ \A u \in ups : u.after \subseteq Ids(ups) /\ Settable(x, u.sets)
    /\ x \in Approvals =>
          IF ups = {} THEN row \in {Absent, Pending} ELSE row \in Verdicts /\ OneResolution(row, ups)
    /\ x \in States => \A u \in ups : InDocument(u, row, ups)

\* What a request holds of a row: the row is as it was loaded or has had an update
\* since, and what it has loaded of a document shows every PUT it was sent after that
\* nothing has replaced.
ChangeOk(r, row, ups) ==
    /\ row # Absent
    /\ r.after \subseteq Ids(ups)
    /\ Settable(r.row, r.sets)
    /\ r.step = "commit" =>
          /\ r.wanted = Wanted(r.loaded, r.sets)
          /\ IsRow(r.row, r.loaded)
          /\ \/ row = r.loaded
             \/ \E v \in ups : v.id \notin r.after /\ r.id \notin v.after
          /\ r.row \in States =>
                \A u \in ups : (u.sets \in Puts /\ u.id \in r.after) =>
                    (r.loaded.state.base = u.sets.state.base \/ Replaced(u, ups))

RequestOk(c) ==
    LET r == req[c]
    IN  /\ r.op = "change" /\ r.step \in {"load", "commit"} /\ r.row \in Rows
        /\ r.row \in Tracked =>
              r.id = <<c, sent[c]>> /\ ChangeOk(r, rows[r.row], updates[r.row])

\* No update of a row has this id.
Unused(id, history) == \A x \in Tracked : id \notin Ids(history[x])

AdminInv ==
    /\ rows = [x \in Rows |-> rows[x]]
    /\ updates = [x \in Rows |-> updates[x]]
    /\ req = [c \in Clients |-> req[c]]
    /\ sent \in [Clients -> Nat]
    /\ \A x \in Tracked : RowOk(x, rows[x], updates[x])
    /\ \A p \in Projects : rows[p] = Absent => rows[<<"state", p>>] = Absent
    /\ \A c \in Clients : req[c] = NoRequest \/ RequestOk(c)
    /\ \A c \in Clients : \A m \in Nat :
          (sent[c] < m \/ (req[c] # NoRequest /\ m = sent[c])) =>
              Unused(<<c, m>>, updates)

LEMMA TablesDiffer ==
  /\ \A x \in Approvals : x \notin Projects /\ x \notin States /\ x \notin Keys
  /\ \A x \in Projects : x \notin Approvals /\ x \notin States /\ x \notin Keys
  /\ \A x \in States : x \notin Approvals /\ x \notin Projects /\ x \notin Keys
  /\ Tracked \subseteq Rows
  /\ \A p \in Projects : <<"state", p>> \in States
  /\ \A p, q : <<"state", p>> = <<"state", q>> => p = q
<1>1. /\ Keys \cap (Approvals \cup Projects \cup States) = {}
      /\ Approvals \cap (Projects \cup States) = {}
      /\ Projects \cap States = {}
  BY AdminAssumption
<1>2. Tracked \subseteq Rows
  BY DEF Tracked, Rows
<1>3. \A p \in Projects : <<"state", p>> \in States
  BY DEF States
<1>4. QED
  BY <1>1, <1>2, <1>3

\* A row is never taken for a missing one.
LEMMA RowsAreThere ==
  ASSUME NEW x \in Tracked, NEW row, IsRow(x, row)
  PROVE  row # Absent
<1>1. CASE x \in Approvals
  <2>1. row \in [status : {"pending", "approved", "rejected"}, approver : Approvers \cup {Null}]
    BY <1>1 DEF IsRow, ApprovalRows, Pending, Verdicts
  <2>2. QED
    BY <2>1, AdminAssumption
<1>2. CASE x \in Projects
  BY <1>2, AdminAssumption DEF IsRow, ProjectRows
<1>3. CASE x \in States
  BY <1>3, AdminAssumption DEF IsRow, StateRows
<1>4. QED
  BY <1>1, <1>2, <1>3 DEF Tracked

\* What a commit makes of an approval: the resolution as it was asked for, unless
\* somebody has resolved it since it was loaded.
LEMMA FlushedApproval ==
  ASSUME NEW row \in ApprovalRows, NEW loaded \in ApprovalRows,
         NEW sets \in Verdicts
  PROVE  /\ Wanted(loaded, sets) = sets
         /\ row \in Verdicts => Flushed(row, loaded, sets) \in Verdicts
         /\ (row = loaded \/ loaded = Pending) => Flushed(row, loaded, sets) = sets
         /\ loaded.status = "pending" => loaded = Pending
<1>1. /\ row = [status |-> row.status, approver |-> row.approver]
      /\ loaded = [status |-> loaded.status, approver |-> loaded.approver]
      /\ sets = [status |-> sets.status, approver |-> sets.approver]
      /\ sets.status \in {"approved", "rejected"} /\ sets.approver \in Approvers
  BY DEF ApprovalRows, Pending, Verdicts
<1>2. DOMAIN row = {"status", "approver"} /\ DOMAIN sets = {"status", "approver"}
  BY <1>1
<1>3. Wanted(loaded, sets) = sets
  BY <1>2 DEF Wanted
<1>4. PICK status, approver :
        /\ status = IF sets.status # loaded.status THEN sets.status ELSE row.status
        /\ approver = IF sets.approver # loaded.approver THEN sets.approver ELSE row.approver
  OBVIOUS
<1>5. Flushed(row, loaded, sets) = [status |-> status, approver |-> approver]
  BY <1>2, <1>4 DEF Flushed
<1>6. row \in Verdicts => Flushed(row, loaded, sets) \in Verdicts
  <2> SUFFICES ASSUME row \in Verdicts PROVE Flushed(row, loaded, sets) \in Verdicts
    OBVIOUS
  <2>1. row.status \in {"approved", "rejected"} /\ row.approver \in Approvers
    BY DEF Verdicts
  <2>2. status \in {"approved", "rejected"} /\ approver \in Approvers
    BY <1>1, <1>4, <2>1
  <2>3. QED
    BY <1>5, <2>2 DEF Verdicts
<1>7. ASSUME row = loaded PROVE Flushed(row, loaded, sets) = sets
  <2>1. status = sets.status /\ approver = sets.approver
    BY <1>4, <1>7
  <2>2. QED
    BY <1>1, <1>5, <2>1
<1>8. ASSUME loaded = Pending PROVE Flushed(row, loaded, sets) = sets
  <2>1. loaded.status = "pending" /\ loaded.approver = Null
    BY <1>8 DEF Pending
  <2>2. status = sets.status /\ approver = sets.approver
    BY <1>1, <1>4, <2>1, AdminAssumption
  <2>3. QED
    BY <1>1, <1>5, <2>2
<1>9. loaded.status = "pending" => loaded = Pending
  BY DEF ApprovalRows, Verdicts
<1>10. QED
  BY <1>3, <1>6, <1>7, <1>8, <1>9

\* What a commit makes of a project: each column as it was or as it was asked for.
LEMMA FlushedProject ==
  ASSUME NEW x \in Projects, NEW row \in ProjectRows, NEW loaded, NEW sets, Settable(x, sets)
  PROVE  Flushed(row, loaded, Wanted(loaded, sets)) \in ProjectRows
<1>1. /\ DOMAIN row = {"name", "local"} /\ row.name \in Names /\ row.local \in BOOLEAN
      /\ row = [name |-> row.name, local |-> row.local]
  BY DEF ProjectRows
<1>2. /\ "cli" \notin DOMAIN sets
      /\ "name" \in DOMAIN sets => sets["name"] \in Names
      /\ "local" \in DOMAIN sets => sets["local"] \in BOOLEAN
  BY DEF Settable
<1>3. Wanted(loaded, sets) = sets
  BY <1>2 DEF Wanted
<1>4. PICK name, local :
        /\ name = IF "name" \in DOMAIN sets /\ sets["name"] # loaded["name"]
                  THEN sets["name"] ELSE row["name"]
        /\ local = IF "local" \in DOMAIN sets /\ sets["local"] # loaded["local"]
                   THEN sets["local"] ELSE row["local"]
  OBVIOUS
<1>5. Flushed(row, loaded, sets) = [name |-> name, local |-> local]
  BY <1>1, <1>4 DEF Flushed
<1>6. name \in Names /\ local \in BOOLEAN
  BY <1>1, <1>2, <1>4
<1>7. QED
  BY <1>3, <1>5, <1>6 DEF ProjectRows

\* What a commit makes of a document: what it wants, or what is there if it wants
\* no more than it has loaded.
LEMMA FlushedState ==
  ASSUME NEW row \in StateRows, NEW loaded \in StateRows, NEW sets \in Puts \cup Parts
  PROVE  /\ Flushed(row, loaded, Wanted(loaded, sets)) \in StateRows
         /\ (row = loaded /\ sets \in Puts) =>
                Flushed(row, loaded, Wanted(loaded, sets)).state.base = sets.state.base
         /\ (row = loaded /\ sets \in Parts) =>
                Flushed(row, loaded, Wanted(loaded, sets)).state.cli = sets.cli
         /\ sets \in Parts =>
                \/ Flushed(row, loaded, Wanted(loaded, sets)) = row
                \/ Flushed(row, loaded, Wanted(loaded, sets)).state.base = loaded.state.base
<1>1. /\ row = [state |-> row.state] /\ loaded = [state |-> loaded.state]
      /\ row.state \in [base : Documents \cup {Null}, cli : Branches \cup {Null}]
      /\ loaded.state \in [base : Documents \cup {Null}, cli : Branches \cup {Null}]
  BY DEF StateRows
<1>2. DOMAIN row = {"state"}
  BY <1>1
<1>3. PICK flushed : flushed = Flushed(row, loaded, Wanted(loaded, sets))
  OBVIOUS
<1>4. CASE sets \in Puts
  <2>1. /\ sets = [state |-> sets.state] /\ DOMAIN sets = {"state"}
        /\ sets.state \in [base : Documents \cup {Null}, cli : Branches \cup {Null}]
        /\ sets \notin Parts
    BY <1>4 DEF Puts, Parts
  <2>2. Wanted(loaded, sets) = sets
    BY <2>1 DEF Wanted
  <2>3. flushed = [state |-> IF sets.state # loaded.state THEN sets.state ELSE row.state]
    BY <1>2, <1>3, <2>1, <2>2 DEF Flushed
  <2>4. flushed \in StateRows
    BY <1>1, <2>1, <2>3 DEF StateRows
  <2>5. row = loaded => flushed.state = sets.state
    BY <2>3
  <2>6. QED
    BY <1>3, <2>1, <2>4, <2>5
<1>5. CASE sets \in Parts
  <2>1. /\ sets.cli \in Branches /\ DOMAIN sets = {"cli"} /\ sets \notin Puts
    BY <1>5 DEF Puts, Parts
  <2>2. PICK doc : doc = [loaded.state EXCEPT !.cli = sets.cli]
    OBVIOUS
  <2>3. /\ doc \in [base : Documents \cup {Null}, cli : Branches \cup {Null}]
        /\ doc.base = loaded.state.base /\ doc.cli = sets.cli
    BY <1>1, <2>1, <2>2
  <2>4. Wanted(loaded, sets) = [state |-> doc]
    BY <2>1, <2>2 DEF Wanted, Merged
  <2>5. flushed = [state |-> IF doc # loaded.state THEN doc ELSE row.state]
    BY <1>2, <1>3, <2>4 DEF Flushed
  <2>6. flushed \in StateRows
    BY <1>1, <2>3, <2>5 DEF StateRows
  <2>7. row = loaded => flushed.state = doc
    BY <2>5
  <2>8. flushed = row \/ flushed.state = doc
    BY <1>1, <2>5
  <2>9. QED
    BY <1>3, <2>1, <2>3, <2>6, <2>7, <2>8
<1>6. QED
  BY <1>4, <1>5

\* A commit leaves a row and its history in order.
LEMMA CommittedRow ==
  ASSUME NEW x \in Tracked, NEW row, NEW ups, RowOk(x, row, ups),
         NEW r, r.row = x, r.step = "commit", ChangeOk(r, row, ups), r.id \notin Ids(ups),
         NEW n, n = [id |-> r.id, after |-> r.after, sets |-> r.sets, loaded |-> r.loaded],
         NEW new, new = Flushed(row, r.loaded, r.wanted)
  PROVE  RowOk(x, new, ups \cup {n}) /\ new # Absent
<1>1. /\ row # Absent /\ IsRow(x, row) /\ IsRow(x, r.loaded) /\ Settable(x, r.sets)
      /\ r.after \subseteq Ids(ups)
      /\ r.wanted = Wanted(r.loaded, r.sets)
      /\ \/ row = r.loaded
         \/ \E v \in ups : v.id \notin r.after /\ r.id \notin v.after
  BY DEF RowOk, ChangeOk
<1>2. n.id = r.id /\ n.after = r.after /\ n.sets = r.sets /\ n.loaded = r.loaded
  OBVIOUS
<1>3. PICK all : all = ups \cup {n}
  OBVIOUS
<1>4. /\ n \in all /\ ups \subseteq all /\ all # {}
      /\ Ids(ups) \subseteq Ids(all)
      /\ \A u \in all : u \in ups \/ u = n
  BY <1>3 DEF Ids
<1>5. \A u \in ups : u # n /\ n.id \notin u.after /\ u.id # n.id
  BY <1>2 DEF Ids, RowOk
<1>6. \A u \in all : u.after \subseteq Ids(all) /\ Settable(x, u.sets)
  BY <1>1, <1>2, <1>4 DEF RowOk
<1>7. CASE x \in Approvals
  <2>1. row \in ApprovalRows /\ r.loaded \in ApprovalRows /\ r.sets \in Verdicts
    BY <1>1, <1>7 DEF IsRow, Settable
  <2>2. /\ row \in Verdicts => new \in Verdicts
        /\ (row = r.loaded \/ r.loaded = Pending) => new = r.sets
        /\ r.loaded.status = "pending" => r.loaded = Pending
    <3>1. PICK loaded, sets : loaded = r.loaded /\ sets = r.sets
      OBVIOUS
    <3>2. /\ Wanted(loaded, sets) = sets
          /\ row \in Verdicts => Flushed(row, loaded, sets) \in Verdicts
          /\ (row = loaded \/ loaded = Pending) => Flushed(row, loaded, sets) = sets
          /\ loaded.status = "pending" => loaded = Pending
      BY <2>1, <3>1, FlushedApproval
    <3>3. new = Flushed(row, loaded, sets)
      <4>1. Wanted(loaded, sets) = sets
        BY <3>2
      <4>2. r.wanted = sets
        BY <1>1, <3>1, <4>1
      <4>3. QED
        BY <3>1, <4>2
    <3>4. QED
      BY <3>1, <3>2, <3>3
  <2>3. new \in Verdicts
    <3>1. CASE ups = {}
      BY <1>1, <2>2, <3>1, <2>1 DEF ApprovalRows
    <3>2. CASE ups # {}
      BY <1>7, <2>2, <3>2 DEF RowOk
    <3>3. QED
      BY <3>1, <3>2
  <2>4. OneResolution(new, all)
    <3>1. CASE row = r.loaded \/ r.loaded = Pending
      BY <1>2, <1>4, <2>2, <3>1 DEF OneResolution
    <3>2. CASE row # r.loaded /\ r.loaded # Pending
      <4>1. PICK v \in ups : v.id \notin r.after /\ r.id \notin v.after
        BY <1>1, <3>2
      <4>2. n.loaded.status # "pending" /\ v # n /\ v.id \notin n.after /\ n.id \notin v.after
        BY <1>2, <1>5, <2>2, <3>2, <4>1
      <4>3. QED
        BY <1>4, <4>2 DEF OneResolution
    <3>3. QED
      BY <3>1, <3>2
  <2>5. IsRow(x, new) /\ x \notin States
    BY <1>7, <2>3, TablesDiffer DEF IsRow, ApprovalRows
  <2>6. new # Absent
    BY <2>5, RowsAreThere
  <2>7. QED
    BY <1>3, <1>4, <1>6, <2>3, <2>4, <2>5, <2>6 DEF RowOk
<1>8. CASE x \in Projects
  <2>1. row \in ProjectRows
    BY <1>1, <1>8 DEF IsRow
  <2>2. new \in ProjectRows
    <3>1. PICK loaded, sets : loaded = r.loaded /\ sets = r.sets
      OBVIOUS
    <3>2. Settable(x, sets) /\ new = Flushed(row, loaded, Wanted(loaded, sets))
      BY <1>1, <3>1
    <3>3. QED
      BY <1>8, <2>1, <3>2, FlushedProject
  <2>3. IsRow(x, new) /\ x \notin States /\ x \notin Approvals
    BY <1>8, <2>2, TablesDiffer DEF IsRow
  <2>4. new # Absent
    BY <2>3, RowsAreThere
  <2>5. QED
    BY <1>3, <1>6, <2>3, <2>4 DEF RowOk
<1>9. CASE x \in States
  <2>1. row \in StateRows /\ r.loaded \in StateRows /\ r.sets \in Puts \cup Parts
    BY <1>1, <1>9 DEF IsRow, Settable
  <2>2. /\ new \in StateRows
        /\ (row = r.loaded /\ r.sets \in Puts) => new.state.base = r.sets.state.base
        /\ (row = r.loaded /\ r.sets \in Parts) => new.state.cli = r.sets.cli
        /\ r.sets \in Parts => (new = row \/ new.state.base = r.loaded.state.base)
    <3>1. PICK loaded, sets : loaded = r.loaded /\ sets = r.sets
      OBVIOUS
    <3>2. new = Flushed(row, loaded, Wanted(loaded, sets))
      BY <1>1, <3>1
    <3>3. /\ Flushed(row, loaded, Wanted(loaded, sets)) \in StateRows
          /\ (row = loaded /\ sets \in Puts) =>
                 Flushed(row, loaded, Wanted(loaded, sets)).state.base = sets.state.base
          /\ (row = loaded /\ sets \in Parts) =>
                 Flushed(row, loaded, Wanted(loaded, sets)).state.cli = sets.cli
          /\ sets \in Parts =>
                 \/ Flushed(row, loaded, Wanted(loaded, sets)) = row
                 \/ Flushed(row, loaded, Wanted(loaded, sets)).state.base = loaded.state.base
      BY ZenonT(30), <2>1, <3>1, FlushedState
    <3>4. QED
      BY <3>1, <3>2, <3>3
  <2>3. InDocument(n, new, all)
    <3>1. CASE row = r.loaded
      BY <1>2, <2>2, <3>1 DEF InDocument
    <3>2. CASE \E v \in ups : v.id \notin r.after /\ r.id \notin v.after
      <4>1. PICK v \in ups : v.id \notin r.after /\ r.id \notin v.after
        BY <3>2
      <4>2. v \in all /\ v # n /\ v.id \notin n.after /\ n.id \notin v.after
        BY <1>2, <1>4, <1>5, <4>1
      <4>3. Replaced(n, all)
        BY <4>2 DEF Replaced
      <4>4. QED
        BY <4>2, <4>3 DEF InDocument
    <3>3. QED
      BY <1>1, <3>1, <3>2
  <2>4. \A u \in ups : Replaced(u, ups) => Replaced(u, all)
    BY <1>4 DEF Replaced
  <2>5. ASSUME NEW u \in ups PROVE InDocument(u, new, all)
    <3>1. n \in all /\ n # u /\ n.id \notin u.after
      BY <1>4, <1>5
    <3>2. ASSUME u.sets \in Puts
          PROVE  new.state.base = u.sets.state.base \/ Replaced(u, all)
      <4>1. CASE r.sets \in Puts
        <5>1. "state" \in DOMAIN n.sets
          BY <1>2, <4>1 DEF Puts
        <5>2. QED
          BY <3>1, <5>1 DEF Replaced
      <4>2. CASE u.id \notin r.after
        <5>1. u.id \notin n.after
          BY <1>2, <4>2
        <5>2. QED
          BY <3>1, <5>1 DEF Replaced
      <4>3. CASE r.sets \in Parts /\ u.id \in r.after
        <5>1. r.loaded.state.base = u.sets.state.base \/ Replaced(u, ups)
          BY <1>9, <3>2, <4>3 DEF ChangeOk
        <5>2. row.state.base = u.sets.state.base \/ Replaced(u, ups)
          BY <1>9, <3>2 DEF RowOk, InDocument
        <5>3. QED
          BY <2>2, <2>4, <4>3, <5>1, <5>2
      <4>4. QED
        BY <2>1, <4>1, <4>2, <4>3
    <3>3. QED
      BY <3>1, <3>2 DEF InDocument
  <2>6. \A u \in all : InDocument(u, new, all)
    BY <1>4, <2>3, <2>5
  <2>7. IsRow(x, new) /\ x \notin Approvals
    BY <1>9, <2>2, TablesDiffer DEF IsRow
  <2>8. new # Absent
    BY <2>7, RowsAreThere
  <2>9. QED
    BY <1>3, <1>6, <2>6, <2>7, <2>8 DEF RowOk
<1>10. QED
  BY <1>7, <1>8, <1>9 DEF Tracked

\* A commit leaves what the other requests under way hold of the row in order.
LEMMA CommittedBeside ==
  ASSUME NEW row, NEW ups, NEW new, new # Absent, NEW n, NEW q, ChangeOk(q, row, ups),
         n.id \notin Ids(ups), n.after \subseteq Ids(ups), q.id \notin Ids(ups)
  PROVE  ChangeOk(q, new, ups \cup {n})
<1>1. PICK all : all = ups \cup {n}
  OBVIOUS
<1>2. /\ n \in all /\ ups \subseteq all /\ Ids(ups) \subseteq Ids(all)
      /\ \A u \in all : u \in ups \/ u = n
  BY <1>1 DEF Ids
<1>3. q.after \subseteq Ids(ups) /\ n.id \notin q.after /\ q.id \notin n.after
  BY DEF ChangeOk
<1>4. \A u \in ups : Replaced(u, ups) => Replaced(u, all)
  BY <1>2 DEF Replaced
<1>5. \E v \in all : v.id \notin q.after /\ q.id \notin v.after
  BY <1>2, <1>3
<1>6. ASSUME q.step = "commit", q.row \in States, NEW u \in all, u.sets \in Puts, u.id \in q.after
      PROVE  q.loaded.state.base = u.sets.state.base \/ Replaced(u, all)
  <2>1. u \in ups
    BY <1>2, <1>3, <1>6
  <2>2. QED
    BY <1>4, <1>6, <2>1 DEF ChangeOk
<1>7. q.after \subseteq Ids(all)
  BY <1>2, <1>3
<1>8. QED
  BY <1>1, <1>5, <1>6, <1>7 DEF ChangeOk

LEMMA AdminStarts == RequestsInit /\ AdminInit => AdminInv
<1> SUFFICES ASSUME RequestsInit, AdminInit PROVE AdminInv
  OBVIOUS
<1>1. /\ rows = [x \in Rows |-> rows[x]] /\ updates = [x \in Rows |-> updates[x]]
      /\ req = [c \in Clients |-> req[c]] /\ sent \in [Clients -> Nat]
      /\ \A c \in Clients : req[c] = NoRequest /\ sent[c] = 0
  BY DEF AdminInit, RequestsInit
<1>2. \A x \in Tracked : rows[x] = Absent /\ updates[x] = {}
  BY TablesDiffer DEF AdminInit
<1>3. \A x : RowOk(x, Absent, {})
  BY DEF RowOk
<1>4. \A x \in Tracked : RowOk(x, rows[x], updates[x])
  BY <1>2, <1>3
<1>5. \A id : Unused(id, updates)
  BY <1>2 DEF Unused, Ids
<1>6. \A p \in Projects : rows[<<"state", p>>] = Absent
  BY <1>2, TablesDiffer DEF Tracked
<1>7. QED
  BY <1>1, <1>4, <1>5, <1>6 DEF AdminInv

\* A step of one client's request.
LEMMA OneClient ==
  ASSUME AdminInv, NEW c \in Clients, NEW r, req' = [req EXCEPT ![c] = r],
         sent' \in [Clients -> Nat], \A d \in Clients : d # c => sent'[d] = sent[d],
         rows' = [x \in Rows |-> rows'[x]], updates' = [x \in Rows |-> updates'[x]],
         \A x \in Tracked : RowOk(x, rows'[x], updates'[x]),
         \A p \in Projects : rows'[p] = Absent => rows'[<<"state", p>>] = Absent,
         \A d \in Clients : (d # c /\ req[d] # NoRequest /\ req[d].row \in Tracked) =>
             ChangeOk(req[d], rows'[req[d].row], updates'[req[d].row]),
         r # NoRequest =>
             /\ r.op = "change" /\ r.step \in {"load", "commit"} /\ r.row \in Rows
             /\ r.row \in Tracked =>
                   r.id = <<c, sent'[c]>> /\ ChangeOk(r, rows'[r.row], updates'[r.row]),
         \A d \in Clients : \A m \in Nat : sent'[d] < m => Unused(<<d, m>>, updates'),
         \A d \in Clients : (d # c /\ req[d] # NoRequest) => Unused(<<d, sent'[d]>>, updates'),
         r # NoRequest => Unused(<<c, sent'[c]>>, updates')
  PROVE  AdminInv'
<1>1. /\ req'[c] = r
      /\ \A d \in Clients : d # c => req'[d] = req[d]
  BY DEF AdminInv
<1>2. req' = [d \in Clients |-> req'[d]]
  <2>1. PICK f, g : f = req /\ g = req'
    OBVIOUS
  <2>2. f = [d \in Clients |-> f[d]] /\ g = [f EXCEPT ![c] = r]
    BY <2>1 DEF AdminInv
  <2>3. g = [d \in Clients |-> g[d]]
    BY <2>2
  <2>4. QED
    BY <2>1, <2>3
<1>3. ASSUME NEW d \in Clients PROVE (req[d] = NoRequest \/ RequestOk(d))'
  <2>1. CASE d = c
    BY <1>1, <2>1 DEF RequestOk
  <2>2. CASE d # c /\ req[d] # NoRequest
    <3>1. RequestOk(d) /\ req'[d] = req[d] /\ sent'[d] = sent[d]
      BY <1>1, <2>2 DEF AdminInv
    <3>2. QED
      BY <2>2, <3>1 DEF RequestOk
  <2>3. CASE d # c /\ req[d] = NoRequest
    BY <1>1, <2>3
  <2>4. QED
    BY <2>1, <2>2, <2>3
<1>4. ASSUME NEW d \in Clients, NEW m \in Nat,
             sent'[d] < m \/ (req'[d] # NoRequest /\ m = sent'[d])
      PROVE  Unused(<<d, m>>, updates)'
  <2>1. Unused(<<d, m>>, updates')
    BY <1>1, <1>4
  <2>2. QED
    BY <2>1 DEF Unused, Tracked, States
<1>5. (\A x \in Tracked : RowOk(x, rows[x], updates[x]))'
  BY DEF Tracked, States
<1>6. (rows = [x \in Rows |-> rows[x]] /\ updates = [x \in Rows |-> updates[x]])'
  BY DEF Rows, States
<1>7. QED
  BY <1>2, <1>3, <1>4, <1>5, <1>6 DEF AdminInv

\* A step that writes no row.
LEMMA QuietStep ==
  ASSUME AdminInv, NEW c \in Clients, NEW r, req' = [req EXCEPT ![c] = r],
         rows' = rows, updates' = updates,
         \/ sent' = sent /\ req[c] # NoRequest
         \/ sent' = [sent EXCEPT ![c] = @ + 1],
         r # NoRequest =>
             /\ r.op = "change" /\ r.step \in {"load", "commit"} /\ r.row \in Rows
             /\ r.row \in Tracked =>
                   r.id = <<c, sent'[c]>> /\ ChangeOk(r, rows[r.row], updates[r.row])
  PROVE  AdminInv'
<1>1. /\ sent \in [Clients -> Nat] /\ sent[c] \in Nat
      /\ \A d \in Clients : sent[d] \in Nat
  BY DEF AdminInv
<1>2. /\ sent' \in [Clients -> Nat]
      /\ \A d \in Clients : d # c => sent'[d] = sent[d]
      /\ (sent'[c] = sent[c] /\ req[c] # NoRequest) \/ sent'[c] = sent[c] + 1
  BY <1>1
<1>3. /\ rows' = [x \in Rows |-> rows'[x]] /\ updates' = [x \in Rows |-> updates'[x]]
      /\ \A x \in Tracked : RowOk(x, rows'[x], updates'[x])
      /\ \A p \in Projects : rows'[p] = Absent => rows'[<<"state", p>>] = Absent
  BY DEF AdminInv
<1>4. \A d \in Clients : (d # c /\ req[d] # NoRequest /\ req[d].row \in Tracked) =>
             ChangeOk(req[d], rows'[req[d].row], updates'[req[d].row])
  BY DEF AdminInv, RequestOk
<1>5. \A d \in Clients : \A m \in Nat : sent'[d] < m => Unused(<<d, m>>, updates')
  <2>1. \A d \in Clients : \A m \in Nat : sent'[d] < m => sent[d] < m
    BY <1>1, <1>2
  <2>2. QED
    BY <2>1 DEF AdminInv
<1>6. r # NoRequest =>
          /\ r.op = "change" /\ r.step \in {"load", "commit"} /\ r.row \in Rows
          /\ r.row \in Tracked =>
                r.id = <<c, sent'[c]>> /\ ChangeOk(r, rows'[r.row], updates'[r.row])
  OBVIOUS
<1>7. \A d \in Clients : (d # c /\ req[d] # NoRequest) => Unused(<<d, sent'[d]>>, updates')
  BY <1>1, <1>2 DEF AdminInv
<1>8. Unused(<<c, sent'[c]>>, updates')
  <2>1. CASE sent'[c] = sent[c] /\ req[c] # NoRequest
    BY <1>1, <2>1 DEF AdminInv
  <2>2. CASE sent'[c] = sent[c] + 1
    <3>1. sent'[c] \in Nat /\ sent[c] < sent'[c]
      BY <1>1, <2>2
    <3>2. QED
      BY <3>1 DEF AdminInv
  <2>3. QED
    BY <1>2, <2>1, <2>2
<1>9. QED
  BY <1>2, <1>3, <1>4, <1>5, <1>6, <1>7, <1>8, OneClient

\* A step that makes rows and nothing else.
LEMMA CreateStep ==
  ASSUME AdminInv, NEW c \in Clients, Once(c), updates' = updates,
         rows' = [x \in Rows |-> rows'[x]],
         \A x \in Tracked : \/ rows'[x] = rows[x]
                            \/ rows[x] = Absent /\ RowOk(x, rows'[x], updates[x]),
         \A p \in Projects : rows'[p] = Absent => rows'[<<"state", p>>] = Absent
  PROVE  AdminInv'
<1>1. /\ req' = [req EXCEPT ![c] = NoRequest]
      /\ sent' = [sent EXCEPT ![c] = @ + 1]
  BY DEF Once, Start
<1>2. /\ sent \in [Clients -> Nat] /\ sent[c] \in Nat
      /\ \A d \in Clients : sent[d] \in Nat
  BY DEF AdminInv
<1>3. /\ sent' \in [Clients -> Nat]
      /\ \A d \in Clients : d # c => sent'[d] = sent[d]
      /\ sent'[c] = sent[c] + 1
  BY <1>1, <1>2
<1>4. \A x \in Tracked : RowOk(x, rows'[x], updates'[x])
  BY DEF AdminInv
<1>5. ASSUME NEW d \in Clients, d # c, req[d] # NoRequest, req[d].row \in Tracked
      PROVE  ChangeOk(req[d], rows'[req[d].row], updates'[req[d].row])
  <2>1. ChangeOk(req[d], rows[req[d].row], updates[req[d].row])
    BY <1>5 DEF AdminInv, RequestOk
  <2>2. rows[req[d].row] # Absent
    BY <2>1 DEF ChangeOk
  <2>3. rows'[req[d].row] = rows[req[d].row]
    BY <1>5, <2>2
  <2>4. QED
    BY <2>1, <2>3
<1>6. \A d \in Clients : \A m \in Nat : sent'[d] < m => Unused(<<d, m>>, updates')
  <2>1. \A d \in Clients : \A m \in Nat : sent'[d] < m => sent[d] < m
    BY <1>2, <1>3
  <2>2. QED
    BY <2>1 DEF AdminInv
<1>7. \A d \in Clients : (d # c /\ req[d] # NoRequest) => Unused(<<d, sent'[d]>>, updates')
  BY <1>2, <1>3 DEF AdminInv
<1>8. updates' = [x \in Rows |-> updates'[x]]
  BY DEF AdminInv
<1>9. QED
  BY <1>1, <1>3, <1>4, <1>5, <1>6, <1>7, <1>8, OneClient

LEMMA AdminCreateKey ==
  ASSUME AdminInv, NEW c \in Clients, CreateKey(c) PROVE AdminInv'
<1>1. PICK k \in Keys : rows' = [rows EXCEPT ![k] = [token |-> NextTicket(c), revoked |-> Null]]
  BY DEF CreateKey
<1> DEFINE new == [token |-> NextTicket(c), revoked |-> Null]
<1>2. Once(c) /\ updates' = updates
  BY DEF CreateKey
<1>3. \A x \in Tracked : x # k /\ x \in Rows
  BY TablesDiffer DEF Tracked
<1>4. rows' = [x \in Rows |-> rows'[x]] /\ \A x \in Tracked : rows'[x] = rows[x]
  <2>1. PICK f, g : f = rows /\ g = rows'
    OBVIOUS
  <2>2. f = [x \in Rows |-> f[x]] /\ g = [f EXCEPT ![k] = new]
    BY <1>1, <2>1 DEF AdminInv
  <2>3. g = [x \in Rows |-> g[x]] /\ \A x \in Rows : x # k => g[x] = f[x]
    BY <2>2
  <2>4. QED
    BY <1>3, <2>1, <2>3
<1>5. \A p \in Projects : rows'[p] = Absent => rows'[<<"state", p>>] = Absent
  BY <1>4, TablesDiffer DEF AdminInv, Tracked
<1>6. QED
  BY <1>2, <1>4, <1>5, CreateStep

LEMMA AdminCreatePending ==
  ASSUME AdminInv, NEW c \in Clients, CreatePending(c) PROVE AdminInv'
<1>1. PICK a \in Approvals : rows[a] = Absent /\ rows' = [rows EXCEPT ![a] = Pending]
  BY DEF CreatePending, Pending
<1>2. Once(c) /\ updates' = updates
  BY DEF CreatePending
<1>3. a \in Tracked /\ a \in Rows /\ a \notin Projects /\ a \notin States
  BY TablesDiffer DEF Tracked
<1>4. /\ rows' = [x \in Rows |-> rows'[x]] /\ rows'[a] = Pending
      /\ \A x \in Rows : x # a => rows'[x] = rows[x]
  <2>1. PICK f, g : f = rows /\ g = rows'
    OBVIOUS
  <2>2. f = [x \in Rows |-> f[x]] /\ g = [f EXCEPT ![a] = Pending]
    BY <1>1, <2>1 DEF AdminInv
  <2>3. /\ g = [x \in Rows |-> g[x]] /\ g[a] = Pending
        /\ \A x \in Rows : x # a => g[x] = f[x]
    BY <1>3, <2>2
  <2>4. QED
    BY <2>1, <2>3
<1>5. RowOk(a, Pending, updates[a])
  <2>1. updates[a] = {}
    BY <1>1, <1>3 DEF AdminInv, RowOk
  <2>2. IsRow(a, Pending)
    BY <1>3 DEF IsRow, ApprovalRows
  <2>3. Pending # Absent
    BY <1>3, <2>2, RowsAreThere
  <2>4. QED
    BY <1>3, <2>1, <2>2, <2>3 DEF RowOk
<1>6. \A x \in Tracked : \/ rows'[x] = rows[x]
                         \/ rows[x] = Absent /\ RowOk(x, rows'[x], updates[x])
  BY <1>1, <1>4, <1>5, TablesDiffer
<1>7. \A p \in Projects : rows'[p] = Absent => rows'[<<"state", p>>] = Absent
  <2>1. \A p \in Projects : p \in Rows /\ p # a /\ <<"state", p>> \in Rows /\ <<"state", p>> # a
    BY <1>3, TablesDiffer DEF Tracked
  <2>2. QED
    BY <1>4, <2>1 DEF AdminInv
<1>8. QED
  BY <1>2, <1>4, <1>6, <1>7, CreateStep

LEMMA AdminCreateProject ==
  ASSUME AdminInv, NEW c \in Clients, CreateProject(c) PROVE AdminInv'
<1>1. PICK p \in Projects, name \in Names, local \in BOOLEAN :
        /\ rows[p] = Absent
        /\ rows' = [rows EXCEPT ![p] = [name |-> name, local |-> local],
                                ![<<"state", p>>] = [state |-> [base |-> Null, cli |-> Null]]]
  BY DEF CreateProject
<1>2. PICK s, new, doc : /\ s = <<"state", p>> /\ new = [name |-> name, local |-> local]
                         /\ doc = [state |-> [base |-> Null, cli |-> Null]]
  OBVIOUS
<1>3. Once(c) /\ updates' = updates
  BY DEF CreateProject
<1>4. /\ p \in Tracked /\ p \in Rows /\ p \notin Approvals /\ p \notin States
      /\ s \in States /\ s \in Tracked /\ s \in Rows /\ s \notin Approvals /\ s \notin Projects
      /\ s # p
  BY <1>2, TablesDiffer DEF Tracked
<1>5. /\ rows' = [x \in Rows |-> rows'[x]] /\ rows'[p] = new /\ rows'[s] = doc
      /\ \A x \in Rows : (x # p /\ x # s) => rows'[x] = rows[x]
  <2>1. PICK f, g : f = rows /\ g = rows'
    OBVIOUS
  <2>2. f = [x \in Rows |-> f[x]] /\ g = [f EXCEPT ![p] = new, ![s] = doc]
    BY <1>1, <1>2, <2>1 DEF AdminInv
  <2>3. /\ g = [x \in Rows |-> g[x]] /\ g[p] = new /\ g[s] = doc
        /\ \A x \in Rows : (x # p /\ x # s) => g[x] = f[x]
    BY <1>4, <2>2
  <2>4. QED
    BY <2>1, <2>3
<1>6. RowOk(p, new, updates[p]) /\ new # Absent
  <2>1. updates[p] = {}
    BY <1>1, <1>4 DEF AdminInv, RowOk
  <2>2. IsRow(p, new)
    BY <1>2, <1>4 DEF IsRow, ProjectRows
  <2>3. new # Absent
    BY <1>4, <2>2, RowsAreThere
  <2>4. QED
    BY <1>4, <2>1, <2>2, <2>3 DEF RowOk
<1>7. rows[s] = Absent /\ RowOk(s, doc, updates[s])
  <2>1. rows[s] = Absent
    BY <1>1, <1>2 DEF AdminInv
  <2>2. updates[s] = {}
    BY <1>4, <2>1 DEF AdminInv, RowOk
  <2>3. IsRow(s, doc)
    BY <1>2, <1>4 DEF IsRow, StateRows
  <2>4. doc # Absent
    BY <1>4, <2>3, RowsAreThere
  <2>5. QED
    BY <1>4, <2>1, <2>2, <2>3, <2>4 DEF RowOk
<1>8. \A x \in Tracked : \/ rows'[x] = rows[x]
                         \/ rows[x] = Absent /\ RowOk(x, rows'[x], updates[x])
  BY <1>1, <1>5, <1>6, <1>7, TablesDiffer
<1>9. ASSUME NEW q \in Projects, rows'[q] = Absent
      PROVE  rows'[<<"state", q>>] = Absent
  <2>1. q # p
    BY <1>5, <1>6, <1>9
  <2>2. q \in Rows /\ q # s /\ <<"state", q>> \in Rows /\ <<"state", q>> # p /\ <<"state", q>> # s
    BY <1>2, <1>4, <2>1, TablesDiffer DEF Tracked
  <2>3. rows'[q] = rows[q] /\ rows'[<<"state", q>>] = rows[<<"state", q>>]
    BY <1>5, <2>1, <2>2
  <2>4. QED
    BY <1>9, <2>3 DEF AdminInv
<1>10. QED
  BY <1>3, <1>5, <1>8, <1>9, CreateStep

\* A request is sent.
LEMMA AskStep ==
  ASSUME AdminInv, NEW c \in Clients, NEW row \in Rows, NEW sets, Settable(row, sets),
         Ask(c, row, sets)
  PROVE  AdminInv'
<1>1. PICK r : r = [op |-> "change", step |-> "load", row |-> row, sets |-> sets,
                    id |-> NextTicket(c), after |-> {u.id : u \in updates[row]}]
  OBVIOUS
<1>2. /\ req' = [req EXCEPT ![c] = r] /\ sent' = [sent EXCEPT ![c] = @ + 1]
      /\ rows' = rows /\ updates' = updates /\ rows[row] # Absent
  BY <1>1 DEF Ask, Start, adminVars
<1>3. sent'[c] = sent[c] + 1
  BY <1>2 DEF AdminInv
<1>4. /\ r.op = "change" /\ r.step = "load" /\ r.row = row /\ r.sets = sets
      /\ r.id = <<c, sent'[c]>> /\ r.after = Ids(updates[row])
  BY <1>1, <1>3 DEF NextTicket, Ids
<1>5. ChangeOk(r, rows[r.row], updates[r.row])
  BY <1>2, <1>4 DEF ChangeOk
<1>6. QED
  BY <1>2, <1>4, <1>5, QuietStep

LEMMA AdminLoadRow ==
  ASSUME AdminInv, NEW c \in Clients, LoadRow(c) PROVE AdminInv'
<1>1. PICK q : q = req[c]
  OBVIOUS
<1>2. q.op = "change" /\ q.step = "load"
  BY <1>1 DEF LoadRow, At
<1>3. req[c] # NoRequest
  BY <1>1, <1>2 DEF NoRequest
<1>4. /\ q.row \in Rows
      /\ q.row \in Tracked => q.id = <<c, sent[c]>> /\ ChangeOk(q, rows[q.row], updates[q.row])
  BY <1>1, <1>3 DEF AdminInv, RequestOk
<1>5. PICK r : r = [op |-> "change", step |-> "commit", row |-> q.row, id |-> q.id,
                    after |-> q.after, sets |-> q.sets, loaded |-> rows[q.row],
                    wanted |-> Wanted(rows[q.row], q.sets)]
  OBVIOUS
<1>6. /\ req' = [req EXCEPT ![c] = r] /\ sent' = sent /\ rows' = rows /\ updates' = updates
  BY <1>1, <1>5 DEF LoadRow, Goto, adminVars
<1>7. /\ r.op = "change" /\ r.step = "commit" /\ r.row = q.row /\ r.id = q.id
      /\ r.after = q.after /\ r.sets = q.sets /\ r.loaded = rows[q.row]
      /\ r.wanted = Wanted(r.loaded, r.sets)
  BY <1>5
<1>8. ASSUME r.row \in Tracked
      PROVE  r.id = <<c, sent'[c]>> /\ ChangeOk(r, rows[r.row], updates[r.row])
  <2>1. PICK x, row, ups : x = r.row /\ row = rows[r.row] /\ ups = updates[r.row]
    OBVIOUS
  <2>2. q.id = <<c, sent[c]>> /\ ChangeOk(q, row, ups) /\ RowOk(x, row, ups) /\ x \in Tracked
    BY <1>4, <1>7, <1>8, <2>1 DEF AdminInv
  <2>3. row # Absent /\ IsRow(x, row) /\ r.after \subseteq Ids(ups) /\ Settable(x, r.sets)
    BY <1>7, <2>1, <2>2 DEF ChangeOk, RowOk
  <2>4. x \in States =>
           \A u \in ups : u.sets \in Puts => (row.state.base = u.sets.state.base \/ Replaced(u, ups))
    BY <2>2 DEF RowOk, InDocument
  <2>5. ChangeOk(r, row, ups)
    BY <1>7, <2>1, <2>3, <2>4 DEF ChangeOk
  <2>6. QED
    BY <1>6, <1>7, <2>1, <2>2, <2>5
<1>9. r # NoRequest =>
          /\ r.op = "change" /\ r.step \in {"load", "commit"} /\ r.row \in Rows
          /\ r.row \in Tracked =>
                r.id = <<c, sent'[c]>> /\ ChangeOk(r, rows[r.row], updates[r.row])
  BY <1>4, <1>7, <1>8
<1>10. QED
  BY <1>3, <1>6, <1>9, QuietStep

LEMMA AdminFail ==
  ASSUME AdminInv, NEW c \in Clients, Fail(c), UNCHANGED adminVars PROVE AdminInv'
<1>1. /\ req' = [req EXCEPT ![c] = NoRequest] /\ sent' = sent /\ req[c] # NoRequest
      /\ rows' = rows /\ updates' = updates
  BY DEF Fail, Finish, Goto, adminVars
<1>2. QED
  BY <1>1, QuietStep

LEMMA AdminCommitRow ==
  ASSUME AdminInv, NEW c \in Clients, CommitRow(c) PROVE AdminInv'
<1>1. PICK q, x : q = req[c] /\ x = q.row
  OBVIOUS
<1>2. q.op = "change" /\ q.step = "commit"
  BY <1>1 DEF CommitRow, At
<1>3. q # NoRequest
  BY <1>2 DEF NoRequest
<1>4. /\ x \in Rows
      /\ x \in Tracked => q.id = <<c, sent[c]>> /\ ChangeOk(q, rows[x], updates[x])
  BY <1>1, <1>3 DEF AdminInv, RequestOk
<1>5. PICK new, n, later :
        /\ new = Flushed(rows[x], q.loaded, q.wanted)
        /\ n = [id |-> q.id, after |-> q.after, sets |-> q.sets, loaded |-> q.loaded]
        /\ later = updates[x] \cup {n}
  OBVIOUS
<1>6. /\ rows' = [rows EXCEPT ![x] = new]
      /\ updates' = [updates EXCEPT ![x] = @ \cup {n}]
      /\ req' = [req EXCEPT ![c] = NoRequest] /\ sent' = sent
  BY <1>1, <1>5 DEF CommitRow, Finish, Goto
<1>7. /\ rows' = [y \in Rows |-> rows'[y]] /\ rows'[x] = new
      /\ \A y \in Rows : y # x => rows'[y] = rows[y]
  <2>1. PICK f, g : f = rows /\ g = rows'
    OBVIOUS
  <2>2. f = [y \in Rows |-> f[y]] /\ g = [f EXCEPT ![x] = new]
    BY <1>6, <2>1 DEF AdminInv
  <2>3. /\ g = [y \in Rows |-> g[y]] /\ g[x] = new
        /\ \A y \in Rows : y # x => g[y] = f[y]
    BY <1>4, <2>2
  <2>4. QED
    BY <2>1, <2>3
<1>8. /\ updates' = [y \in Rows |-> updates'[y]] /\ updates'[x] = later
      /\ \A y \in Rows : y # x => updates'[y] = updates[y]
  <2>1. PICK f, g : f = updates /\ g = updates'
    OBVIOUS
  <2>2. f = [y \in Rows |-> f[y]] /\ g = [f EXCEPT ![x] = later]
    BY <1>5, <1>6, <2>1 DEF AdminInv
  <2>3. /\ g = [y \in Rows |-> g[y]] /\ g[x] = later
        /\ \A y \in Rows : y # x => g[y] = f[y]
    BY <1>4, <2>2
  <2>4. QED
    BY <2>1, <2>3
<1>9. /\ sent \in [Clients -> Nat] /\ sent' = sent /\ \A d \in Clients : sent[d] \in Nat
      /\ Unused(<<c, sent[c]>>, updates)
      /\ \A y \in Tracked : y \in Rows
  BY <1>1, <1>3, <1>6, TablesDiffer DEF AdminInv
<1>10. x \in Tracked => /\ q.id \notin Ids(updates[x])
                        /\ RowOk(x, new, later) /\ new # Absent
  <2> SUFFICES ASSUME x \in Tracked
               PROVE  q.id \notin Ids(updates[x]) /\ RowOk(x, new, later) /\ new # Absent
    OBVIOUS
  <2>1. PICK row, ups : row = rows[x] /\ ups = updates[x]
    OBVIOUS
  <2>2. q.id \notin Ids(ups)
    BY <1>4, <1>9, <2>1 DEF Unused
  <2>3. RowOk(x, row, ups) /\ ChangeOk(q, row, ups) /\ q.row = x
    BY <1>1, <1>4, <2>1 DEF AdminInv
  <2>4. new = Flushed(row, q.loaded, q.wanted) /\ later = ups \cup {n}
    BY <1>5, <2>1
  <2>5. RowOk(x, new, ups \cup {n}) /\ new # Absent
    BY <1>2, <1>5, <2>2, <2>3, <2>4, CommittedRow
  <2>6. QED
    BY <2>1, <2>2, <2>4, <2>5
<1>11. \A y \in Tracked : RowOk(y, rows'[y], updates'[y])
  BY <1>7, <1>8, <1>9, <1>10 DEF AdminInv
<1>12. ASSUME NEW p \in Projects, rows'[p] = Absent
       PROVE  rows'[<<"state", p>>] = Absent
  <2>1. p \in Tracked /\ <<"state", p>> \in Tracked
    BY TablesDiffer DEF Tracked
  <2>2. p # x /\ rows[p] = Absent
    BY <1>7, <1>9, <1>10, <1>12, <2>1
  <2>3. rows[<<"state", p>>] = Absent
    BY <2>2 DEF AdminInv
  <2>4. <<"state", p>> # x
    BY <1>4, <2>1, <2>3 DEF ChangeOk
  <2>5. QED
    BY <1>7, <1>9, <2>1, <2>3, <2>4
<1>13. ASSUME NEW d \in Clients, d # c, req[d] # NoRequest, req[d].row \in Tracked
       PROVE  ChangeOk(req[d], rows'[req[d].row], updates'[req[d].row])
  <2>1. PICK o, y : o = req[d] /\ y = o.row
    OBVIOUS
  <2>2. o.id = <<d, sent[d]>> /\ ChangeOk(o, rows[y], updates[y]) /\ y \in Tracked /\ y \in Rows
    BY <1>9, <1>13, <2>1 DEF AdminInv, RequestOk
  <2>3. CASE y # x
    BY <1>7, <1>8, <2>1, <2>2, <2>3
  <2>4. CASE y = x
    <3>1. PICK row, ups : row = rows[x] /\ ups = updates[x]
      OBVIOUS
    <3>2. o.id \notin Ids(ups)
      <4>1. Unused(<<d, sent[d]>>, updates)
        BY <1>9, <1>13 DEF AdminInv
      <4>2. QED
        BY <2>2, <2>4, <3>1, <4>1 DEF Unused
    <3>3. n.id \notin Ids(ups) /\ n.after \subseteq Ids(ups) /\ new # Absent
      BY <1>4, <1>5, <1>10, <2>2, <2>4, <3>1 DEF ChangeOk
    <3>4. ChangeOk(o, row, ups)
      BY <2>2, <2>4, <3>1
    <3>5. ChangeOk(o, new, ups \cup {n})
      BY <3>2, <3>3, <3>4, CommittedBeside
    <3>6. QED
      BY <1>5, <1>7, <1>8, <2>1, <2>4, <3>1, <3>5
  <2>5. QED
    BY <2>3, <2>4
<1>14. ASSUME NEW id, id # <<c, sent[c]>>, Unused(id, updates)
       PROVE  Unused(id, updates')
  <2>1. ASSUME NEW y \in Tracked PROVE id \notin Ids(updates'[y])
    <3>1. id \notin Ids(updates[y])
      BY <1>14 DEF Unused
    <3>2. CASE y # x
      BY <1>8, <1>9, <3>1, <3>2
    <3>3. CASE y = x
      <4>1. n.id = <<c, sent[c]>>
        BY <1>4, <1>5, <3>3
      <4>2. \A u \in later : u \in updates[x] \/ u = n
        BY <1>5
      <4>3. QED
        BY <1>8, <1>14, <3>1, <3>3, <4>1, <4>2 DEF Ids
    <3>4. QED
      BY <3>2, <3>3
  <2>2. QED
    BY <2>1 DEF Unused
<1>15. ASSUME NEW d \in Clients, NEW m \in Nat, sent'[d] < m
       PROVE  Unused(<<d, m>>, updates')
  <2>1. sent[d] < m /\ sent[d] \in Nat
    BY <1>9, <1>15
  <2>2. Unused(<<d, m>>, updates)
    BY <2>1 DEF AdminInv
  <2>3. <<d, m>> # <<c, sent[c]>>
    BY <2>1
  <2>4. QED
    BY <1>14, <2>2, <2>3
<1>16. ASSUME NEW d \in Clients, d # c, req[d] # NoRequest
       PROVE  Unused(<<d, sent'[d]>>, updates')
  <2>1. Unused(<<d, sent[d]>>, updates)
    BY <1>9, <1>16 DEF AdminInv
  <2>2. <<d, sent[d]>> # <<c, sent[c]>>
    BY <1>16
  <2>3. QED
    BY <1>9, <1>14, <2>1, <2>2
<1>17. QED
  BY <1>6, <1>7, <1>8, <1>9, <1>11, <1>12, <1>13, <1>15, <1>16, OneClient

LEMMA AdminStutter ==
  ASSUME AdminInv, UNCHANGED <<req, sent, adminVars>> PROVE AdminInv'
<1>1. req' = req /\ sent' = sent /\ rows' = rows /\ updates' = updates
  BY DEF adminVars
<1>2. \A c \in Clients : RequestOk(c) => RequestOk(c)'
  BY <1>1 DEF RequestOk, Rows, States, Tracked
<1>3. QED
  BY <1>1, <1>2 DEF AdminInv, Rows, States, Tracked, Unused

LEMMA AdminSteps ==
  AdminInv /\ [\E c \in Clients : AdminNext(c)]_<<req, sent, adminVars>> => AdminInv'
<1>1. ASSUME AdminInv, NEW c \in Clients, AdminNext(c)
      PROVE  AdminInv'
  <2>1. CASE RotateKey(c) \/ RevokeKey(c)
    <3>1. PICK k, sets : k \in Keys /\ Ask(c, k, sets)
      BY <2>1 DEF RotateKey, RevokeKey
    <3>2. k \in Rows /\ Settable(k, sets)
      BY <3>1, TablesDiffer DEF Rows, Settable
    <3>3. QED
      BY <1>1, <3>1, <3>2, AskStep
  <2>2. CASE Resolve(c)
    <3>1. PICK a \in Approvals, status \in {"approved", "rejected"}, who \in Approvers :
            Ask(c, a, [status |-> status, approver |-> who])
      BY <2>2 DEF Resolve
    <3>2. a \in Rows /\ Settable(a, [status |-> status, approver |-> who])
      BY TablesDiffer DEF Rows, Settable, Verdicts
    <3>3. QED
      BY <1>1, <3>1, <3>2, AskStep
  <2>3. CASE UpdateProject(c)
    <3>1. PICK p \in Projects, name \in Names, local \in BOOLEAN :
            \/ Ask(c, p, [name |-> name])
            \/ Ask(c, p, [local |-> local])
            \/ Ask(c, p, [name |-> name, local |-> local])
      BY <2>3 DEF UpdateProject
    <3>2. /\ p \in Rows /\ Settable(p, [name |-> name]) /\ Settable(p, [local |-> local])
          /\ Settable(p, [name |-> name, local |-> local])
      BY TablesDiffer DEF Rows, Settable
    <3>3. QED
      BY <1>1, <3>1, <3>2, AskStep
  <2>4. CASE PutState(c)
    <3>1. PICK s \in States, d \in Documents : Ask(c, s, [state |-> [base |-> d, cli |-> Null]])
      BY <2>4 DEF PutState
    <3>2. s \in Rows /\ Settable(s, [state |-> [base |-> d, cli |-> Null]])
      BY TablesDiffer DEF Rows, Settable, Puts
    <3>3. QED
      BY <1>1, <3>1, <3>2, AskStep
  <2>5. CASE EnsureState(c)
    <3>1. PICK s \in States, b \in Branches : Ask(c, s, [cli |-> b])
      BY <2>5 DEF EnsureState
    <3>2. s \in Rows /\ Settable(s, [cli |-> b])
      BY TablesDiffer DEF Rows, Settable, Parts
    <3>3. QED
      BY <1>1, <3>1, <3>2, AskStep
  <2>6. QED
    BY <1>1, <2>1, <2>2, <2>3, <2>4, <2>5, AdminCreateKey, AdminCreatePending,
       AdminCreateProject, AdminLoadRow, AdminCommitRow, AdminFail DEF AdminNext
<1>2. QED
  BY <1>1, AdminStutter

\* What a request has loaded is the row as it is, or an update was committed since
\* that neither knows of the request nor is known to it; and a document loaded to be
\* merged shows every PUT answered before the request was sent.
THEOREM AdminInvariance == AdminSpec => []AdminInv
<1>1. QED
  BY AdminStarts, AdminSteps, PTL DEF AdminSpec

\* An approval is the resolution of one approver, unless one that overlapped another
\* found it resolved already.
THEOREM VerdictsAreOfOneResolution == AdminSpec => []VerdictIsOneResolution
<1>1. AdminInv => VerdictIsOneResolution
  <2> SUFFICES ASSUME AdminInv, NEW a \in Approvals, updates[a] # {}
               PROVE  \/ \E u \in updates[a] : rows[a] = u.sets
                      \/ \E u, v \in updates[a] :
                            /\ u # v /\ ~Before(u, v) /\ ~Before(v, u)
                            /\ v.loaded.status # "pending"
    BY DEF VerdictIsOneResolution
  <2>1. RowOk(a, rows[a], updates[a])
    BY DEF AdminInv, Tracked
  <2>2. OneResolution(rows[a], updates[a])
    BY <2>1 DEF RowOk
  <2>3. QED
    BY <2>2 DEF OneResolution, Before
<1>2. QED
  BY <1>1, AdminInvariance, PTL

\* A PUT of a document is seen until one that may count as later replaces it or has
\* overlapped it, and a client's part until another update that may count as later.
THEOREM LostUpdatesOverlapped == AdminSpec => []OnlyOverlapsLoseUpdates
<1>1. AdminInv => OnlyOverlapsLoseUpdates
  <2> SUFFICES ASSUME AdminInv, NEW s \in States, NEW u \in updates[s]
               PROVE  IF "state" \in DOMAIN u.sets
                      THEN \/ rows[s].state.base = u.sets.state.base
                           \/ \E v \in {v \in updates[s] \ {u} : ~Before(v, u)} :
                                 "state" \in DOMAIN v.sets \/ ~Before(u, v)
                      ELSE \/ rows[s].state.cli = u.sets.cli
                           \/ {v \in updates[s] \ {u} : ~Before(v, u)} # {}
    BY DEF OnlyOverlapsLoseUpdates
  <2>1. RowOk(s, rows[s], updates[s])
    BY DEF AdminInv, Tracked
  <2>2. InDocument(u, rows[s], updates[s]) /\ u.sets \in Puts \cup Parts
    BY <2>1 DEF RowOk, Settable
  <2>3. CASE u.sets \in Puts
    <3>1. "state" \in DOMAIN u.sets
      BY <2>3 DEF Puts
    <3>2. rows[s].state.base = u.sets.state.base \/ Replaced(u, updates[s])
      BY <2>2, <2>3 DEF InDocument
    <3>3. QED
      BY <3>1, <3>2 DEF Replaced, Before
  <2>4. CASE u.sets \in Parts
    <3>1. "state" \notin DOMAIN u.sets
      BY <2>4 DEF Parts
    <3>2. \/ rows[s].state.cli = u.sets.cli
          \/ \E v \in updates[s] : v # u /\ v.id \notin u.after
      BY <2>2, <2>4 DEF InDocument
    <3>3. QED
      BY <3>1, <3>2 DEF Before
  <2>5. QED
    BY <2>2, <2>3, <2>4
<1>2. QED
  BY <1>1, AdminInvariance, PTL

(* A streamed answer                                                       *)

Opened == [event |-> "opening"]
Events == {Opened, Done} \cup {Chunk(k) : k \in Nat}

\* The events of a whole answer, in the order they are sent.
EventAt(readable, j) ==
    IF j = 1 THEN Opened ELSE IF j <= Len(readable) + 1 THEN Chunk(readable[j - 1]) ELSE Done

\* The client has read p events, and what is on the wire comes next.
Underway(p, readable, text, events) ==
    /\ p \in Nat
    /\ p + Len(events) <= Len(readable) + 2
    /\ \A i \in 1 .. Len(events) : events[i] = EventAt(readable, p + i)
    /\ Len(text) = IF p = 0 THEN 0 ELSE IF p <= Len(readable) + 1 THEN p - 1 ELSE Len(readable)
    /\ \A i \in 1 .. Len(text) : text[i] = readable[i]

\* Named, so that lemmas about them can be cited: the events that are sent or read are
\* n more than the pieces; an element is added, the first one is taken.
Counts(p, readable, events, n) == p + Len(events) = Len(readable) + n
Added(s, x, t) == t = Append(s, x)
Taken(s, x, t) == s # <<>> /\ x = Head(s) /\ t = Tail(s)
Noted(s, e, t) == t = IF e.event = "chunk" THEN Append(s, e.piece) ELSE s

\* How many events there are: none has been lost while the connection stands.
Complete(p, readable, events, state) ==
    /\ state = "idle" => p = 0 /\ events = <<>> /\ readable = <<>>
    /\ state = "whole" => readable = <<>>
    /\ state \in {"stream", "whole"} => p + Len(events) = Len(readable) + 1
    /\ state = "finished" => p + Len(events) = Len(readable) + 2
    /\ (state = "broken" /\ events # <<>>) => p + Len(events) <= Len(readable) + 1

\* While the connection stands the wire holds what the client has still to read; the
\* last event is on it, or was read, only after the provider has finished.
StreamInv ==
    /\ source = [pieces |-> source.pieces, readable |-> source.readable, end |-> source.end]
    /\ source.pieces \in Nat /\ source.readable \in Seq(Nat)
    /\ reader = [state |-> reader.state, text |-> reader.text, done |-> reader.done]
    /\ reader.text \in Seq(Nat)
    /\ wire \in Seq(Events)
    /\ endpoint \in {"idle", "stream", "whole", "finished", "broken"}
    /\ reader.state = "idle" => endpoint = "idle"
    /\ endpoint = "idle" => reader.state = "idle"
    /\ endpoint = "finished" => outcome = "success" /\ source.end \in {"done", "silent"}
    /\ reader.done =>
          /\ reader.text = source.readable /\ wire = <<>>
          /\ outcome = "success" /\ source.end \in {"done", "silent"}
          /\ endpoint \in {"finished", "broken"}
    /\ \E p \in Nat : /\ Underway(p, source.readable, reader.text, wire)
                      /\ Complete(p, source.readable, wire, endpoint)

LEMMA EventsDiffer ==
  /\ Opened # Done /\ \A k : Chunk(k) # Done /\ Chunk(k) # Opened
  /\ Opened.event # "chunk" /\ Done.event # "chunk"
  /\ \A k : Chunk(k).event = "chunk" /\ Chunk(k).piece = k
  /\ Opened \in Events /\ Done \in Events /\ \A k \in Nat : Chunk(k) \in Events
BY DEF Opened, Done, Chunk, Events

\* One more piece has been read from the provider, and is on the wire.
LEMMA PieceFollows ==
  ASSUME NEW p, NEW R, NEW T, NEW W, NEW k, NEW R2, NEW W2,
         R \in Seq(Nat), T \in Seq(Nat), W \in Seq(Events), k \in Nat,
         Underway(p, R, T, W), Counts(p, R, W, 1), Added(R, k, R2), Added(W, Chunk(k), W2)
  PROVE  /\ Underway(p, R2, T, W2) /\ Counts(p, R2, W2, 1)
         /\ R2 \in Seq(Nat) /\ W2 \in Seq(Events)
<1>1. /\ p \in Nat /\ Len(R) \in Nat /\ Len(W) \in Nat /\ Len(T) \in Nat
      /\ p + Len(W) = Len(R) + 1
  BY DEF Underway, Counts
<1>2. /\ R2 \in Seq(Nat) /\ Len(R2) = Len(R) + 1 /\ R2[Len(R) + 1] = k
      /\ \A i \in 1 .. Len(R) : R2[i] = R[i]
  BY DEF Added
<1>3. /\ W2 \in Seq(Events) /\ Len(W2) = Len(W) + 1 /\ W2[Len(W) + 1] = Chunk(k)
      /\ \A i \in 1 .. Len(W) : W2[i] = W[i]
  BY EventsDiffer DEF Added
<1>4. \A j \in Nat \ {0} : j <= Len(R) + 1 => EventAt(R2, j) = EventAt(R, j)
  <2>1. ASSUME NEW j \in Nat \ {0}, j <= Len(R) + 1, j # 1
        PROVE  EventAt(R2, j) = EventAt(R, j)
    <3>1. j - 1 \in 1 .. Len(R) /\ j <= Len(R2) + 1
      BY <1>1, <1>2, <2>1
    <3>2. R2[j - 1] = R[j - 1]
      BY <1>2, <3>1
    <3>3. QED
      BY <2>1, <3>1, <3>2 DEF EventAt
  <2>2. QED
    BY <2>1 DEF EventAt
<1>5. EventAt(R2, Len(R) + 2) = Chunk(k)
  <2>1. Len(R) + 2 # 1 /\ Len(R) + 2 <= Len(R2) + 1 /\ (Len(R) + 2) - 1 = Len(R) + 1
    BY <1>1, <1>2
  <2>2. QED
    BY <1>2, <2>1 DEF EventAt
<1>6. ASSUME NEW i \in 1 .. Len(W2) PROVE W2[i] = EventAt(R2, p + i)
  <2>1. CASE i \in 1 .. Len(W)
    <3>1. p + i \in Nat \ {0} /\ p + i <= Len(R) + 1
      BY <1>1, <2>1
    <3>2. W[i] = EventAt(R, p + i)
      BY <2>1 DEF Underway
    <3>3. QED
      BY <1>3, <1>4, <2>1, <3>1, <3>2
  <2>2. CASE i = Len(W) + 1
    <3>1. p + i = Len(R) + 2
      BY <1>1, <2>2
    <3>2. QED
      BY <1>3, <1>5, <2>2, <3>1
  <2>3. i \in 1 .. Len(W) \/ i = Len(W) + 1
    <3>1. Len(W2) = Len(W) + 1 /\ Len(W) \in Nat
      BY <1>1, <1>3
    <3>2. QED
      BY <3>1
  <2>4. QED
    BY <2>1, <2>2, <2>3
<1>7. p <= Len(R) + 1 /\ p <= Len(R2) + 1
  BY <1>1, <1>2
<1>8. Len(T) = IF p = 0 THEN 0 ELSE p - 1
  BY <1>7 DEF Underway
<1>9. \A i \in 1 .. Len(T) : T[i] = R2[i]
  <2>1. \A i \in 1 .. Len(T) : i \in 1 .. Len(R)
    BY <1>1, <1>7, <1>8
  <2>2. QED
    BY <1>2, <2>1 DEF Underway
<1>10. p + Len(W2) = Len(R2) + 1 /\ p + Len(W2) <= Len(R2) + 2
  BY <1>1, <1>2, <1>3
<1>11. Underway(p, R2, T, W2)
  BY <1>1, <1>6, <1>7, <1>8, <1>9, <1>10 DEF Underway
<1>12. QED
  BY <1>2, <1>3, <1>10, <1>11 DEF Counts

\* The last event is on the wire.
LEMMA DoneFollows ==
  ASSUME NEW p, NEW R, NEW T, NEW W, NEW W2,
         R \in Seq(Nat), T \in Seq(Nat), W \in Seq(Events),
         Underway(p, R, T, W), Counts(p, R, W, 1), Added(W, Done, W2)
  PROVE  Underway(p, R, T, W2) /\ Counts(p, R, W2, 2) /\ W2 \in Seq(Events)
<1>1. /\ p \in Nat /\ Len(R) \in Nat /\ Len(W) \in Nat /\ Len(T) \in Nat
      /\ p + Len(W) = Len(R) + 1
  BY DEF Underway, Counts
<1>2. /\ W2 \in Seq(Events) /\ Len(W2) = Len(W) + 1 /\ W2[Len(W) + 1] = Done
      /\ \A i \in 1 .. Len(W) : W2[i] = W[i]
  BY EventsDiffer DEF Added
<1>3. EventAt(R, Len(R) + 2) = Done
  BY <1>1 DEF EventAt
<1>4. ASSUME NEW i \in 1 .. Len(W2) PROVE W2[i] = EventAt(R, p + i)
  <2>1. CASE i \in 1 .. Len(W)
    BY <1>2, <2>1 DEF Underway
  <2>2. CASE i = Len(W) + 1
    <3>1. p + i = Len(R) + 2
      BY <1>1, <2>2
    <3>2. QED
      BY <1>2, <1>3, <2>2, <3>1
  <2>3. i \in 1 .. Len(W) \/ i = Len(W) + 1
    <3>1. Len(W2) = Len(W) + 1 /\ Len(W) \in Nat
      BY <1>1, <1>2
    <3>2. QED
      BY <3>1
  <2>4. QED
    BY <2>1, <2>2, <2>3
<1>5. p + Len(W2) = Len(R) + 2 /\ p + Len(W2) <= Len(R) + 2
  BY <1>1, <1>2
<1>6. Underway(p, R, T, W2)
  BY <1>4, <1>5 DEF Underway
<1>7. QED
  BY <1>2, <1>5, <1>6 DEF Counts

\* The client reads the next event.
LEMMA EventRead ==
  ASSUME NEW p, NEW R, NEW T, NEW W, NEW e, NEW T2, NEW W2,
         R \in Seq(Nat), T \in Seq(Nat), W \in Seq(Events),
         Underway(p, R, T, W), Taken(W, e, W2), Noted(T, e, T2)
  PROVE  /\ Underway(p + 1, R, T2, W2)
         /\ (p + 1) + Len(W2) = p + Len(W)
         /\ T2 \in Seq(Nat) /\ W2 \in Seq(Events)
         /\ e = Done => (T2 = R /\ W2 = <<>> /\ Counts(p, R, W, 2))
<1>1. /\ p \in Nat /\ p + 1 \in Nat /\ Len(R) \in Nat /\ Len(W) \in Nat /\ Len(T) \in Nat
      /\ 1 <= Len(W) /\ p + Len(W) <= Len(R) + 2
  <2>1. Len(W) \in Nat \ {0}
    BY EmptySeq DEF Taken
  <2>2. QED
    BY <2>1 DEF Underway
<1>2. /\ W2 \in Seq(Events) /\ Len(W2) = Len(W) - 1 /\ e = W[1]
      /\ \A i \in 1 .. Len(W2) : W2[i] = W[i + 1]
  BY DEF Taken
<1>3. T2 = IF e.event = "chunk" THEN Append(T, e.piece) ELSE T
  BY DEF Noted
<1>4. e = EventAt(R, p + 1)
  BY <1>1, <1>2, <1>3 DEF Underway
<1>5. ASSUME NEW i \in 1 .. Len(W2) PROVE W2[i] = EventAt(R, (p + 1) + i)
  <2>1. i + 1 \in 1 .. Len(W) /\ p + (i + 1) = (p + 1) + i
    BY <1>1, <1>2, <1>3
  <2>2. QED
    BY <1>2, <1>3, <2>1 DEF Underway
<1>6. (p + 1) + Len(W2) = p + Len(W) /\ (p + 1) + Len(W2) <= Len(R) + 2
  BY <1>1, <1>2
<1>7. CASE p = 0
  <2>1. e = Opened
    BY <1>4, <1>7 DEF EventAt
  <2>2. T2 = T /\ e # Done
    BY <1>3, <2>1, EventsDiffer
  <2>3. Len(T2) = 0 /\ (p + 1) - 1 = 0 /\ p + 1 # 0 /\ p + 1 <= Len(R) + 1
    BY <1>1, <1>7, <2>2 DEF Underway
  <2>4. Underway(p + 1, R, T2, W2)
    BY <1>1, <1>5, <1>6, <2>2, <2>3 DEF Underway
  <2>5. QED
    BY <1>2, <1>6, <2>2, <2>4
<1>8. CASE p \in 1 .. Len(R)
  <2>1. (p + 1) # 1 /\ p + 1 <= Len(R) + 1 /\ (p + 1) - 1 = p
    BY <1>1, <1>8
  <2>2. e = Chunk(R[p]) /\ R[p] \in Nat
    BY <1>4, <1>8, <2>1 DEF EventAt
  <2>3. T2 = Append(T, R[p]) /\ e # Done
    BY <1>3, <2>2, EventsDiffer
  <2>4. Len(T) = p - 1 /\ \A i \in 1 .. Len(T) : T[i] = R[i]
    BY <1>1, <1>8 DEF Underway
  <2>5. /\ T2 \in Seq(Nat) /\ Len(T2) = p
        /\ \A i \in 1 .. Len(T2) : T2[i] = R[i]
    <3>1. T2 \in Seq(Nat) /\ Len(T2) = Len(T) + 1 /\ T2[Len(T) + 1] = R[p]
          /\ \A i \in 1 .. Len(T) : T2[i] = T[i]
      BY <2>2, <2>3
    <3>2. Len(T) + 1 = p
      BY <1>1, <1>8, <2>4
    <3>3. \A i \in 1 .. p : i \in 1 .. Len(T) \/ i = p
      BY <1>1, <3>2
    <3>4. QED
      BY <2>4, <3>1, <3>2, <3>3
  <2>6. Underway(p + 1, R, T2, W2)
    BY <1>1, <1>5, <1>6, <2>1, <2>5 DEF Underway
  <2>7. QED
    BY <1>2, <1>6, <2>3, <2>5, <2>6
<1>9. CASE p = Len(R) + 1
  <2>1. (p + 1) # 1 /\ ~(p + 1 <= Len(R) + 1) /\ p # 0 /\ p + 1 # 0
    BY <1>1, <1>9
  <2>2. e = Done
    BY <1>4, <2>1 DEF EventAt
  <2>3. T2 = T
    BY <1>3, <2>2, EventsDiffer
  <2>4. Len(T) = Len(R) /\ \A i \in 1 .. Len(T) : T[i] = R[i]
    BY <1>1, <1>9, <2>1 DEF Underway
  <2>5. Underway(p + 1, R, T2, W2)
    BY <1>1, <1>5, <1>6, <2>1, <2>3, <2>4 DEF Underway
  <2>6. T2 = R
    BY <2>3, <2>4, SeqEqual
  <2>7. Len(W2) = 0 /\ p + Len(W) = Len(R) + 2
    BY <1>1, <1>2, <1>3, <1>9
  <2>8. W2 = <<>>
    BY <1>2, <1>3, <2>7, EmptySeq
  <2>9. QED
    BY <1>2, <1>6, <2>3, <2>5, <2>6, <2>7, <2>8 DEF Counts
<1>10. p = 0 \/ p \in 1 .. Len(R) \/ p = Len(R) + 1
  BY <1>1
<1>11. QED
  BY <1>7, <1>8, <1>9, <1>10

LEMMA StreamStarts == StreamInit => StreamInv
<1> SUFFICES ASSUME StreamInit PROVE StreamInv
  OBVIOUS
<1>1. PICK R, T, W : R = source.readable /\ T = reader.text /\ W = wire
  OBVIOUS
<1>2. R = <<>> /\ T = <<>> /\ W = <<>>
  BY <1>1 DEF StreamInit
<1>3. R \in Seq(Nat) /\ T \in Seq(Nat) /\ W \in Seq(Events) /\ Len(R) = 0 /\ Len(T) = 0 /\ Len(W) = 0
  BY <1>2, EmptySeq
<1>4. Underway(0, R, T, W)
  BY <1>3 DEF Underway
<1>5. Complete(0, R, W, endpoint)
  BY <1>2 DEF Complete, StreamInit
<1>6. QED
  BY <1>1, <1>3, <1>4, <1>5 DEF StreamInv, StreamInit

\* The stream is opened, or refused.
LEMMA StreamOpens ==
  ASSUME StreamInv, OpenChat \/ RefuseChat PROVE StreamInv'
<1>1. PICK R, T, p : R = source.readable /\ T = reader.text /\ p \in Nat
                     /\ Underway(p, R, T, wire) /\ Complete(p, R, wire, endpoint)
  BY DEF StreamInv
<1>2. endpoint = "idle" /\ source' = source /\ outcome' = outcome
  BY DEF OpenChat, RefuseChat, Opens
<1>3. p = 0 /\ R = <<>> /\ wire = <<>> /\ reader.done # TRUE
  BY <1>1, <1>2 DEF Complete, StreamInv
<1>4. /\ R \in Seq(Nat) /\ T \in Seq(Nat) /\ Len(R) = 0 /\ Len(T) = 0
      /\ \A i \in 1 .. Len(T) : T[i] = R[i]
  BY <1>1, <1>3, EmptySeq DEF StreamInv, Underway
<1>5. /\ reader' = [state |-> reader'.state, text |-> T, done |-> reader.done]
      /\ reader'.state \in {"reading", "ended"}
      /\ reader'.text = T /\ reader'.done = reader.done
  BY <1>1 DEF StreamInv, OpenChat, RefuseChat, Opens
<1>6. CASE RefuseChat
  <2>1. wire' = <<>> /\ endpoint' = "broken"
    BY <1>3, <1>6 DEF RefuseChat
  <2>2. Complete(p, R, wire', endpoint')
    BY <2>1 DEF Complete
  <2>3. Underway(p, R, T, wire')
    BY <1>1, <1>3, <2>1
  <2>4. QED
    BY <1>1, <1>2, <1>3, <1>4, <1>5, <2>1, <2>2, <2>3 DEF StreamInv
<1>7. CASE OpenChat
  <2>1. endpoint' \in {"stream", "whole"} /\ wire' = <<Opened>>
    BY <1>7 DEF OpenChat, Opens, Opening, Opened
  <2>2. PICK W : W = <<Opened>>
    OBVIOUS
  <2>3. W \in Seq(Events) /\ Len(W) = 1 /\ W[1] = Opened
    BY <2>2, EventsDiffer
  <2>4. Underway(p, R, T, W)
    <3>1. \A i \in 1 .. Len(W) : W[i] = EventAt(R, p + i)
      BY <1>3, <2>3 DEF EventAt
    <3>2. QED
      BY <1>1, <1>3, <1>4, <2>3, <3>1 DEF Underway
  <2>5. Complete(p, R, W, endpoint')
    BY <1>3, <1>4, <2>1, <2>3 DEF Complete
  <2>6. QED
    BY <1>1, <1>2, <1>3, <1>4, <1>5, <2>1, <2>2, <2>3, <2>4, <2>5 DEF StreamInv
<1>8. QED
  BY <1>6, <1>7

\* The parts of the invariant, put together for the state after a step.
LEMMA StreamHolds ==
  ASSUME NEW pieces \in Nat, NEW R \in Seq(Nat), NEW end, NEW state, NEW T \in Seq(Nat),
         NEW done, NEW W \in Seq(Events), NEW p \in Nat,
         source' = [pieces |-> pieces, readable |-> R, end |-> end],
         reader' = [state |-> state, text |-> T, done |-> done],
         wire' = W,
         endpoint' \in {"stream", "whole", "finished", "broken"}, state # "idle",
         endpoint' = "finished" => (outcome' = "success" /\ end \in {"done", "silent"}),
         done => /\ T = R /\ W = <<>>
                 /\ outcome' = "success" /\ end \in {"done", "silent"}
                 /\ endpoint' \in {"finished", "broken"},
         Underway(p, R, T, W), Complete(p, R, W, endpoint')
  PROVE  StreamInv'
<1>1. source'.pieces = pieces /\ source'.readable = R /\ source'.end = end
  OBVIOUS
<1>2. reader'.state = state /\ reader'.text = T /\ reader'.done = done
  OBVIOUS
<1>3. (\E q \in Nat : /\ Underway(q, source.readable, reader.text, wire)
                     /\ Complete(q, source.readable, wire, endpoint))'
  BY <1>1, <1>2
<1>4. QED
  BY <1>1, <1>2, <1>3 DEF StreamInv

LEMMA StreamRelays == ASSUME StreamInv, RelayLine PROVE StreamInv'
<1>1. PICK R, T, W, p : R = source.readable /\ T = reader.text /\ W = wire /\ p \in Nat
                        /\ Underway(p, R, T, W) /\ Complete(p, R, W, endpoint)
  BY DEF StreamInv
<1>2. PICK k : k = source.pieces + 1
  OBVIOUS
<1>3. /\ k \in Nat /\ endpoint = "stream" /\ ~reader.done
      /\ R \in Seq(Nat) /\ T \in Seq(Nat) /\ W \in Seq(Events)
      /\ p + Len(W) = Len(R) + 1
      /\ outcome' = outcome /\ endpoint' = endpoint /\ reader' = reader
  BY <1>1, <1>2 DEF StreamInv, RelayLine, Complete
<1>4. CASE source' = [source EXCEPT !.pieces = k] /\ wire' = wire
  <2>1. source' = [pieces |-> k, readable |-> R, end |-> source.end]
    BY <1>1, <1>4 DEF StreamInv
  <2>2. source'.pieces = k /\ source'.readable = R /\ source'.end = source.end
    BY <2>1
  <2>3. QED
    BY <1>1, <1>3, <1>4, <2>1, <2>2 DEF StreamInv
<1>5. CASE /\ source' = [source EXCEPT !.pieces = k, !.readable = Append(@, k)]
           /\ wire' = Append(wire, Chunk(k))
  <2>1. source' = [pieces |-> k, readable |-> Append(R, k), end |-> source.end]
    BY <1>1, <1>5 DEF StreamInv
  <2>2. source'.pieces = k /\ source'.readable = Append(R, k) /\ source'.end = source.end
    BY <2>1
  <2>3. PICK R2, W2 : R2 = Append(R, k) /\ W2 = Append(W, Chunk(k))
    OBVIOUS
  <2>4. Underway(p, R2, T, W2) /\ Counts(p, R2, W2, 1) /\ R2 \in Seq(Nat) /\ W2 \in Seq(Events)
    <3>1. Added(R, k, R2) /\ Added(W, Chunk(k), W2) /\ Counts(p, R, W, 1)
      BY <1>3, <2>3 DEF Added, Counts
    <3>2. Underway(p, R, T, W) /\ R \in Seq(Nat) /\ T \in Seq(Nat) /\ W \in Seq(Events) /\ k \in Nat
      BY <1>1, <1>3
    <3>3. QED
      BY <3>1, <3>2, PieceFollows
  <2>5. Complete(p, R2, W2, endpoint')
    BY <1>3, <2>4 DEF Complete, Counts
  <2>6. PICK state, done, end : state = reader.state /\ done = reader.done /\ end = source.end
    OBVIOUS
  <2>7. /\ reader' = [state |-> state, text |-> T, done |-> done] /\ state # "idle" /\ ~done
        /\ source' = [pieces |-> k, readable |-> R2, end |-> end]
        /\ wire' = W2 /\ R2 \in Seq(Nat) /\ W2 \in Seq(Events) /\ endpoint' = "stream"
        /\ Underway(p, R2, T, W2)
    BY <1>1, <1>3, <1>5, <2>1, <2>3, <2>4, <2>6 DEF StreamInv
  <2>8. QED
    BY <1>1, <1>3, <2>5, <2>7, StreamHolds
<1>6. QED
  BY <1>2, <1>4, <1>5 DEF RelayLine

LEMMA StreamProviderEnds == ASSUME StreamInv, ProviderEnds PROVE StreamInv'
<1>1. PICK R, T, W, p : R = source.readable /\ T = reader.text /\ W = wire /\ p \in Nat
                        /\ Underway(p, R, T, W) /\ Complete(p, R, W, endpoint)
  BY DEF StreamInv
<1>2. /\ endpoint = "stream" /\ ~reader.done
      /\ R \in Seq(Nat) /\ T \in Seq(Nat) /\ W \in Seq(Events)
      /\ p + Len(W) = Len(R) + 1
  BY <1>1 DEF StreamInv, ProviderEnds, Complete
<1>3. /\ outcome' = "success" /\ endpoint' = "finished" /\ reader' = reader
      /\ wire' = Append(W, Done)
  BY <1>1 DEF ProviderEnds, Ends, Closing
<1>4. PICK end \in {"done", "silent"} : source' = [source EXCEPT !.end = end]
  BY DEF ProviderEnds
<1>5. source' = [pieces |-> source.pieces, readable |-> R, end |-> end]
  BY <1>1, <1>4 DEF StreamInv
<1>6. source'.pieces = source.pieces /\ source'.readable = R /\ source'.end = end
  BY <1>5
<1>7. PICK W2 : W2 = Append(W, Done)
  OBVIOUS
<1>8. Underway(p, R, T, W2) /\ Counts(p, R, W2, 2) /\ W2 \in Seq(Events)
  <2>1. Underway(p, R, T, W) /\ R \in Seq(Nat) /\ T \in Seq(Nat) /\ W \in Seq(Events)
    BY <1>1, <1>2
  <2>2. Added(W, Done, W2) /\ Counts(p, R, W, 1)
    BY <1>2, <1>7 DEF Added, Counts
  <2>3. QED
    BY <2>1, <2>2, DoneFollows
<1>9. Complete(p, R, W2, "finished")
  BY <1>8 DEF Complete, Counts
<1>10. PICK state, done, pieces : state = reader.state /\ done = reader.done /\ pieces = source.pieces
  OBVIOUS
<1>11. /\ reader' = [state |-> state, text |-> T, done |-> done] /\ state # "idle" /\ ~done
       /\ source' = [pieces |-> pieces, readable |-> R, end |-> end] /\ pieces \in Nat
       /\ wire' = W2
  BY <1>1, <1>2, <1>3, <1>5, <1>7, <1>10 DEF StreamInv
<1>12. QED
  BY ZenonT(30), <1>1, <1>2, <1>3, <1>4, <1>8, <1>9, <1>11, StreamHolds

LEMMA StreamAnswersWhole == ASSUME StreamInv, AnswerWhole PROVE StreamInv'
<1>1. PICK R, T, W, p : R = source.readable /\ T = reader.text /\ W = wire /\ p \in Nat
                        /\ Underway(p, R, T, W) /\ Complete(p, R, W, endpoint)
  BY DEF StreamInv
<1>2. /\ endpoint = "whole" /\ ~reader.done
      /\ R \in Seq(Nat) /\ T \in Seq(Nat) /\ W \in Seq(Events)
      /\ R = <<>> /\ p + Len(W) = Len(R) + 1
  BY <1>1 DEF StreamInv, AnswerWhole, Complete
<1>3. outcome' = "success" /\ endpoint' = "finished" /\ reader' = reader
  BY DEF AnswerWhole
<1>4. PICK k, R2, W1 :
        /\ k \in Nat /\ R2 \in Seq(Nat) /\ W1 \in Seq(Events)
        /\ Underway(p, R2, T, W1) /\ Counts(p, R2, W1, 1)
        /\ source' = [pieces |-> k, readable |-> R2, end |-> "done"]
        /\ wire' = Append(W1, Done)
  <2>1. CASE source' = [source EXCEPT !.end = "done"] /\ wire' = Append(wire, Done)
    <3>1. source' = [pieces |-> source.pieces, readable |-> R, end |-> "done"]
      BY <1>1, <2>1 DEF StreamInv
    <3>2. source.pieces \in Nat
      BY DEF StreamInv
    <3>3. QED
      BY <1>1, <1>2, <2>1, <3>1, <3>2 DEF Counts
  <2>2. CASE /\ source' = [source EXCEPT !.pieces = 1, !.readable = <<1>>, !.end = "done"]
             /\ wire' = Append(Append(wire, Chunk(1)), Done)
    <3>1. PICK r2, w1 : r2 = Append(R, 1) /\ w1 = Append(W, Chunk(1))
      OBVIOUS
    <3>2. Underway(p, r2, T, w1) /\ Counts(p, r2, w1, 1) /\ r2 \in Seq(Nat) /\ w1 \in Seq(Events)
      <4>1. Underway(p, R, T, W) /\ R \in Seq(Nat) /\ T \in Seq(Nat) /\ W \in Seq(Events)
        BY <1>1, <1>2
      <4>2. Added(R, 1, r2) /\ Added(W, Chunk(1), w1) /\ Counts(p, R, W, 1) /\ 1 \in Nat
        BY <1>2, <3>1 DEF Added, Counts
      <4>3. QED
        BY <4>1, <4>2, PieceFollows
    <3>3. r2 = <<1>>
      <4>1. PICK one : one = <<1>>
        OBVIOUS
      <4>2. one \in Seq(Nat) /\ Len(one) = 1 /\ one[1] = 1
        BY <4>1
      <4>3. Len(R) = 0
        BY <1>2, EmptySeq
      <4>4. Len(r2) = 1 /\ r2[1] = 1
        BY <1>2, <3>1, <4>3, AppendProperties
      <4>5. r2 = one
        BY <3>2, <4>2, <4>4, SeqEqual
      <4>6. QED
        BY <4>1, <4>5
    <3>4. source' = [pieces |-> 1, readable |-> r2, end |-> "done"]
      BY <2>2, <3>3 DEF StreamInv
    <3>5. QED
      BY <1>1, <2>2, <3>1, <3>2, <3>4
  <2>3. QED
    BY <2>1, <2>2 DEF AnswerWhole
<1>5. source'.pieces = k /\ source'.readable = R2 /\ source'.end = "done"
  BY <1>4
<1>6. PICK W2 : W2 = Append(W1, Done)
  OBVIOUS
<1>7. Underway(p, R2, T, W2) /\ Counts(p, R2, W2, 2) /\ W2 \in Seq(Events)
  <2>1. Underway(p, R2, T, W1) /\ R2 \in Seq(Nat) /\ T \in Seq(Nat) /\ W1 \in Seq(Events)
    BY <1>2, <1>4
  <2>2. Added(W1, Done, W2) /\ Counts(p, R2, W1, 1)
    BY <1>4, <1>6 DEF Added
  <2>3. QED
    BY <2>1, <2>2, DoneFollows
<1>8. Complete(p, R2, W2, "finished")
  BY <1>7 DEF Complete, Counts
<1>9. PICK state, done : state = reader.state /\ done = reader.done
  OBVIOUS
<1>10. /\ reader' = [state |-> state, text |-> T, done |-> done] /\ state # "idle" /\ ~done
       /\ wire' = W2
  BY <1>1, <1>2, <1>3, <1>4, <1>6, <1>9 DEF StreamInv
<1>11. QED
  BY <1>1, <1>2, <1>3, <1>4, <1>7, <1>8, <1>10, StreamHolds

LEMMA StreamProviderFails == ASSUME StreamInv, ProviderFails PROVE StreamInv'
<1>1. PICK R, T, W, p : R = source.readable /\ T = reader.text /\ W = wire /\ p \in Nat
                        /\ Underway(p, R, T, W) /\ Complete(p, R, W, endpoint)
  BY DEF StreamInv
<1>2. /\ endpoint \in {"stream", "whole"} /\ ~reader.done
      /\ R \in Seq(Nat) /\ T \in Seq(Nat) /\ W \in Seq(Events)
      /\ p + Len(W) = Len(R) + 1 /\ Len(R) \in Nat
  BY <1>1 DEF StreamInv, ProviderFails, Complete
<1>3. endpoint' = "broken" /\ reader' = reader /\ wire' = W
  BY <1>1 DEF ProviderFails, Ends, Closing
<1>4. source' = [pieces |-> source.pieces, readable |-> R, end |-> "cut"]
  BY <1>1 DEF StreamInv, ProviderFails
<1>5. source'.pieces = source.pieces /\ source'.readable = R /\ source'.end = "cut"
  BY <1>4
<1>6. Complete(p, R, W, "broken")
  BY <1>2 DEF Complete
<1>7. QED
  BY <1>1, <1>2, <1>3, <1>4, <1>5, <1>6 DEF StreamInv

LEMMA StreamReads == ASSUME StreamInv, ReadEvent PROVE StreamInv'
<1>1. PICK R, T, W, p : R = source.readable /\ T = reader.text /\ W = wire /\ p \in Nat
                        /\ Underway(p, R, T, W) /\ Complete(p, R, W, endpoint)
  BY DEF StreamInv
<1>2. /\ R \in Seq(Nat) /\ T \in Seq(Nat) /\ W \in Seq(Events) /\ W # <<>> /\ ~reader.done
      /\ reader.state = "reading" /\ endpoint # "idle"
      /\ source' = source /\ outcome' = outcome /\ endpoint' = endpoint /\ wire' = Tail(W)
  BY <1>1 DEF StreamInv, ReadEvent
<1>3. PICK T2, e, W2 : /\ T2 = IF Head(W).event = "chunk" THEN Append(T, Head(W).piece) ELSE T
                       /\ e = Head(W) /\ W2 = Tail(W)
  OBVIOUS
<1>4. reader' = [state |-> "reading", text |-> T2, done |-> e = Done]
  BY <1>1, <1>2, <1>3 DEF StreamInv, ReadEvent
<1>5. reader'.state = "reading" /\ reader'.text = T2 /\ reader'.done = (e = Done)
  BY <1>4
<1>6. /\ Underway(p + 1, R, T2, W2)
      /\ (p + 1) + Len(W2) = p + Len(W)
      /\ T2 \in Seq(Nat) /\ W2 \in Seq(Events)
      /\ e = Done => (T2 = R /\ W2 = <<>> /\ Counts(p, R, W, 2))
  <2>1. Underway(p, R, T, W) /\ R \in Seq(Nat) /\ T \in Seq(Nat) /\ W \in Seq(Events)
    BY <1>1, <1>2
  <2>2. Taken(W, e, W2) /\ Noted(T, e, T2)
    BY <1>2, <1>3 DEF Taken, Noted
  <2>3. QED
    BY <2>1, <2>2, EventRead
<1>7. Complete(p + 1, R, W2, endpoint)
  BY <1>1, <1>2, <1>6 DEF Complete
<1>8. e = Done => /\ outcome = "success" /\ source.end \in {"done", "silent"}
                  /\ endpoint = "finished"
  <2> SUFFICES ASSUME e = Done
               PROVE  endpoint = "finished"
    BY DEF StreamInv
  <2>1. p + Len(W) = Len(R) + 2 /\ Len(R) \in Nat /\ Len(W) \in Nat
    BY <1>2, <1>6 DEF Counts
  <2>2. endpoint \notin {"stream", "whole", "broken"}
    BY <1>1, <1>2, <2>1 DEF Complete
  <2>3. QED
    BY <1>2, <2>2 DEF StreamInv
<1>9. p + 1 \in Nat
  BY <1>1
<1>10. PICK pieces, end, done, q :
         pieces = source.pieces /\ end = source.end /\ done = (e = Done) /\ q = p + 1
  OBVIOUS
<1>11. /\ source' = [pieces |-> pieces, readable |-> R, end |-> end] /\ pieces \in Nat
       /\ reader' = [state |-> "reading", text |-> T2, done |-> done]
       /\ wire' = W2 /\ q \in Nat
       /\ endpoint' \in {"stream", "whole", "finished", "broken"}
       /\ endpoint' = "finished" => (outcome' = "success" /\ end \in {"done", "silent"})
       /\ Underway(q, R, T2, W2) /\ Complete(q, R, W2, endpoint')
  BY <1>1, <1>2, <1>3, <1>4, <1>6, <1>7, <1>9, <1>10 DEF StreamInv
<1>12. done => /\ T2 = R /\ W2 = <<>>
               /\ outcome' = "success" /\ end \in {"done", "silent"}
               /\ endpoint' \in {"finished", "broken"}
  BY <1>2, <1>6, <1>8, <1>10
<1>13. QED
  BY <1>2, <1>6, <1>11, <1>12, StreamHolds

LEMMA StreamConcludes ==
  ASSUME StreamInv, StreamEnds \/ ConnectionBreaks \/ KeepAnswer PROVE StreamInv'
<1>1. PICK R, T, W, p : R = source.readable /\ T = reader.text /\ W = wire /\ p \in Nat
                        /\ Underway(p, R, T, W) /\ Complete(p, R, W, endpoint)
  BY DEF StreamInv
<1>2. /\ R \in Seq(Nat) /\ T \in Seq(Nat) /\ W \in Seq(Events)
      /\ reader.state # "idle" /\ endpoint # "idle" /\ source' = source /\ outcome' = outcome
  BY <1>1 DEF StreamInv, StreamEnds, ConnectionBreaks, KeepAnswer
<1>3. PICK state \in {"ended", "died", "kept"} : reader' = [reader EXCEPT !.state = state]
  BY DEF StreamEnds, ConnectionBreaks, KeepAnswer
<1>4. reader' = [state |-> state, text |-> T, done |-> reader.done]
  BY <1>1, <1>3 DEF StreamInv
<1>5. reader'.state = state /\ reader'.text = T /\ reader'.done = reader.done
  BY <1>4
<1>6. CASE wire' = wire /\ endpoint' = endpoint
  BY <1>1, <1>2, <1>4, <1>5, <1>6 DEF StreamInv
<1>7. CASE wire' = <<>> /\ endpoint' = "broken"
  <2>1. PICK W2 : W2 = <<>>
    OBVIOUS
  <2>2. W2 \in Seq(Events) /\ Len(W2) = 0
    BY <2>1, EmptySeq
  <2>3. Underway(p, R, T, W2)
    <3>1. PICK l, w : l = Len(R) /\ w = Len(W)
      OBVIOUS
    <3>2. l \in Nat /\ w \in Nat
      BY <1>2, <3>1
    <3>3. p + w <= l + 2
      BY <1>1, <3>1 DEF Underway
    <3>4. p + 0 <= l + 2
      BY <1>1, <3>2, <3>3
    <3>5. \A i \in 1 .. 0 : W2[i] = EventAt(R, p + i)
      OBVIOUS
    <3>6. QED
      BY <1>1, <2>2, <3>1, <3>4, <3>5 DEF Underway
  <2>4. Complete(p, R, W2, "broken")
    BY <2>1 DEF Complete
  <2>5. QED
    BY <1>1, <1>2, <1>4, <1>5, <1>7, <2>1, <2>2, <2>3, <2>4 DEF StreamInv
<1>8. QED
  BY <1>6, <1>7 DEF StreamEnds, ConnectionBreaks, KeepAnswer

LEMMA StreamSteps == StreamInv /\ [StreamNext]_streamVars => StreamInv'
<1>1. StreamInv /\ UNCHANGED streamVars => StreamInv'
  BY DEF StreamInv, streamVars
<1>2. QED
  BY <1>1, StreamOpens, StreamRelays, StreamProviderEnds, StreamAnswersWhole,
     StreamProviderFails, StreamReads, StreamConcludes DEF StreamNext

\* What is on the wire is what the client has still to read, without a gap, and the
\* last event comes only after everything else of an answer that has succeeded.
THEOREM StreamInvariance == StreamSpec => []StreamInv
<1>1. QED
  BY StreamStarts, StreamSteps, PTL DEF StreamSpec

\* A client that has seen the last event has the whole text of a call that has
\* succeeded; any other has the beginning of it.
THEOREM DoneIsOnlySaidOfTheWhole == StreamSpec => []DoneMeansWhole
<1>1. ASSUME StreamInv PROVE DoneMeansWhole
  <2>1. PICK R, T, p : R = source.readable /\ T = reader.text /\ p \in Nat
                       /\ Underway(p, R, T, wire)
    BY <1>1 DEF StreamInv
  <2>2. R \in Seq(Nat) /\ T \in Seq(Nat) /\ Len(R) \in Nat /\ Len(T) \in Nat
    BY <1>1, <2>1 DEF StreamInv
  <2>3. Len(T) <= Len(R) /\ \A i \in 1 .. Len(T) : T[i] = R[i]
    BY <2>1, <2>2 DEF Underway
  <2>4. SubSeq(T, 1, Len(T)) = SubSeq(R, 1, Len(T))
    <3>1. PICK n : n = Len(T)
      OBVIOUS
    <3>2. PICK a, b : a = SubSeq(T, 1, n) /\ b = SubSeq(R, 1, n)
      OBVIOUS
    <3>3. a \in Seq(Nat) /\ Len(a) = n /\ \A i \in 1 .. n : a[i] = T[i]
      BY <2>2, <2>3, <3>1, <3>2, SubSeqProperties
    <3>4. b \in Seq(Nat) /\ Len(b) = n /\ \A i \in 1 .. n : b[i] = R[i]
      BY <2>2, <2>3, <3>1, <3>2, SubSeqProperties
    <3>5. a = b
      BY <2>3, <3>1, <3>3, <3>4, SeqEqual
    <3>6. QED
      BY <3>1, <3>2, <3>5
  <2>5. IsPrefix(reader.text, source.readable)
    BY <2>1, <2>3, <2>4 DEF IsPrefix
  <2>6. QED
    BY <1>1, <2>5 DEF DoneMeansWhole, StreamInv
<1>2. QED
  BY <1>1, StreamInvariance, PTL

(* How overlapping changes add up                                          *)


Administered == Keys \cup Projects
KeyRows == [token : Tickets, revoked : Tickets \cup {Null}]

Rotation(id) == [token |-> id, revoked |-> Null]
Revocation(id) == [revoked |-> id]

SetsOk(x, id, sets) ==
    /\ x \in Keys => id \in Tickets /\ sets \in {Rotation(id), Revocation(id)}
    /\ x \in Projects => DOMAIN sets \subseteq {"name", "local"}

\* Of the updates of a row and the requests under way for it: the updates were
\* committed in an order, and who knew of one knew of all that it knew of.
Ordered(ups, held) ==
    /\ IsFiniteSet(ups)
    /\ \A u, v \in ups : u.id = v.id => u = v
    /\ \A u \in ups : \A z \in ups \cup held : u.id \in z.after => u.after \subseteq z.after
    /\ \E C : StrictOrder(ups, C) /\ \A u, v \in ups : u.id \in v.after => <<u, v>> \in C

\* Nobody has changed the column.
Untouched(col, row, ups, held) ==
    /\ \A y \in ups : col \notin DOMAIN y.sets
    /\ \A r \in held : r.step = "commit" => r.loaded[col] = row[col]

\* The column is as update W set it, nobody who set it knew of W, and a request that has
\* loaded another value was sent before W was committed.
LastFor(W, col, row, ups, held) ==
    /\ W \in ups /\ col \in DOMAIN W.sets /\ W.sets[col] = row[col]
    /\ \A y \in ups : col \in DOMAIN y.sets => W.id \notin y.after
    /\ \A r \in held : (r.step = "commit" /\ r.loaded[col] # row[col]) => W.id \notin r.after

KeySettled(row, ups, held) ==
    \/ /\ Untouched("token", row, ups, held)
       /\ Untouched("revoked", row, ups, held) \/ \E V \in ups : LastFor(V, "revoked", row, ups, held)
    \/ \E T, V \in ups :
          /\ LastFor(T, "token", row, ups, held) /\ LastFor(V, "revoked", row, ups, held)
          /\ "token" \in DOMAIN V.sets => V = T

ColumnSettled(col, row, ups, held) ==
    Untouched(col, row, ups, held) \/ \E W \in ups : LastFor(W, col, row, ups, held)

Known(z, ups) == z.after \subseteq Ids(ups)

HeldOk(x, r, ups) ==
    /\ Known(r, ups) /\ r.id \notin Ids(ups)
    /\ SetsOk(x, r.id, r.sets)
    /\ r.step = "commit" => r.wanted = r.sets /\ (x \in Keys => r.loaded["token"] # r.id)

Columns(x) == IF x \in Keys THEN {"token", "revoked"} ELSE {"name", "local"}

Settled(x, row, ups, held) ==
    /\ x \in Keys => row \in KeyRows /\ KeySettled(row, ups, held)
    /\ x \in Projects => \A col \in Columns(x) : ColumnSettled(col, row, ups, held)

Fine(x, row, ups, held) ==
    IF row = Absent THEN ups = {} /\ held = {}
    ELSE /\ DOMAIN row = Columns(x)
         /\ \A u \in ups : Known(u, ups) /\ SetsOk(x, u.id, u.sets)
         /\ \A r \in held : HeldOk(x, r, ups)
         /\ Ordered(ups, held)
         /\ Settled(x, row, ups, held)

\* Fewer requests, or one more that has not loaded the row or has just done so.
LEMMA FineBeside ==
  ASSUME NEW x, NEW row, NEW ups, NEW held, Fine(x, row, ups, held), NEW rest,
         \A z \in rest : \/ z \in held
                         \/ /\ row # Absent /\ HeldOk(x, z, ups)
                            /\ \A u \in ups : u.id \in z.after => u.after \subseteq z.after
                            /\ z.step = "commit" => z.loaded = row
  PROVE  Fine(x, row, ups, rest)
<1>1. CASE row = Absent
  <2>1. ups = {} /\ held = {}
    BY <1>1 DEF Fine
  <2>2. ~\E z \in rest : TRUE
    BY <1>1, <2>1
  <2>3. QED
    BY <1>1, <2>1, <2>2 DEF Fine
<1>2. CASE row # Absent
  <2>1. /\ DOMAIN row = Columns(x)
        /\ \A u \in ups : Known(u, ups) /\ SetsOk(x, u.id, u.sets)
        /\ \A r \in held : HeldOk(x, r, ups)
        /\ Ordered(ups, held)
        /\ Settled(x, row, ups, held)
    BY <1>2 DEF Fine
  <2>2. \A r \in rest : HeldOk(x, r, ups)
    BY <2>1
  <2>3. Ordered(ups, rest)
    <3>1. \A u \in ups : \A z \in ups \cup rest : u.id \in z.after => u.after \subseteq z.after
      BY <2>1 DEF Ordered
    <3>2. QED
      BY <2>1, <3>1 DEF Ordered
  <2>4. ASSUME NEW col, Untouched(col, row, ups, held) PROVE Untouched(col, row, ups, rest)
    BY <2>4 DEF Untouched
  <2>5. ASSUME NEW col, NEW W, LastFor(W, col, row, ups, held) PROVE LastFor(W, col, row, ups, rest)
    BY <2>5 DEF LastFor
  <2>6. Settled(x, row, ups, rest)
    BY <2>1, <2>4, <2>5, Zenon DEF Settled, KeySettled, ColumnSettled
  <2>7. QED
    BY <1>2, <2>1, <2>2, <2>3, <2>6 DEF Fine
<1>3. QED
  BY <1>1, <1>2

\* What the commit of request r, update n, makes of one column.
Committed(col, row, ups, held, r, n, new, rest) ==
    /\ (col \in DOMAIN r.sets /\ new[col] = r.sets[col]) =>
          LastFor(n, col, new, ups \cup {n}, rest)
    /\ ~(col \in DOMAIN r.sets /\ new[col] = r.sets[col]) =>
          /\ new[col] = row[col]
          /\ \A W : LastFor(W, col, row, ups, held) => LastFor(W, col, new, ups \cup {n}, rest)
          /\ Untouched(col, row, ups, held) => Untouched(col, new, ups \cup {n}, rest)

LEMMA ColumnCommitted ==
  ASSUME NEW row, NEW ups, NEW held, NEW r \in held, r.step = "commit",
         NEW n, n.id = r.id, n.after = r.after, n.sets = r.sets, Known(n, ups),
         n.id \notin Ids(ups), NEW rest, rest \subseteq held, \A q \in rest : Known(q, ups),
         \A u \in ups : Known(u, ups), NEW new, NEW col,
         new[col] = IF col \in DOMAIN r.sets /\ r.sets[col] # r.loaded[col]
                    THEN r.sets[col] ELSE row[col]
  PROVE  Committed(col, row, ups, held, r, n, new, rest)
<1>1. PICK all : all = ups \cup {n}
  OBVIOUS
<1>2. n \in all /\ ups \subseteq all /\ \A y \in all : y \in ups \/ y = n
  BY <1>1
<1>3. \A y \in all : n.id \notin y.after
  BY <1>2 DEF Known
<1>4. \A q \in rest : n.id \notin q.after
  BY DEF Known
<1>5. ASSUME col \in DOMAIN r.sets, new[col] = r.sets[col]
      PROVE  LastFor(n, col, new, all, rest)
  BY <1>2, <1>3, <1>4, <1>5 DEF LastFor
<1>6. ASSUME ~(col \in DOMAIN r.sets /\ new[col] = r.sets[col])
      PROVE  /\ new[col] = row[col]
             /\ col \in DOMAIN r.sets => r.loaded[col] # row[col]
  BY <1>6
<1>7. ASSUME ~(col \in DOMAIN r.sets /\ new[col] = r.sets[col]),
             NEW W, LastFor(W, col, row, ups, held)
      PROVE  LastFor(W, col, new, all, rest)
  <2>1. col \in DOMAIN n.sets => W.id \notin n.after
    BY <1>6, <1>7 DEF LastFor
  <2>2. \A y \in all : col \in DOMAIN y.sets => W.id \notin y.after
    BY <1>2, <1>7, <2>1 DEF LastFor
  <2>3. new[col] = row[col]
    BY <1>6, <1>7
  <2>4. QED
    BY <1>2, <1>7, <2>2, <2>3 DEF LastFor
<1>8. ASSUME ~(col \in DOMAIN r.sets /\ new[col] = r.sets[col]), Untouched(col, row, ups, held)
      PROVE  Untouched(col, new, all, rest)
  <2>1. col \notin DOMAIN n.sets
    BY <1>6, <1>8 DEF Untouched
  <2>2. QED
    BY <1>2, <1>6, <1>8, <2>1 DEF Untouched
<1>9. QED
  BY <1>1, <1>5, <1>6, <1>7, <1>8 DEF Committed

LEMMA OrderCommitted ==
  ASSUME NEW ups, NEW held, Ordered(ups, held), NEW r \in held, Known(r, ups),
         r.id \notin Ids(ups), NEW n, n.id = r.id, n.after = r.after,
         \A u \in ups : Known(u, ups), \A q \in held : Known(q, ups)
  PROVE  Ordered(ups \cup {n}, held \ {r})
<1>1. PICK all : all = ups \cup {n}
  OBVIOUS
<1>2. /\ n \in all /\ ups \subseteq all /\ \A y \in all : y \in ups \/ y = n
      /\ n \notin ups /\ n.id \notin Ids(ups)
  BY <1>1 DEF Ids
<1>3. /\ \A y \in all : n.id \notin y.after
      /\ \A q \in held : n.id \notin q.after
  BY <1>2 DEF Known
<1>4. IsFiniteSet(all)
  BY <1>1, FS_AddElement DEF Ordered
<1>5. \A u, v \in all : u.id = v.id => u = v
  BY <1>2 DEF Ordered, Ids
<1>6. \A u \in all : \A z \in all \cup (held \ {r}) : u.id \in z.after => u.after \subseteq z.after
  BY <1>2, <1>3 DEF Ordered
<1>7. PICK C : StrictOrder(ups, C) /\ \A u, v \in ups : u.id \in v.after => <<u, v>> \in C
  BY DEF Ordered
<1>8. PICK D : D = {p \in all \X all : (p[1] \in ups /\ p[2] \in ups /\ p \in C)
                                     \/ (p[1] \in ups /\ p[2] = n)}
  OBVIOUS
<1>9. \A u, v \in all : <<u, v>> \in D <=>
         u \in ups /\ ((v \in ups /\ <<u, v>> \in C) \/ v = n)
  BY <1>8
<1>10. StrictOrder(all, D)
  <2>1. \A u \in all : <<u, u>> \notin D
    BY <1>2, <1>7, <1>9 DEF StrictOrder
  <2>2. ASSUME NEW u \in all, NEW v \in all, NEW w \in all, <<u, v>> \in D, <<v, w>> \in D
        PROVE  <<u, w>> \in D
    <3>1. u \in ups /\ v \in ups
      BY <1>2, <1>9, <2>2
    <3>2. CASE w = n
      BY <1>9, <3>1, <3>2
    <3>3. CASE w \in ups
      BY <1>2, <1>7, <1>9, <2>2, <3>1, <3>3 DEF StrictOrder
    <3>4. QED
      BY <1>2, <3>2, <3>3
  <2>3. ASSUME NEW u \in all, NEW v \in all, u # v PROVE <<u, v>> \in D \/ <<v, u>> \in D
    BY <1>2, <1>7, <1>9, <2>3 DEF StrictOrder
  <2>4. QED
    BY <2>1, <2>2, <2>3 DEF StrictOrder
<1>11. ASSUME NEW u \in all, NEW v \in all, u.id \in v.after PROVE <<u, v>> \in D
  <2>1. u \in ups
    BY <1>2, <1>3, <1>11
  <2>2. QED
    BY <1>2, <1>7, <1>9, <1>11, <2>1
<1>12. QED
  BY <1>1, <1>4, <1>5, <1>6, <1>10, <1>11 DEF Ordered

LEMMA FineCommitted ==
  ASSUME NEW x \in Administered, NEW row, NEW ups, NEW held, Fine(x, row, ups, held),
         NEW r \in held, r.step = "commit", \A q \in held \ {r} : q.id # r.id,
         NEW n, n = [id |-> r.id, after |-> r.after, sets |-> r.sets, loaded |-> r.loaded],
         NEW new, new = Flushed(row, r.loaded, r.wanted), x \in Projects => new # Absent
  PROVE  Fine(x, new, ups \cup {n}, held \ {r})
<1>1. PICK all, rest : all = ups \cup {n} /\ rest = held \ {r}
  OBVIOUS
<1>2. /\ n \in all /\ ups \subseteq all /\ \A y \in all : y \in ups \/ y = n
      /\ n.id = r.id /\ n.after = r.after /\ n.sets = r.sets
      /\ rest \subseteq held /\ \A q \in rest : q.id # r.id
      /\ Ids(ups) \subseteq Ids(all) /\ \A id \in Ids(all) : id \in Ids(ups) \/ id = r.id
  BY <1>1 DEF Ids
<1>3. row # Absent
  BY DEF Fine
<1>4. /\ DOMAIN row = Columns(x)
      /\ \A u \in ups : Known(u, ups) /\ SetsOk(x, u.id, u.sets)
      /\ \A q \in held : HeldOk(x, q, ups)
      /\ Ordered(ups, held)
      /\ Settled(x, row, ups, held)
  BY <1>3 DEF Fine
<1>5. /\ Known(r, ups) /\ r.id \notin Ids(ups) /\ SetsOk(x, r.id, r.sets)
      /\ r.wanted = r.sets /\ (x \in Keys => r.loaded["token"] # r.id)
      /\ \A q \in held : Known(q, ups)
  BY <1>4 DEF HeldOk
<1>6. /\ DOMAIN new = Columns(x)
      /\ \A col \in Columns(x) :
            new[col] = IF col \in DOMAIN r.sets /\ r.sets[col] # r.loaded[col]
                       THEN r.sets[col] ELSE row[col]
      /\ new = [col \in Columns(x) |-> new[col]]
  BY <1>4, <1>5 DEF Flushed
<1>7. \A u \in all : Known(u, all) /\ SetsOk(x, u.id, u.sets)
  BY <1>2, <1>4, <1>5 DEF Known
<1>8. \A q \in rest : HeldOk(x, q, all)
  BY <1>2, <1>4 DEF HeldOk, Known
<1>9. Ordered(all, rest)
  BY <1>1, <1>2, <1>4, <1>5, OrderCommitted
<1>10. Known(n, ups) /\ n.id \notin Ids(ups) /\ \A q \in rest : Known(q, ups)
  BY <1>2, <1>5 DEF Known
<1>11. ASSUME NEW col \in Columns(x)
       PROVE  /\ (col \in DOMAIN r.sets /\ new[col] = r.sets[col]) =>
                    LastFor(n, col, new, all, rest)
              /\ ~(col \in DOMAIN r.sets /\ new[col] = r.sets[col]) =>
                    /\ new[col] = row[col]
                    /\ \A W : LastFor(W, col, row, ups, held) => LastFor(W, col, new, all, rest)
                    /\ Untouched(col, row, ups, held) => Untouched(col, new, all, rest)
  <2>1. Committed(col, row, ups, held, r, n, new, rest)
    BY <1>2, <1>4, <1>6, <1>10, ColumnCommitted
  <2>2. QED
    BY <1>1, <2>1 DEF Committed
<1>12. ASSUME x \in Projects, NEW col \in Columns(x) PROVE ColumnSettled(col, new, all, rest)
  <2>1. CASE col \in DOMAIN r.sets /\ new[col] = r.sets[col]
    BY <1>2, <1>11, <2>1 DEF ColumnSettled
  <2>2. CASE ~(col \in DOMAIN r.sets /\ new[col] = r.sets[col])
    BY <1>2, <1>4, <1>11, <1>12, <2>2 DEF ColumnSettled, Settled
  <2>3. QED
    BY <2>1, <2>2
<1>13. ASSUME x \in Keys PROVE new \in KeyRows /\ KeySettled(new, all, rest)
  <2>1. Columns(x) = {"token", "revoked"}
    BY <1>13 DEF Columns
  <2>2. r.id \in Tickets /\ row \in KeyRows
    BY <1>4, <1>5, <1>13 DEF SetsOk, Settled
  <2>3. KeySettled(row, ups, held)
    BY <1>4, <1>13 DEF Settled
  <2>4. new = [token |-> new["token"], revoked |-> new["revoked"]]
    BY <1>6, <2>1
  <2>5. row["token"] \in Tickets /\ row["revoked"] \in Tickets \cup {Null}
    BY <2>2 DEF KeyRows
  <2>6. CASE r.sets = Rotation(r.id)
    <3>1. /\ DOMAIN r.sets = {"token", "revoked"}
          /\ r.sets["token"] = r.id /\ r.sets["revoked"] = Null
      BY <2>6 DEF Rotation
    <3>2. new["token"] = r.id
      BY <1>5, <1>6, <1>13, <2>1, <3>1
    <3>3. LastFor(n, "token", new, all, rest)
      BY <1>11, <2>1, <3>1, <3>2
    <3>4. CASE new["revoked"] = Null
      <4>1. LastFor(n, "revoked", new, all, rest)
        BY <1>11, <2>1, <3>1, <3>4
      <4>2. KeySettled(new, all, rest)
        BY <1>2, <3>3, <4>1, Zenon DEF KeySettled
      <4>3. new \in KeyRows
        BY <2>2, <2>4, <3>2, <3>4 DEF KeyRows
      <4>4. QED
        BY <4>2, <4>3
    <3>5. CASE new["revoked"] # Null
      <4>1. new["revoked"] = row["revoked"] /\ r.loaded["revoked"] = Null
        BY <1>6, <2>1, <3>1, <3>5
      <4>2. ~Untouched("revoked", row, ups, held)
        BY <3>5, <4>1 DEF Untouched
      <4>3. PICK V \in ups : LastFor(V, "revoked", row, ups, held)
        BY <2>3, <4>2 DEF KeySettled
      <4>4. LastFor(V, "revoked", new, all, rest)
        BY <1>11, <2>1, <3>1, <3>5, <4>3
      <4>5. "token" \notin DOMAIN V.sets
        <5>1. V.sets["revoked"] # Null /\ V.sets \in {Rotation(V.id), Revocation(V.id)}
          BY <1>4, <1>13, <3>5, <4>1, <4>3 DEF LastFor, SetsOk
        <5>2. V.sets = Revocation(V.id)
          BY <5>1 DEF Rotation
        <5>3. QED
          BY <5>2 DEF Revocation
      <4>6. KeySettled(new, all, rest)
        BY <1>2, <3>3, <4>4, <4>5, Zenon DEF KeySettled
      <4>7. new \in KeyRows
        BY <2>2, <2>4, <2>5, <3>2, <4>1 DEF KeyRows
      <4>8. QED
        BY <4>6, <4>7
    <3>6. QED
      BY <3>4, <3>5
  <2>7. CASE r.sets = Revocation(r.id)
    <3>1. DOMAIN r.sets = {"revoked"} /\ r.sets["revoked"] = r.id
      BY <2>7 DEF Revocation
    <3>2. /\ new["token"] = row["token"]
          /\ \A W : LastFor(W, "token", row, ups, held) => LastFor(W, "token", new, all, rest)
          /\ Untouched("token", row, ups, held) => Untouched("token", new, all, rest)
      BY <1>11, <2>1, <3>1
    <3>3. "token" \notin DOMAIN n.sets
      BY <1>2, <3>1
    <3>4. new \in KeyRows
      <4>1. new["revoked"] = r.id \/ new["revoked"] = row["revoked"]
        BY <1>6, <2>1, <3>1
      <4>2. QED
        BY <2>2, <2>4, <2>5, <3>2, <4>1 DEF KeyRows
    <3>5. CASE new["revoked"] = r.id
      <4>1. LastFor(n, "revoked", new, all, rest)
        BY <1>11, <2>1, <3>1, <3>5
      <4>2. CASE Untouched("token", row, ups, held)
        <5>1. Untouched("token", new, all, rest)
          BY <3>2, <4>2
        <5>2. KeySettled(new, all, rest)
          BY <1>2, <4>1, <5>1, Zenon DEF KeySettled
        <5>3. QED
          BY <3>4, <5>2
      <4>3. CASE \E T \in ups : LastFor(T, "token", row, ups, held)
        <5>1. PICK T \in ups : LastFor(T, "token", new, all, rest)
          BY <3>2, <4>3
        <5>2. KeySettled(new, all, rest)
          BY <1>2, <3>3, <4>1, <5>1, Zenon DEF KeySettled
        <5>3. QED
          BY <3>4, <5>2
      <4>4. QED
        BY <2>3, <4>2, <4>3, Zenon DEF KeySettled
    <3>6. CASE new["revoked"] # r.id
      <4>1. /\ \A W : LastFor(W, "revoked", row, ups, held) => LastFor(W, "revoked", new, all, rest)
            /\ Untouched("revoked", row, ups, held) => Untouched("revoked", new, all, rest)
        BY <1>11, <2>1, <3>1, <3>6
      <4>2. QED
        <5>1. KeySettled(new, all, rest)
          BY <1>2, <2>3, <3>2, <4>1, Zenon DEF KeySettled
        <5>2. QED
          BY <3>4, <5>1
    <3>7. QED
      BY <3>5, <3>6
  <2>8. QED
    BY <1>5, <1>13, <2>6, <2>7 DEF SetsOk
<1>14. new # Absent
  <2>1. x \in Keys => new # Absent
    BY <1>13, AdminAssumption DEF KeyRows
  <2>2. QED
    BY <2>1 DEF Administered
<1>15. Settled(x, new, all, rest)
  BY <1>12, <1>13 DEF Settled
<1>16. QED
  BY <1>1, <1>6, <1>7, <1>8, <1>9, <1>14, <1>15 DEF Fine

(* The invariant in the state of the service                               *)

\* The requests under way for a row.
Held(x, requests) ==
    {requests[c] : c \in {d \in Clients : requests[d] # NoRequest /\ requests[d].row = x}}

\* No update has this id, and no key has its token from the request.
Unspent(id, table, history) ==
    \A x \in Administered :
        /\ id \notin Ids(history[x])
        /\ x \in Keys => table[x] = Absent \/ table[x]["token"] # id

\* A request that is yet to be sent or to be answered.
Unanswered(d, m, numbers, requests) ==
    numbers[d] < m \/ (requests[d] # NoRequest /\ m = numbers[d])

InSeries(requests, numbers, table, history) ==
    /\ \A c \in Clients : numbers[c] <= MaxRequests
    /\ \A c \in Clients : requests[c] # NoRequest => requests[c].id = <<c, numbers[c]>>
    /\ \A c \in Clients : \A m \in Nat :
          Unanswered(c, m, numbers, requests) => Unspent(<<c, m>>, table, history)
    /\ \A x \in Administered : Fine(x, table[x], history[x], Held(x, requests))

ChangeInv == AdminInv /\ InSeries(req, sent, rows, updates)

LEMMA AdministeredRows ==
  /\ Administered \subseteq Rows
  /\ \A x \in Administered : x \notin Approvals /\ x \notin States
  /\ \A x \in Administered : x \notin Keys => x \in Projects
  /\ \A x \in Keys : x \notin Projects /\ x \in Administered
  /\ \A x \in Projects : x \notin Keys /\ x \in Administered
<1>1. /\ Keys \cap (Approvals \cup Projects \cup States) = {}
      /\ Approvals \cap (Projects \cup States) = {}
      /\ Projects \cap States = {}
  BY AdminAssumption
<1>2. QED
  BY <1>1 DEF Administered, Rows

\* The requests under way when one client's has changed to r.
HeldAfter(f, c, r, rest, x) ==
    \A z \in rest :
        \/ z = r /\ r # NoRequest /\ r.row = x
        \/ \E d \in Clients : d # c /\ z = f[d] /\ f[d] # NoRequest /\ f[d].row = x

LEMMA HeldChanges ==
  ASSUME NEW f, f = [d \in Clients |-> f[d]], NEW c \in Clients, NEW r,
         NEW g, g = [f EXCEPT ![c] = r], NEW x
  PROVE  HeldAfter(f, c, r, Held(x, g), x)
<1>1. /\ g[c] = r
      /\ \A d \in Clients : d # c => g[d] = f[d]
  OBVIOUS
<1>2. ASSUME NEW z \in Held(x, g)
      PROVE  \/ z = r /\ r # NoRequest /\ r.row = x
             \/ \E d \in Clients : d # c /\ z = f[d] /\ f[d] # NoRequest /\ f[d].row = x
  <2>1. PICK d \in Clients : g[d] # NoRequest /\ g[d].row = x /\ z = g[d]
    BY <1>2 DEF Held
  <2>2. QED
    BY <1>1, <2>1
<1>3. QED
  BY <1>2 DEF HeldAfter

LEMMA SerialStarts == RequestsInit /\ AdminInit => ChangeInv
<1> SUFFICES ASSUME RequestsInit, AdminInit PROVE ChangeInv
  OBVIOUS
<1>1. /\ \A c \in Clients : req[c] = NoRequest /\ sent[c] = 0
      /\ \A x \in Rows : rows[x] = Absent /\ updates[x] = {}
  BY DEF AdminInit, RequestsInit
<1>2. AdminInv
  BY AdminStarts
<1>3. \A x : Held(x, req) = {}
  BY <1>1 DEF Held
<1>4. \A x \in Administered : Fine(x, rows[x], updates[x], Held(x, req))
  BY <1>1, <1>3, AdministeredRows DEF Fine
<1>5. \A id : Unspent(id, rows, updates)
  BY <1>1, AdministeredRows DEF Unspent, Ids
<1>6. \A c \in Clients : sent[c] <= MaxRequests
  BY <1>1, RequestsAssumption
<1>7. QED
  BY <1>1, <1>2, <1>4, <1>5, <1>6 DEF ChangeInv, InSeries

LEMMA SerialNext ==
  ASSUME AdminInv', InSeries(req', sent', rows', updates') PROVE ChangeInv'
<1>1. InSeries(req, sent, rows, updates)'
  BY DEF InSeries, Held, Unanswered, Unspent, Administered
<1>2. QED
  BY <1>1 DEF ChangeInv

\* A step that writes no row.
LEMMA SerialQuiet ==
  ASSUME ChangeInv, AdminInv', NEW c \in Clients, NEW r, req' = [req EXCEPT ![c] = r],
         rows' = rows, updates' = updates,
         \/ sent' = sent /\ req[c] # NoRequest
         \/ sent' = [sent EXCEPT ![c] = @ + 1] /\ sent[c] < MaxRequests,
         r # NoRequest =>
             /\ r.id = <<c, sent'[c]>>
             /\ r.row \in Administered =>
                   /\ rows[r.row] # Absent
                   /\ HeldOk(r.row, r, updates[r.row])
                   /\ \A u \in updates[r.row] : u.id \in r.after => u.after \subseteq r.after
                   /\ r.step = "commit" => r.loaded = rows[r.row]
  PROVE  ChangeInv'
<1>1. PICK f, g, h, k : f = req /\ g = req' /\ h = sent /\ k = sent'
  OBVIOUS
<1>2. f = [d \in Clients |-> f[d]] /\ g = [f EXCEPT ![c] = r] /\ h \in [Clients -> Nat]
  BY <1>1 DEF ChangeInv, AdminInv
<1>3. /\ g[c] = r
      /\ \A d \in Clients : d # c => g[d] = f[d]
  BY <1>2
<1>4. /\ \A d \in Clients : h[d] \in Nat /\ h[d] <= MaxRequests
      /\ \A d \in Clients : d # c => k[d] = h[d]
      /\ (k[c] = h[c] /\ f[c] # NoRequest) \/ (k[c] = h[c] + 1 /\ h[c] < MaxRequests)
  BY <1>1, <1>2 DEF ChangeInv, InSeries
<1>5. \A d \in Clients : k[d] \in Nat /\ k[d] <= MaxRequests
  BY <1>4, RequestsAssumption
<1>6. \A d \in Clients : g[d] # NoRequest => g[d].id = <<d, k[d]>>
  BY <1>1, <1>3, <1>4 DEF ChangeInv, InSeries
<1>7. ASSUME NEW d \in Clients, NEW m \in Nat, Unanswered(d, m, k, g)
      PROVE  Unspent(<<d, m>>, rows, updates)
  <2>1. Unanswered(d, m, h, f)
    BY <1>3, <1>4, <1>7 DEF Unanswered
  <2>2. QED
    BY <1>1, <2>1 DEF ChangeInv, InSeries
<1>8. ASSUME NEW x \in Administered
      PROVE  Fine(x, rows[x], updates[x], Held(x, g))
  <2>1. PICK row, ups, held, rest : /\ row = rows[x] /\ ups = updates[x]
                                    /\ held = Held(x, f) /\ rest = Held(x, g)
    OBVIOUS
  <2>0. HeldAfter(f, c, r, Held(x, g), x)
    BY <1>2, HeldChanges
  <2>2. Fine(x, row, ups, held)
    BY <1>1, <2>1 DEF ChangeInv, InSeries
  <2>3. ASSUME NEW z \in rest
        PROVE  \/ z \in held
               \/ /\ row # Absent /\ HeldOk(x, z, ups)
                  /\ \A u \in ups : u.id \in z.after => u.after \subseteq z.after
                  /\ z.step = "commit" => z.loaded = row
    <3>1. \/ z = r /\ r # NoRequest /\ r.row = x
          \/ \E d \in Clients : d # c /\ z = f[d] /\ f[d] # NoRequest /\ f[d].row = x
      BY <2>0, <2>1, <2>3 DEF HeldAfter
    <3>2. CASE z = r /\ r # NoRequest /\ r.row = x
      BY <2>1, <3>2
    <3>3. CASE \E d \in Clients : d # c /\ z = f[d] /\ f[d] # NoRequest /\ f[d].row = x
      BY <2>1, <3>3 DEF Held
    <3>4. QED
      BY <3>1, <3>2, <3>3
  <2>4. Fine(x, row, ups, rest)
    BY <2>2, <2>3, FineBeside
  <2>5. QED
    BY <2>1, <2>4
<1>9. InSeries(g, k, rows, updates)
  BY <1>5, <1>6, <1>7, <1>8 DEF InSeries
<1>10. QED
  BY <1>1, <1>9, SerialNext

LEMMA SerialFail ==
  ASSUME ChangeInv, AdminInv', NEW c \in Clients, Fail(c), UNCHANGED adminVars PROVE ChangeInv'
<1>1. /\ req' = [req EXCEPT ![c] = NoRequest] /\ sent' = sent /\ req[c] # NoRequest
      /\ rows' = rows /\ updates' = updates
  BY DEF Fail, Finish, Goto, adminVars
<1>2. QED
  BY <1>1, SerialQuiet

\* A request is sent.
LEMMA SerialAsk ==
  ASSUME ChangeInv, AdminInv', NEW c \in Clients, NEW x \in Rows, NEW sets, Ask(c, x, sets),
         x \in Keys => sets \in {Rotation(NextTicket(c)), Revocation(NextTicket(c))},
         x \in Projects => DOMAIN sets \subseteq {"name", "local"}
  PROVE  ChangeInv'
<1>1. PICK r : r = [op |-> "change", step |-> "load", row |-> x, sets |-> sets,
                    id |-> NextTicket(c), after |-> {u.id : u \in updates[x]}]
  OBVIOUS
<1>2. /\ req' = [req EXCEPT ![c] = r] /\ sent' = [sent EXCEPT ![c] = @ + 1]
      /\ rows' = rows /\ updates' = updates /\ rows[x] # Absent /\ sent[c] < MaxRequests
  BY <1>1 DEF Ask, Start, adminVars
<1>3. sent'[c] = sent[c] + 1 /\ sent[c] \in Nat
  BY <1>2 DEF ChangeInv, AdminInv
<1>4. /\ r.step = "load" /\ r.row = x /\ r.sets = sets
      /\ r.id = NextTicket(c) /\ r.id = <<c, sent'[c]>> /\ r.after = Ids(updates[x])
  BY <1>1, <1>3 DEF NextTicket, Ids
<1>5. ASSUME x \in Administered
      PROVE  /\ HeldOk(x, r, updates[x])
             /\ \A u \in updates[x] : u.id \in r.after => u.after \subseteq r.after
  <2>1. PICK row, ups : row = rows[x] /\ ups = updates[x]
    OBVIOUS
  <2>2. Fine(x, row, ups, Held(x, req))
    BY <1>5, <2>1 DEF ChangeInv, InSeries
  <2>3. \A u \in ups : Known(u, ups)
    BY <1>2, <2>1, <2>2 DEF Fine
  <2>4. r.id \in Tickets
    <3>1. sent'[c] \in 1 .. MaxRequests
      BY <1>2, <1>3, RequestsAssumption
    <3>2. QED
      BY <1>4, <3>1 DEF Tickets
  <2>5. SetsOk(x, r.id, r.sets)
    BY <1>4, <2>4 DEF SetsOk
  <2>6. r.id \notin Ids(ups)
    <3>1. Unanswered(c, sent'[c], sent, req) /\ sent'[c] \in Nat
      BY <1>3 DEF Unanswered
    <3>2. Unspent(<<c, sent'[c]>>, rows, updates)
      BY <3>1 DEF ChangeInv, InSeries
    <3>3. QED
      BY <1>4, <1>5, <2>1, <3>2 DEF Unspent
  <2>7. Known(r, ups)
    BY <1>4, <2>1 DEF Known
  <2>8. HeldOk(x, r, ups)
    BY <1>4, <2>5, <2>6, <2>7 DEF HeldOk
  <2>9. \A u \in ups : u.id \in r.after => u.after \subseteq r.after
    BY <1>4, <2>1, <2>3 DEF Known
  <2>10. QED
    BY <2>1, <2>8, <2>9
<1>6. QED
  BY <1>2, <1>4, <1>5, SerialQuiet

LEMMA SerialLoadRow ==
  ASSUME ChangeInv, AdminInv', NEW c \in Clients, LoadRow(c) PROVE ChangeInv'
<1>1. PICK q, x : q = req[c] /\ x = q.row
  OBVIOUS
<1>2. q.op = "change" /\ q.step = "load"
  BY <1>1 DEF LoadRow, At
<1>3. q # NoRequest
  BY <1>2 DEF NoRequest
<1>4. PICK r : r = [op |-> "change", step |-> "commit", row |-> x, id |-> q.id,
                    after |-> q.after, sets |-> q.sets, loaded |-> rows[x],
                    wanted |-> Wanted(rows[x], q.sets)]
  OBVIOUS
<1>5. /\ req' = [req EXCEPT ![c] = r] /\ sent' = sent /\ rows' = rows /\ updates' = updates
  BY <1>1, <1>4 DEF LoadRow, Goto, adminVars
<1>6. /\ r.step = "commit" /\ r.row = x /\ r.id = q.id /\ r.after = q.after
      /\ r.sets = q.sets /\ r.loaded = rows[x] /\ r.wanted = Wanted(rows[x], q.sets)
  BY <1>4
<1>7. q.id = <<c, sent[c]>>
  BY <1>1, <1>3 DEF ChangeInv, InSeries
<1>8. ASSUME x \in Administered
      PROVE  /\ rows[x] # Absent /\ HeldOk(x, r, updates[x])
             /\ \A u \in updates[x] : u.id \in r.after => u.after \subseteq r.after
  <2>1. PICK row, ups, held : row = rows[x] /\ ups = updates[x] /\ held = Held(x, req)
    OBVIOUS
  <2>2. Fine(x, row, ups, held)
    BY <1>8, <2>1 DEF ChangeInv, InSeries
  <2>3. q \in held
    BY <1>1, <1>3, <2>1 DEF Held
  <2>4. row # Absent
    BY <2>2, <2>3 DEF Fine
  <2>5. HeldOk(x, q, ups) /\ Ordered(ups, held)
    BY <2>2, <2>3, <2>4 DEF Fine
  <2>6. \A u \in ups : u.id \in r.after => u.after \subseteq r.after
    BY <1>6, <2>3, <2>5 DEF Ordered
  <2>7. SetsOk(x, q.id, q.sets)
    BY <2>5 DEF HeldOk
  <2>8. "cli" \notin DOMAIN q.sets
    BY <1>8, <2>7, AdministeredRows DEF SetsOk, Rotation, Revocation
  <2>9. r.wanted = r.sets
    BY <1>6, <2>8 DEF Wanted
  <2>10. x \in Keys => row["token"] # q.id
    <3>1. Unanswered(c, sent[c], sent, req) /\ sent[c] \in Nat
      BY <1>1, <1>3 DEF Unanswered, ChangeInv, AdminInv
    <3>2. Unspent(<<c, sent[c]>>, rows, updates)
      BY <3>1 DEF ChangeInv, InSeries
    <3>3. QED
      BY <1>7, <1>8, <2>1, <2>4, <3>2 DEF Unspent
  <2>11. HeldOk(x, r, ups)
    BY <1>6, <2>1, <2>5, <2>9, <2>10 DEF HeldOk, Known
  <2>12. QED
    BY <2>1, <2>4, <2>6, <2>11
<1>9. QED
  BY <1>1, <1>3, <1>5, <1>6, <1>7, <1>8, SerialQuiet

\* A row that is made has no updates yet.
LEMMA FineMade ==
  ASSUME NEW x \in Administered, NEW row, row # Absent, DOMAIN row = Columns(x),
         x \in Keys => row \in KeyRows
  PROVE  Fine(x, row, {}, {})
<1>1. Ordered({}, {})
  <2>1. IsFiniteSet({}) /\ StrictOrder({}, {})
    BY FS_EmptySet DEF StrictOrder
  <2>2. QED
    BY <2>1 DEF Ordered
<1>2. \A col : Untouched(col, row, {}, {})
  BY DEF Untouched
<1>3. Settled(x, row, {}, {})
  BY <1>2 DEF Settled, KeySettled, ColumnSettled
<1>4. QED
  BY <1>1, <1>3 DEF Fine

\* A step that makes rows and nothing else.
LEMMA SerialCreate ==
  ASSUME ChangeInv, AdminInv', NEW c \in Clients, Once(c), updates' = updates,
         \A x \in Administered :
            \/ rows'[x] = rows[x]
            \/ /\ rows[x] = Absent /\ Fine(x, rows'[x], {}, {})
               /\ x \in Keys => rows'[x]["token"] = NextTicket(c)
  PROVE  ChangeInv'
<1>1. PICK f, g, h, k : f = req /\ g = req' /\ h = sent /\ k = sent'
  OBVIOUS
<1>2. /\ g = [f EXCEPT ![c] = NoRequest] /\ k = [h EXCEPT ![c] = @ + 1]
      /\ h[c] < MaxRequests /\ f[c] = NoRequest
  BY <1>1 DEF Once, Start
<1>3. f = [d \in Clients |-> f[d]] /\ h \in [Clients -> Nat]
  BY <1>1 DEF ChangeInv, AdminInv
<1>4. /\ g[c] = NoRequest
      /\ \A d \in Clients : d # c => g[d] = f[d]
  BY <1>2, <1>3
<1>5. /\ \A d \in Clients : h[d] \in Nat /\ h[d] <= MaxRequests
      /\ \A d \in Clients : d # c => k[d] = h[d]
      /\ k[c] = h[c] + 1
  BY <1>1, <1>2, <1>3 DEF ChangeInv, InSeries
<1>6. \A d \in Clients : k[d] \in Nat /\ k[d] <= MaxRequests
  BY <1>2, <1>5, RequestsAssumption
<1>7. \A d \in Clients : g[d] # NoRequest => g[d].id = <<d, k[d]>>
  BY <1>1, <1>4, <1>5 DEF ChangeInv, InSeries
<1>8. ASSUME NEW d \in Clients, NEW m \in Nat, Unanswered(d, m, k, g)
      PROVE  Unspent(<<d, m>>, rows', updates')
  <2>1. Unanswered(d, m, h, f)
    BY <1>4, <1>5, <1>8 DEF Unanswered
  <2>2. Unspent(<<d, m>>, rows, updates)
    BY <1>1, <2>1 DEF ChangeInv, InSeries
  <2>3. <<d, m>> # NextTicket(c)
    BY <1>1, <1>4, <1>5, <1>8 DEF Unanswered, NextTicket
  <2>4. ASSUME NEW x \in Administered
        PROVE  /\ <<d, m>> \notin Ids(updates'[x])
               /\ x \in Keys => rows'[x] = Absent \/ rows'[x]["token"] # <<d, m>>
    BY <2>2, <2>3 DEF Unspent
  <2>5. QED
    BY <2>4 DEF Unspent
<1>9. ASSUME NEW x \in Administered
      PROVE  Fine(x, rows'[x], updates'[x], Held(x, g))
  <2>1. PICK row, new, ups, held, rest : /\ row = rows[x] /\ new = rows'[x] /\ ups = updates[x]
                                         /\ held = Held(x, f) /\ rest = Held(x, g)
    OBVIOUS
  <2>2. Fine(x, row, ups, held)
    BY <1>1, <2>1 DEF ChangeInv, InSeries
  <2>3. HeldAfter(f, c, NoRequest, Held(x, g), x)
    BY <1>2, <1>3, HeldChanges
  <2>4. \A z \in rest : z \in held
    BY <2>1, <2>3 DEF HeldAfter, Held
  <2>5. CASE new = row
    <3>1. Fine(x, row, ups, rest)
      BY <2>2, <2>4, FineBeside
    <3>2. QED
      BY <2>1, <2>5, <3>1
  <2>6. CASE row = Absent /\ Fine(x, new, {}, {})
    <3>1. ups = {} /\ held = {}
      BY <2>2, <2>6 DEF Fine
    <3>2. rest = {}
      BY <2>4, <3>1
    <3>3. QED
      BY <2>1, <2>6, <3>1, <3>2
  <2>7. QED
    BY <2>1, <2>5, <2>6
<1>10. InSeries(g, k, rows', updates')
  BY <1>6, <1>7, <1>8, <1>9 DEF InSeries
<1>11. QED
  BY <1>1, <1>10, SerialNext

LEMMA SerialCreateKey ==
  ASSUME ChangeInv, AdminInv', NEW c \in Clients, CreateKey(c) PROVE ChangeInv'
<1>1. PICK k \in Keys : /\ rows[k] = Absent
                        /\ rows' = [rows EXCEPT ![k] = [token |-> NextTicket(c), revoked |-> Null]]
  BY DEF CreateKey
<1>2. Once(c) /\ updates' = updates /\ sent[c] < MaxRequests
  BY DEF CreateKey, Once, Start
<1>3. PICK new : new = [token |-> NextTicket(c), revoked |-> Null]
  OBVIOUS
<1>4. k \in Administered /\ \A x \in Administered : x \in Rows
  BY AdministeredRows
<1>5. NextTicket(c) \in Tickets
  <2>1. sent[c] \in Nat
    BY DEF ChangeInv, AdminInv
  <2>2. sent[c] + 1 \in 1 .. MaxRequests
    BY <1>2, <2>1, RequestsAssumption
  <2>3. QED
    BY <2>2 DEF NextTicket, Tickets
<1>6. new \in KeyRows /\ DOMAIN new = {"token", "revoked"} /\ new["token"] = NextTicket(c)
  BY <1>3, <1>5 DEF KeyRows
<1>7. new # Absent
  BY <1>6, AdminAssumption DEF KeyRows
<1>8. Fine(k, new, {}, {})
  BY <1>4, <1>6, <1>7, FineMade DEF Columns
<1>9. rows'[k] = new /\ \A x \in Rows : x # k => rows'[x] = rows[x]
  <2>1. PICK f, g : f = rows /\ g = rows'
    OBVIOUS
  <2>2. f = [x \in Rows |-> f[x]] /\ g = [f EXCEPT ![k] = new]
    BY <1>1, <1>3, <2>1 DEF ChangeInv, AdminInv
  <2>3. g[k] = new /\ \A x \in Rows : x # k => g[x] = f[x]
    BY <1>4, <2>2
  <2>4. QED
    BY <2>1, <2>3
<1>10. \A x \in Administered :
            \/ rows'[x] = rows[x]
            \/ /\ rows[x] = Absent /\ Fine(x, rows'[x], {}, {})
               /\ x \in Keys => rows'[x]["token"] = NextTicket(c)
  BY <1>1, <1>4, <1>6, <1>8, <1>9
<1>11. QED
  BY <1>2, <1>10, SerialCreate

LEMMA SerialCreatePending ==
  ASSUME ChangeInv, AdminInv', NEW c \in Clients, CreatePending(c) PROVE ChangeInv'
<1>1. PICK a \in Approvals : rows' = [rows EXCEPT ![a] = Pending]
  BY DEF CreatePending, Pending
<1>2. Once(c) /\ updates' = updates
  BY DEF CreatePending
<1>3. \A x \in Administered : x # a /\ x \in Rows
  BY AdministeredRows
<1>4. \A x \in Administered : rows'[x] = rows[x]
  <2>1. PICK f, g : f = rows /\ g = rows'
    OBVIOUS
  <2>2. f = [x \in Rows |-> f[x]] /\ g = [f EXCEPT ![a] = Pending]
    BY <1>1, <2>1 DEF ChangeInv, AdminInv
  <2>3. \A x \in Rows : x # a => g[x] = f[x]
    BY <2>2
  <2>4. QED
    BY <1>3, <2>1, <2>3
<1>5. QED
  BY <1>2, <1>4, SerialCreate

LEMMA SerialCreateProject ==
  ASSUME ChangeInv, AdminInv', NEW c \in Clients, CreateProject(c) PROVE ChangeInv'
<1>1. PICK p \in Projects, name \in Names, local \in BOOLEAN :
        /\ rows[p] = Absent
        /\ rows' = [rows EXCEPT ![p] = [name |-> name, local |-> local],
                                ![<<"state", p>>] = [state |-> [base |-> Null, cli |-> Null]]]
  BY DEF CreateProject
<1>2. PICK s, new, doc : /\ s = <<"state", p>> /\ new = [name |-> name, local |-> local]
                         /\ doc = [state |-> [base |-> Null, cli |-> Null]]
  OBVIOUS
<1>3. Once(c) /\ updates' = updates
  BY DEF CreateProject
<1>4. /\ p \in Administered /\ p \notin Keys /\ s \in States /\ s \in Rows
      /\ \A x \in Administered : x # s /\ x \in Rows
  BY <1>2, AdministeredRows, TablesDiffer DEF Tracked
<1>5. rows'[p] = new /\ \A x \in Administered : x # p => rows'[x] = rows[x]
  <2>1. PICK f, g : f = rows /\ g = rows'
    OBVIOUS
  <2>2. f = [x \in Rows |-> f[x]] /\ g = [f EXCEPT ![p] = new, ![s] = doc]
    BY <1>1, <1>2, <2>1 DEF ChangeInv, AdminInv
  <2>3. g[p] = new /\ \A x \in Rows : (x # p /\ x # s) => g[x] = f[x]
    BY <1>4, <2>2
  <2>4. QED
    BY <1>4, <2>1, <2>3
<1>6. new \in [name : Names, local : BOOLEAN] /\ DOMAIN new = {"name", "local"}
  BY <1>2
<1>7. new # Absent
  BY <1>6, AdminAssumption
<1>8. Fine(p, new, {}, {})
  BY <1>4, <1>6, <1>7, FineMade DEF Columns
<1>9. QED
  BY <1>1, <1>3, <1>4, <1>5, <1>8, SerialCreate

LEMMA SerialCommitRow ==
  ASSUME ChangeInv, AdminInv', NEW c \in Clients, CommitRow(c) PROVE ChangeInv'
<1>1. PICK q, x, f, g : q = req[c] /\ x = q.row /\ f = req /\ g = req'
  OBVIOUS
<1>2. q.op = "change" /\ q.step = "commit"
  BY <1>1 DEF CommitRow, At
<1>3. q # NoRequest
  BY <1>2 DEF NoRequest
<1>4. /\ x \in Rows /\ q.id = <<c, sent[c]>>
      /\ \A d \in Clients : sent[d] \in Nat
      /\ \A d \in Clients : req[d] # NoRequest => req[d].id = <<d, sent[d]>>
      /\ f = [d \in Clients |-> f[d]]
  BY <1>1, <1>3 DEF ChangeInv, InSeries, AdminInv, RequestOk
<1>5. PICK new, n, later :
        /\ new = Flushed(rows[x], q.loaded, q.wanted)
        /\ n = [id |-> q.id, after |-> q.after, sets |-> q.sets, loaded |-> q.loaded]
        /\ later = updates[x] \cup {n}
  OBVIOUS
<1>6. /\ rows' = [rows EXCEPT ![x] = new]
      /\ updates' = [updates EXCEPT ![x] = @ \cup {n}]
      /\ g = [f EXCEPT ![c] = NoRequest] /\ sent' = sent
  BY <1>1, <1>5 DEF CommitRow, Finish, Goto
<1>7. rows'[x] = new /\ \A y \in Rows : y # x => rows'[y] = rows[y]
  <2>1. PICK s, t : s = rows /\ t = rows'
    OBVIOUS
  <2>2. s = [y \in Rows |-> s[y]] /\ t = [s EXCEPT ![x] = new]
    BY <1>6, <2>1 DEF ChangeInv, AdminInv
  <2>3. t[x] = new /\ \A y \in Rows : y # x => t[y] = s[y]
    BY <1>4, <2>2
  <2>4. QED
    BY <2>1, <2>3
<1>8. updates'[x] = later /\ \A y \in Rows : y # x => updates'[y] = updates[y]
  <2>1. PICK s, t : s = updates /\ t = updates'
    OBVIOUS
  <2>2. s = [y \in Rows |-> s[y]] /\ t = [s EXCEPT ![x] = later]
    BY <1>5, <1>6, <2>1 DEF ChangeInv, AdminInv
  <2>3. t[x] = later /\ \A y \in Rows : y # x => t[y] = s[y]
    BY <1>4, <2>2
  <2>4. QED
    BY <2>1, <2>3
<1>9. n.id = q.id /\ \A u \in later : u \in updates[x] \/ u = n
  BY <1>5
<1>10. /\ g[c] = NoRequest
       /\ \A d \in Clients : d # c => g[d] = f[d]
  BY <1>4, <1>6
<1>11. ASSUME NEW y \in Administered
       PROVE  Fine(y, rows'[y], updates'[y], Held(y, g))
  <2>1. PICK row, ups, held, rest : /\ row = rows[y] /\ ups = updates[y]
                                    /\ held = Held(y, f) /\ rest = Held(y, g)
    OBVIOUS
  <2>2. Fine(y, row, ups, held)
    BY <1>1, <1>11, <2>1 DEF ChangeInv, InSeries
  <2>3. HeldAfter(f, c, NoRequest, Held(y, g), y)
    BY <1>4, <1>6, HeldChanges
  <2>4. \A z \in rest : \E d \in Clients : d # c /\ z = f[d] /\ f[d] # NoRequest /\ f[d].row = y
    BY <2>1, <2>3 DEF HeldAfter
  <2>5. ASSUME NEW z \in rest PROVE z \in held /\ z.id # q.id
    <3>1. PICK d \in Clients : d # c /\ z = f[d] /\ f[d] # NoRequest /\ f[d].row = y
      BY <2>4
    <3>2. z.id = <<d, sent[d]>>
      BY <1>1, <1>4, <3>1
    <3>3. z.id # q.id
      BY <1>4, <3>1, <3>2
    <3>4. z \in held
      BY <2>1, <3>1 DEF Held
    <3>5. QED
      BY <3>3, <3>4
  <2>6. CASE y # x
    <3>1. Fine(y, row, ups, rest)
      BY <2>2, <2>5, FineBeside
    <3>2. QED
      BY <1>7, <1>8, <2>1, <2>6, <3>1, AdministeredRows
  <2>7. CASE y = x
    <3>1. q \in held
      BY <1>1, <1>3, <2>1, <2>7 DEF Held
    <3>2. \A z \in held \ {q} : z.id # q.id
      BY <1>1, <1>4, <2>1, <2>7 DEF Held
    <3>3. new = Flushed(row, q.loaded, q.wanted) /\ later = ups \cup {n}
      BY <1>5, <2>1, <2>7
    <3>4. y \in Projects => new # Absent
      <4>1. ASSUME y \in Projects PROVE RowOk(y, rows'[y], updates'[y])
        BY <4>1 DEF AdminInv, Tracked, States
      <4>2. updates'[y] # {}
        BY <1>5, <1>8, <2>7
      <4>3. QED
        BY <1>7, <2>7, <4>1, <4>2 DEF RowOk
    <3>5. Fine(y, new, ups \cup {n}, held \ {q})
      <4>1. n = [id |-> q.id, after |-> q.after, sets |-> q.sets, loaded |-> q.loaded]
        BY <1>5
      <4>2. QED
        BY <1>2, <2>2, <3>1, <3>2, <3>3, <3>4, <4>1, FineCommitted
    <3>6. \A z \in rest : z \in held \ {q}
      BY <2>5
    <3>7. Fine(y, new, later, held \ {q})
      BY <3>3, <3>5
    <3>8. Fine(y, new, later, rest)
      BY <3>6, <3>7, FineBeside
    <3>9. QED
      BY <1>7, <1>8, <2>1, <2>7, <3>8
  <2>8. QED
    BY <2>6, <2>7
<1>12. ASSUME NEW d \in Clients, NEW m \in Nat, Unanswered(d, m, sent', g)
       PROVE  Unspent(<<d, m>>, rows', updates')
  <2>1. Unanswered(d, m, sent, f)
    BY <1>6, <1>10, <1>12 DEF Unanswered
  <2>2. Unspent(<<d, m>>, rows, updates)
    BY <1>1, <2>1 DEF ChangeInv, InSeries
  <2>3. <<d, m>> # q.id
    BY <1>4, <1>6, <1>10, <1>12 DEF Unanswered
  <2>4. ASSUME NEW y \in Administered
        PROVE  /\ <<d, m>> \notin Ids(updates'[y])
               /\ y \in Keys => rows'[y] = Absent \/ rows'[y]["token"] # <<d, m>>
    <3>1. CASE y # x
      BY <1>7, <1>8, <2>2, <3>1, AdministeredRows DEF Unspent
    <3>2. CASE y = x
      <4>1. <<d, m>> \notin Ids(later)
        BY <1>8, <1>9, <2>2, <2>3, <3>2 DEF Unspent, Ids
      <4>2. ASSUME y \in Keys PROVE new["token"] # <<d, m>>
        <5>1. PICK row, ups, held : row = rows[y] /\ ups = updates[y] /\ held = Held(y, f)
          OBVIOUS
        <5>2. Fine(y, row, ups, held) /\ q \in held
          BY <1>1, <1>3, <3>2, <5>1 DEF ChangeInv, InSeries, Held
        <5>3. row # Absent
          BY <5>2 DEF Fine
        <5>4. /\ "token" \in DOMAIN row /\ HeldOk(y, q, ups)
          BY <4>2, <5>2, <5>3 DEF Fine, Columns
        <5>5. q.wanted \in {Rotation(q.id), Revocation(q.id)}
          BY <1>2, <4>2, <5>4 DEF HeldOk, SetsOk
        <5>6. new["token"] = q.id \/ new["token"] = row["token"]
          BY <1>5, <3>2, <5>1, <5>4, <5>5 DEF Flushed, Rotation, Revocation
        <5>7. row["token"] # <<d, m>>
          BY <2>2, <4>2, <5>1, <5>3 DEF Unspent
        <5>8. QED
          BY <2>3, <5>6, <5>7
      <4>3. QED
        BY <1>7, <1>8, <3>2, <4>1, <4>2
    <3>3. QED
      BY <3>1, <3>2
  <2>5. QED
    BY <2>4 DEF Unspent
<1>13. \A d \in Clients : sent'[d] <= MaxRequests
  BY <1>6 DEF ChangeInv, InSeries
<1>14. \A d \in Clients : g[d] # NoRequest => g[d].id = <<d, sent'[d]>>
  BY <1>1, <1>4, <1>6, <1>10
<1>15. InSeries(g, sent', rows', updates')
  BY <1>11, <1>12, <1>13, <1>14 DEF InSeries
<1>16. QED
  BY <1>1, <1>15, SerialNext

LEMMA SerialStutter ==
  ASSUME ChangeInv, UNCHANGED <<req, sent, adminVars>> PROVE ChangeInv'
<1>1. req' = req /\ sent' = sent /\ rows' = rows /\ updates' = updates
  BY DEF adminVars
<1>2. AdminInv'
  BY AdminStutter DEF ChangeInv
<1>3. InSeries(req', sent', rows', updates')
  BY <1>1 DEF ChangeInv
<1>4. QED
  BY <1>2, <1>3, SerialNext

LEMMA SerialSteps ==
  ChangeInv /\ [\E c \in Clients : AdminNext(c)]_<<req, sent, adminVars>> => ChangeInv'
<1>1. ASSUME ChangeInv, NEW c \in Clients, AdminNext(c), AdminInv'
      PROVE  ChangeInv'
  <2>1. CASE RotateKey(c)
    <3>1. PICK k \in Keys : Ask(c, k, Rotation(NextTicket(c)))
      BY <2>1 DEF RotateKey, Rotation
    <3>2. QED
      BY <1>1, <3>1, SerialAsk, AdministeredRows
  <2>2. CASE RevokeKey(c)
    <3>1. PICK k \in Keys : Ask(c, k, Revocation(NextTicket(c)))
      BY <2>2 DEF RevokeKey, Revocation
    <3>2. QED
      BY <1>1, <3>1, SerialAsk, AdministeredRows
  <2>3. CASE Resolve(c)
    <3>1. PICK a, sets : a \in Approvals /\ Ask(c, a, sets)
      BY <2>3 DEF Resolve
    <3>2. a \in Rows /\ a \notin Keys /\ a \notin Projects
      BY <3>1, TablesDiffer DEF Tracked
    <3>3. QED
      BY <1>1, <3>1, <3>2, SerialAsk
  <2>4. CASE UpdateProject(c)
    <3>1. PICK p, sets : p \in Projects /\ Ask(c, p, sets) /\ DOMAIN sets \subseteq {"name", "local"}
      <4>1. PICK p \in Projects, name \in Names, local \in BOOLEAN :
                \/ Ask(c, p, [name |-> name])
                \/ Ask(c, p, [local |-> local])
                \/ Ask(c, p, [name |-> name, local |-> local])
        BY <2>4 DEF UpdateProject
      <4>2. /\ DOMAIN [name |-> name] \subseteq {"name", "local"}
            /\ DOMAIN [local |-> local] \subseteq {"name", "local"}
            /\ DOMAIN [name |-> name, local |-> local] \subseteq {"name", "local"}
        OBVIOUS
      <4>3. QED
        BY <4>1, <4>2
    <3>2. QED
      BY <1>1, <3>1, SerialAsk, AdministeredRows
  <2>5. CASE PutState(c) \/ EnsureState(c)
    <3>1. PICK s, sets : s \in States /\ Ask(c, s, sets)
      BY <2>5 DEF PutState, EnsureState
    <3>2. s \in Rows /\ s \notin Keys /\ s \notin Projects
      BY <3>1, TablesDiffer DEF Tracked
    <3>3. QED
      BY <1>1, <3>1, <3>2, SerialAsk
  <2>6. CASE CreateKey(c)
    BY <1>1, <2>6, SerialCreateKey
  <2>7. CASE CreatePending(c)
    BY <1>1, <2>7, SerialCreatePending
  <2>8. CASE CreateProject(c)
    BY <1>1, <2>8, SerialCreateProject
  <2>9. CASE LoadRow(c)
    BY <1>1, <2>9, SerialLoadRow
  <2>10. CASE CommitRow(c)
    BY <1>1, <2>10, SerialCommitRow
  <2>11. CASE Fail(c) /\ UNCHANGED adminVars
    BY <1>1, <2>11, SerialFail
  <2>12. QED
    BY <1>1, <2>1, <2>2, <2>3, <2>4, <2>5, <2>6, <2>7, <2>8, <2>9, <2>10, <2>11 DEF AdminNext
<1>2. ChangeInv => AdminInv
  BY DEF ChangeInv
<1>3. QED
  BY <1>1, <1>2, AdminSteps, SerialStutter

\* What an administrator's records and the requests under way for them amount to: every
\* key and project is settled, whatever requests have overlapped.
THEOREM ChangeInvariance == AdminSpec => []ChangeInv
<1>1. RequestsInit /\ AdminInit => ChangeInv
  BY SerialStarts
<1>2. ChangeInv /\ [\E c \in Clients : AdminNext(c)]_<<req, sent, adminVars>> => ChangeInv'
  BY SerialSteps
<1>3. QED
  BY <1>1, <1>2, PTL DEF AdminSpec

\* The column is as W sets it, and in the classes of the updates W is above all others
\* that set it.
Topmost(W, S, K, col, row) ==
    /\ W \in S /\ col \in DOMAIN W.sets /\ W.sets[col] = row[col]
    /\ \A y \in S : (y # W /\ col \in DOMAIN y.sets) => K[y] < K[W]

ColumnServed(S, K, col, row) ==
    \/ \A y \in S : col \notin DOMAIN y.sets
    \/ \E W \in S : Topmost(W, S, K, col, row)

\* Classes that no update leaves that knew of one in it.
Classes(S, C, K) ==
    /\ IsFiniteSet(S) /\ StrictOrder(S, C)
    /\ \A u \in S : K[u] \in Nat
    /\ \A u, v \in S : Before(u, v) => <<u, v>> \in C /\ K[u] <= K[v]

\* The updates by class, and in a class as they were committed.
ByClass(S, C, K) ==
    {p \in S \X S : K[p[1]] < K[p[2]] \/ (K[p[1]] = K[p[2]] /\ p \in C)}

LEMMA ClassesOrder ==
  ASSUME NEW S, NEW C, NEW K, Classes(S, C, K)
  PROVE  /\ StrictOrder(S, ByClass(S, C, K))
         /\ \A u, v \in S : Before(u, v) => <<u, v>> \in ByClass(S, C, K)
         /\ \A u, v \in S : K[u] < K[v] => <<u, v>> \in ByClass(S, C, K)
<1>1. PICK L : L = ByClass(S, C, K)
  OBVIOUS
<1>2. \A u, v \in S : <<u, v>> \in L <=> (K[u] < K[v] \/ (K[u] = K[v] /\ <<u, v>> \in C))
  BY <1>1 DEF ByClass
<1>3. /\ StrictOrder(S, C) /\ \A u \in S : K[u] \in Nat
      /\ \A u, v \in S : Before(u, v) => <<u, v>> \in C /\ K[u] <= K[v]
  BY DEF Classes
<1>4. ASSUME NEW u \in S PROVE <<u, u>> \notin L
  <2>1. <<u, u>> \notin C
    BY <1>3 DEF StrictOrder
  <2>2. K[u] \in Nat /\ ~(K[u] < K[u])
    BY <1>3
  <2>3. QED
    BY <1>2, <2>1, <2>2
<1>5. ASSUME NEW u \in S, NEW v \in S, NEW w \in S, <<u, v>> \in L, <<v, w>> \in L
      PROVE  <<u, w>> \in L
  <2>1. <<u, v>> \in C /\ <<v, w>> \in C => <<u, w>> \in C
    BY <1>3 DEF StrictOrder
  <2>2. K[u] \in Nat /\ K[v] \in Nat /\ K[w] \in Nat
    BY <1>3
  <2>3. QED
    BY <1>2, <1>5, <2>1, <2>2
<1>6. ASSUME NEW u \in S, NEW v \in S, u # v PROVE <<u, v>> \in L \/ <<v, u>> \in L
  <2>1. <<u, v>> \in C \/ <<v, u>> \in C
    BY <1>3, <1>6 DEF StrictOrder
  <2>2. K[u] \in Nat /\ K[v] \in Nat
    BY <1>3
  <2>3. QED
    BY <1>2, <2>1, <2>2
<1>7. StrictOrder(S, L)
  BY <1>4, <1>5, <1>6 DEF StrictOrder
<1>8. ASSUME NEW u \in S, NEW v \in S, Before(u, v) PROVE <<u, v>> \in L
  <2>1. <<u, v>> \in C /\ K[u] <= K[v] /\ K[u] \in Nat /\ K[v] \in Nat
    BY <1>3, <1>8
  <2>2. QED
    BY <1>2, <2>1
<1>9. QED
  BY <1>1, <1>2, <1>7, <1>8

\* Where every column is served, the updates in the order of their classes are an
\* order that leaves the columns as they are.
LEMMA ServedInOrder ==
  ASSUME NEW S, NEW C, NEW K, Classes(S, C, K), NEW cols, NEW row,
         \A col \in cols : ColumnServed(S, K, col, row)
  PROVE  \E f \in Orders(S) : Leaves(f, cols, row)
<1>1. PICK L : L = ByClass(S, C, K)
  OBVIOUS
<1>2. /\ StrictOrder(S, L)
      /\ \A u, v \in S : Before(u, v) => <<u, v>> \in L
      /\ \A u, v \in S : K[u] < K[v] => <<u, v>> \in L
  BY <1>1, ClassesOrder
<1>3. PICK n : n = Cardinality(S)
  OBVIOUS
<1>4. n \in Nat
  BY <1>3, FS_CardinalityType DEF Classes
<1>5. RanksInOrder(S, L, n)
  BY <1>2, <1>3, RanksFill DEF Classes
<1>6. PICK f : f = [k \in 1 .. n |-> CHOOSE u \in S : RankIn(S, L, u) = k - 1]
  OBVIOUS
<1>7. ASSUME NEW k \in 1 .. n PROVE f[k] \in S /\ RankIn(S, L, f[k]) = k - 1
  <2>1. \E u \in S : RankIn(S, L, u) = k - 1
    BY <1>5 DEF RanksInOrder
  <2>2. QED
    BY <1>6, <2>1
<1>8. DOMAIN f = 1 .. n /\ f \in [1 .. n -> S]
  BY <1>6, <1>7
<1>9. ASSUME NEW i \in 1 .. n, NEW j \in 1 .. n, <<f[i], f[j]>> \in L PROVE i < j
  <2>1. RankIn(S, L, f[i]) < RankIn(S, L, f[j])
    BY <1>5, <1>7, <1>9 DEF RanksInOrder
  <2>2. QED
    BY <1>4, <1>7, <2>1
<1>10. f \in Orders(S)
  <2>1. ASSUME NEW i \in 1 .. n, NEW j \in 1 .. n, i < j
        PROVE  f[i] # f[j] /\ ~Before(f[j], f[i])
    <3>1. f[i] # f[j]
      BY <1>4, <1>7, <2>1
    <3>2. ~Before(f[j], f[i])
      <4>1. ASSUME <<f[j], f[i]>> \in L PROVE FALSE
        <5>1. j < i
          BY <1>9, <4>1
        <5>2. QED
          BY <1>4, <2>1, <5>1
      <4>2. QED
        BY <1>2, <1>7, <4>1
    <3>3. QED
      BY <3>1, <3>2
  <2>2. QED
    BY <1>3, <1>8, <2>1 DEF Orders
<1>11. ASSUME NEW col \in cols
       PROVE  LET setting == {i \in DOMAIN f : col \in DOMAIN f[i].sets}
              IN  setting # {} =>
                    row[col] = f[CHOOSE i \in setting : \A j \in setting : j <= i].sets[col]
  <2>1. PICK setting : setting = {i \in DOMAIN f : col \in DOMAIN f[i].sets}
    OBVIOUS
  <2>2. ASSUME setting # {}
        PROVE  row[col] = f[CHOOSE i \in setting : \A j \in setting : j <= i].sets[col]
    <3>1. PICK i \in setting : TRUE
      BY <2>2
    <3>2. f[i] \in S /\ col \in DOMAIN f[i].sets
      BY <1>7, <1>8, <2>1
    <3>3. PICK W \in S : Topmost(W, S, K, col, row)
      BY <3>2, Zenon DEF ColumnServed
    <3>4. PICK w : w = RankIn(S, L, W) + 1
      OBVIOUS
    <3>5. w \in 1 .. n /\ RankIn(S, L, W) = w - 1
      BY <1>4, <1>5, <3>4 DEF RanksInOrder
    <3>6. f[w] = W
      BY <1>5, <1>7, <3>5 DEF RanksInOrder
    <3>7. w \in setting
      BY <1>8, <2>1, <3>3, <3>5, <3>6 DEF Topmost
    <3>8. ASSUME NEW j \in setting PROVE j <= w
      <4>1. j \in 1 .. n /\ col \in DOMAIN f[j].sets /\ f[j] \in S
        BY <1>7, <1>8, <2>1
      <4>2. CASE f[j] = W
        <5>1. j = w
          BY <1>4, <1>7, <3>5, <4>1, <4>2
        <5>2. QED
          BY <1>4, <3>5, <5>1
      <4>3. CASE f[j] # W
        <5>1. K[f[j]] < K[W]
          BY <3>3, <4>1, <4>3 DEF Topmost
        <5>2. <<f[j], f[w]>> \in L
          BY <1>2, <3>6, <4>1, <5>1
        <5>3. QED
          BY <1>4, <1>9, <3>5, <4>1, <5>2
      <4>4. QED
        BY <4>2, <4>3
    <3>9. \A j \in setting : j \in Int
      BY <1>4, <1>8, <2>1
    <3>10. PICK last : last = CHOOSE k \in setting : \A j \in setting : j <= k
      OBVIOUS
    <3>11. last \in setting /\ \A j \in setting : j <= last
      BY <3>7, <3>8, <3>10
    <3>12. last = w
      BY <3>7, <3>8, <3>9, <3>11
    <3>13. QED
      BY <3>3, <3>6, <3>10, <3>12 DEF Topmost
  <2>3. QED
    BY <2>1, <2>2
<1>12. Leaves(f, cols, row)
  BY <1>11 DEF Leaves
<1>13. QED
  BY <1>10, <1>12

\* The updates that knew of W, and W, are above the others.
LEMMA ColumnIsSerial ==
  ASSUME NEW ups, NEW held, Ordered(ups, held), NEW col, NEW row,
         ColumnSettled(col, row, ups, held)
  PROVE  \E f \in Orders(ups) : Leaves(f, {col}, row)
<1>1. PICK C : StrictOrder(ups, C) /\ \A u, v \in ups : u.id \in v.after => <<u, v>> \in C
  BY DEF Ordered
<1>2. IsFiniteSet(ups) /\ \A u, v \in ups : u.id \in v.after => u.after \subseteq v.after
  BY DEF Ordered
<1>3. CASE Untouched(col, row, ups, held)
  <2>1. PICK K : K = [u \in ups |-> 0]
    OBVIOUS
  <2>2. Classes(ups, C, K)
    BY <1>1, <1>2, <2>1 DEF Classes, Before
  <2>3. \A x \in {col} : ColumnServed(ups, K, x, row)
    BY <1>3 DEF ColumnServed, Untouched
  <2>4. QED
    BY <2>2, <2>3, ServedInOrder
<1>4. CASE \E W \in ups : LastFor(W, col, row, ups, held)
  <2>1. PICK W \in ups : LastFor(W, col, row, ups, held)
    BY <1>4
  <2>2. PICK K : K = [u \in ups |-> IF u = W \/ W.id \in u.after THEN 1 ELSE 0]
    OBVIOUS
  <2>3. \A u \in ups : K[u] = IF u = W \/ W.id \in u.after THEN 1 ELSE 0
    BY <2>2
  <2>4. ASSUME NEW u \in ups, NEW v \in ups, Before(u, v) PROVE <<u, v>> \in C /\ K[u] <= K[v]
    <3>1. u.id \in v.after /\ u.after \subseteq v.after
      BY <1>2, <2>4 DEF Before
    <3>2. (u = W \/ W.id \in u.after) => W.id \in v.after
      BY <3>1
    <3>3. QED
      BY <1>1, <2>3, <3>1, <3>2
  <2>5. \A u \in ups : K[u] \in Nat
    BY <2>3
  <2>6. Classes(ups, C, K)
    BY <1>1, <1>2, <2>4, <2>5 DEF Classes
  <2>7. ASSUME NEW y \in ups, y # W, col \in DOMAIN y.sets PROVE K[y] < K[W]
    <3>1. W.id \notin y.after
      BY <2>1, <2>7 DEF LastFor
    <3>2. QED
      BY <2>3, <2>7, <3>1
  <2>8. Topmost(W, ups, K, col, row)
    BY <2>1, <2>7 DEF Topmost, LastFor
  <2>9. \A x \in {col} : ColumnServed(ups, K, x, row)
    BY <2>8, Zenon DEF ColumnServed
  <2>10. QED
    BY <2>6, <2>9, ServedInOrder
<1>5. QED
  BY <1>3, <1>4, Zenon DEF ColumnSettled

\* Of a key, the last revocation or rotation is on top and those that knew of the last
\* rotation are above the others.
LEMMA KeyIsSerial ==
  ASSUME NEW ups, NEW held, Ordered(ups, held), NEW row, KeySettled(row, ups, held),
         \A u \in ups : "revoked" \in DOMAIN u.sets
  PROVE  \E f \in Orders(ups) : Leaves(f, {"token", "revoked"}, row)
<1>1. PICK C : StrictOrder(ups, C) /\ \A u, v \in ups : u.id \in v.after => <<u, v>> \in C
  BY DEF Ordered
<1>2. IsFiniteSet(ups) /\ \A u, v \in ups : u.id \in v.after => u.after \subseteq v.after
  BY DEF Ordered
<1>3. CASE ups = {}
  <2>1. PICK K : K = [u \in ups |-> 0]
    OBVIOUS
  <2>2. Classes(ups, C, K)
    BY <1>1, <1>2, <1>3, <2>1 DEF Classes
  <2>3. \A x \in {"token", "revoked"} : ColumnServed(ups, K, x, row)
    BY <1>3 DEF ColumnServed
  <2>4. QED
    BY <2>2, <2>3, ServedInOrder
<1>4. ASSUME NEW V \in ups, LastFor(V, "revoked", row, ups, held)
      PROVE  \A u \in ups : V.id \notin u.after
  BY <1>4 DEF LastFor
<1>5. ASSUME Untouched("token", row, ups, held),
             NEW V \in ups, LastFor(V, "revoked", row, ups, held)
      PROVE  \E f \in Orders(ups) : Leaves(f, {"token", "revoked"}, row)
  <2>1. PICK K : K = [u \in ups |-> IF u = V THEN 1 ELSE 0]
    OBVIOUS
  <2>2. \A u \in ups : K[u] = IF u = V THEN 1 ELSE 0
    BY <2>1
  <2>3. ASSUME NEW u \in ups, NEW v \in ups, Before(u, v) PROVE <<u, v>> \in C /\ K[u] <= K[v]
    <3>1. u.id \in v.after /\ u # V
      BY <1>4, <1>5, <2>3 DEF Before
    <3>2. QED
      BY <1>1, <2>2, <3>1
  <2>4. \A u \in ups : K[u] \in Nat
    BY <2>2
  <2>5. Classes(ups, C, K)
    BY <1>1, <1>2, <2>3, <2>4 DEF Classes
  <2>6. Topmost(V, ups, K, "revoked", row)
    BY <1>5, <2>2 DEF Topmost, LastFor
  <2>7. ColumnServed(ups, K, "revoked", row)
    BY <2>6, Zenon DEF ColumnServed
  <2>8. ColumnServed(ups, K, "token", row)
    BY <1>5 DEF ColumnServed, Untouched
  <2>9. \A x \in {"token", "revoked"} : ColumnServed(ups, K, x, row)
    BY <2>7, <2>8
  <2>10. QED
    BY <2>5, <2>9, ServedInOrder
<1>6. ASSUME NEW T \in ups, NEW V \in ups, LastFor(T, "token", row, ups, held),
             LastFor(V, "revoked", row, ups, held), "token" \in DOMAIN V.sets => V = T
      PROVE  \E f \in Orders(ups) : Leaves(f, {"token", "revoked"}, row)
  <2>1. PICK K : K = [u \in ups |-> IF u = V THEN 2
                                    ELSE IF u = T \/ T.id \in u.after THEN 1 ELSE 0]
    OBVIOUS
  <2>2. \A u \in ups : K[u] = IF u = V THEN 2 ELSE IF u = T \/ T.id \in u.after THEN 1 ELSE 0
    BY <2>1
  <2>3. ASSUME NEW u \in ups, NEW v \in ups, Before(u, v) PROVE <<u, v>> \in C /\ K[u] <= K[v]
    <3>1. u.id \in v.after /\ u.after \subseteq v.after /\ u # V
      BY <1>2, <1>4, <1>6, <2>3 DEF Before
    <3>2. (u = T \/ T.id \in u.after) => T.id \in v.after
      BY <3>1
    <3>3. QED
      BY <1>1, <2>2, <3>1, <3>2
  <2>4. \A u \in ups : K[u] \in Nat
    BY <2>2
  <2>5. Classes(ups, C, K)
    BY <1>1, <1>2, <2>3, <2>4 DEF Classes
  <2>6. Topmost(V, ups, K, "revoked", row)
    <3>1. \A y \in ups : y # V => K[y] < K[V]
      BY <2>2
    <3>2. QED
      BY <1>6, <3>1 DEF Topmost, LastFor
  <2>7. ASSUME NEW y \in ups, y # T, "token" \in DOMAIN y.sets PROVE K[y] < K[T]
    <3>1. y # V /\ T.id \notin y.after
      BY <1>6, <2>7 DEF LastFor
    <3>2. QED
      BY <2>2, <2>7, <3>1
  <2>8. Topmost(T, ups, K, "token", row)
    BY <1>6, <2>7 DEF Topmost, LastFor
  <2>9. \A x \in {"token", "revoked"} : ColumnServed(ups, K, x, row)
    BY <2>6, <2>8, Zenon DEF ColumnServed
  <2>10. QED
    BY <2>5, <2>9, ServedInOrder
<1>7. CASE Untouched("revoked", row, ups, held)
  BY <1>3, <1>7 DEF Untouched
<1>8. QED
  BY <1>5, <1>6, <1>7, Zenon DEF KeySettled

\* Whatever rotations and revocations of a key overlap, it is as if they had come one
\* after the other, none before one that had been answered when it was sent; and so is
\* each column of a project (rotate_key, revoke_key and update_project, which load the
\* row and write what they changed of their copy).
THEOREM ChangesAddUpSerially == AdminSpec => []ChangesAreSerial
<1>1. ChangeInv => ChangesAreSerial
  <2> SUFFICES ASSUME ChangeInv PROVE ChangesAreSerial
    OBVIOUS
  <2>1. ASSUME NEW k \in Keys, rows[k] # Absent PROVE Serial(k, {"token", "revoked"})
    <3>1. PICK row, ups, held : row = rows[k] /\ ups = updates[k] /\ held = Held(k, req)
      OBVIOUS
    <3>2. Fine(k, row, ups, held)
      BY <3>1, AdministeredRows DEF ChangeInv, InSeries
    <3>3. /\ Ordered(ups, held) /\ Settled(k, row, ups, held)
          /\ \A u \in ups : SetsOk(k, u.id, u.sets)
      BY <2>1, <3>1, <3>2 DEF Fine
    <3>4. KeySettled(row, ups, held)
      BY <2>1, <3>3 DEF Settled
    <3>5. \A u \in ups : "revoked" \in DOMAIN u.sets
      BY <2>1, <3>3 DEF SetsOk, Rotation, Revocation
    <3>6. \E f \in Orders(ups) : Leaves(f, {"token", "revoked"}, row)
      BY <3>3, <3>4, <3>5, KeyIsSerial
    <3>7. QED
      BY <3>1, <3>6 DEF Serial
  <2>2. ASSUME NEW p \in Projects, NEW col \in {"name", "local"}, rows[p] # Absent
        PROVE  Serial(p, {col})
    <3>1. PICK row, ups, held : row = rows[p] /\ ups = updates[p] /\ held = Held(p, req)
      OBVIOUS
    <3>2. Fine(p, row, ups, held)
      BY <3>1, AdministeredRows DEF ChangeInv, InSeries
    <3>3. Ordered(ups, held) /\ Settled(p, row, ups, held)
      BY <2>2, <3>1, <3>2 DEF Fine
    <3>4. ColumnSettled(col, row, ups, held)
      BY <2>2, <3>3, AdministeredRows DEF Settled, Columns
    <3>5. \E f \in Orders(ups) : Leaves(f, {col}, row)
      BY <3>3, <3>4, ColumnIsSerial
    <3>6. QED
      BY <3>1, <3>5 DEF Serial
  <2>3. QED
    BY <2>1, <2>2 DEF ChangesAreSerial
<1>2. QED
  BY <1>1, ChangeInvariance, PTL

(* The spend dashboard                                                     *)

\* Whatever records are grouped by, the groups add up to all of them: each record
\* is in the group of its value and in no other.
LEMMA GroupsAddUp ==
  ASSUME NEW R, IsFiniteSet(R), NEW key
  PROVE  Calls(Grouped(R, key)) = Cardinality(R)
<1> DEFINE G == {r[key] : r \in R}
           Of(g) == {r \in R : r[key] = g}
           size(g) == Cardinality(Of(g))
           U == UNION {{g} \X (1 .. size(g)) : g \in G}
           b == [g \in G |-> CHOOSE f : f \in Bijection(1 .. size(g), Of(g))]
           F == [p \in U |-> b[p[1]][p[2]]]
<1>1. ASSUME NEW g \in G
      PROVE  b[g] \in Bijection(1 .. size(g), Of(g))
  <2>1. Of(g) \in SUBSET R
    OBVIOUS
  <2>2. IsFiniteSet(Of(g))
    BY <2>1, FS_Subset
  <2>3. ExistsBijection(1 .. size(g), Of(g))
    <3> HIDE DEF Of
    <3>1. QED
      BY <2>2, FS_CardinalityType
  <2>4. \E f : f \in Bijection(1 .. size(g), Of(g))
    BY <2>3 DEF ExistsBijection
  <2>5. b[g] = CHOOSE f : f \in Bijection(1 .. size(g), Of(g))
    OBVIOUS
  <2>6. QED
    BY <2>4, <2>5
<1>2. Calls(Grouped(R, key)) = Cardinality(U)
  <2>1. DOMAIN Grouped(R, key) = G /\ \A g \in G : Grouped(R, key)[g] = size(g)
    BY DEF Grouped
  <2>2. UNION {{g} \X (1 .. Grouped(R, key)[g]) : g \in DOMAIN Grouped(R, key)} = U
    <3> HIDE DEF size, G
    <3>1. QED
      BY <2>1
  <2>3. QED
    BY <2>2 DEF Calls
<1>3. \A p : p \in U <=> \E g \in G : \E n \in 1 .. size(g) : p = <<g, n>>
  <2> HIDE DEF size, G
  <2>1. QED
    OBVIOUS
<1>4. \A p \in U : F[p] = b[p[1]][p[2]]
  OBVIOUS
<1>5. F = [p \in U |-> F[p]]
  <2> HIDE DEF U, b, size, Of, G
  <2>1. QED
    OBVIOUS
<1>6. \A g, r : r \in Of(g) <=> (r \in R /\ r[key] = g)
  OBVIOUS
<1>7. \A r \in R : r[key] \in G
  OBVIOUS
<1> HIDE DEF F, U, b, size, Of, G
<1>8. ASSUME NEW g, NEW n, g \in G, n \in 1 .. size(g)
      PROVE  F[<<g, n>>] = b[g][n] /\ F[<<g, n>>] \in R /\ F[<<g, n>>][key] = g
  <2>1. <<g, n>> \in U
    BY <1>3, <1>8
  <2>2. F[<<g, n>>] = b[g][n]
    BY <1>4, <2>1
  <2>3. b[g] \in [1 .. size(g) -> Of(g)]
    BY <1>1, <1>8 DEF Bijection, Injection
  <2>4. b[g][n] \in Of(g)
    BY <1>8, <2>3
  <2>5. QED
    BY <1>6, <2>2, <2>4
<1>9. F \in [U -> R]
  BY <1>3, <1>5, <1>8
<1>10. ASSUME NEW p \in U, NEW q \in U, F[p] = F[q] PROVE p = q
  <2>1. PICK g, n : g \in G /\ n \in 1 .. size(g) /\ p = <<g, n>>
    BY <1>3
  <2>2. PICK h, m : h \in G /\ m \in 1 .. size(h) /\ q = <<h, m>>
    BY <1>3
  <2>3. g = h
    BY <1>8, <1>10, <2>1, <2>2
  <2>4. b[g] \in Injection(1 .. size(g), Of(g))
    BY <1>1, <2>1 DEF Bijection
  <2>5. b[g][n] = b[g][m]
    BY <1>8, <1>10, <2>1, <2>2, <2>3
  <2>6. n = m
    BY <2>1, <2>2, <2>3, <2>4, <2>5 DEF Injection, IsInjective
  <2>7. QED
    BY <2>1, <2>2, <2>3, <2>6
<1>11. ASSUME NEW r \in R PROVE \E p \in U : F[p] = r
  <2>1. PICK g \in G : g = r[key]
    BY <1>7
  <2>2. b[g] \in Surjection(1 .. size(g), Of(g))
    BY <1>1 DEF Bijection
  <2>3. PICK n \in 1 .. size(g) : b[g][n] = r
    BY <1>6, <2>1, <2>2 DEF Surjection
  <2>4. <<g, n>> \in U
    BY <1>3
  <2>5. F[<<g, n>>] = r
    BY <1>8, <2>3
  <2>6. QED
    BY <2>4, <2>5
<1>12. F \in Bijection(U, R)
  BY <1>9, <1>10, <1>11, Fun_IsBij
<1>13. ExistsBijection(R, U)
  <2>1. ExistsBijection(U, R)
    BY <1>12 DEF ExistsBijection
  <2>2. QED
    BY <2>1, Fun_ExistsBijSymmetric
<1>14. Cardinality(U) = Cardinality(R)
  BY <1>13, FS_Bijection
<1>15. QED
  BY <1>2, <1>14

\* Between two breakdowns records only come: each counts as many as were there then.
Reads == {"none", "project", "model", "date", "done"}

Counted(d) ==
    LET all == Cardinality(Matching(d.filter))
    IN  /\ IsFiniteSet(d.before) /\ d.before \subseteq Matching(d.filter)
        /\ {"step", "filter", "before"} \subseteq DOMAIN d
        /\ d.step # "project" =>
              /\ "project" \in DOMAIN d /\ Calls(d.project) \in Nat
              /\ Cardinality(d.before) <= Calls(d.project) /\ Calls(d.project) <= all
        /\ d.step \in {"date", "done"} =>
              /\ "model" \in DOMAIN d /\ Calls(d.model) \in Nat
              /\ Calls(d.project) <= Calls(d.model) /\ Calls(d.model) <= all
        /\ d.step = "done" =>
              Calls(d.date) \in Nat /\ Calls(d.model) <= Calls(d.date) /\ Calls(d.date) <= all

SpendInv ==
    /\ IsFiniteSet(spend)
    /\ dashboard.step \in Reads
    /\ dashboard.step # "none" => Counted(dashboard)

LEMMA MatchingFinite ==
  ASSUME IsFiniteSet(spend), NEW project
  PROVE  IsFiniteSet(Matching(project)) /\ Cardinality(Matching(project)) \in Nat
<1>1. Matching(project) \in SUBSET spend
  BY DEF Matching
<1>2. QED
  BY <1>1, FS_Subset, FS_CardinalityType

LEMMA SpendStarts == SpendInit => SpendInv
<1>1. QED
  BY FS_EmptySet DEF SpendInit, SpendInv, Nothing, Reads

LEMMA RecordSpendKeeps ==
  ASSUME SpendInv, RecordSpend
  PROVE  SpendInv'
<1>1. PICK r : spend' = spend \cup {r}
  BY DEF RecordSpend
<1>2. IsFiniteSet(spend) /\ dashboard' = dashboard
  BY DEF SpendInv, RecordSpend
<1>3. IsFiniteSet(spend')
  BY <1>1, <1>2, FS_AddElement
<1>4. ASSUME NEW project
      PROVE  /\ Matching(project) \subseteq Matching(project)'
             /\ Cardinality(Matching(project)) \in Nat /\ Cardinality(Matching(project)') \in Nat
             /\ Cardinality(Matching(project)) <= Cardinality(Matching(project)')
  <2>1. Matching(project) \subseteq Matching(project)' /\ Matching(project)' \subseteq spend'
    BY <1>1 DEF Matching
  <2>2. IsFiniteSet(Matching(project)')
    BY <1>3, <2>1, FS_Subset
  <2>3. Cardinality(Matching(project)) <= Cardinality(Matching(project)')
    BY <2>1, <2>2, FS_Subset
  <2>4. QED
    BY <1>2, <2>1, <2>2, <2>3, MatchingFinite, FS_CardinalityType
<1>5. ASSUME dashboard.step # "none" PROVE Counted(dashboard)'
  <2>1. Counted(dashboard) /\ dashboard.step \in Reads
    BY <1>5 DEF SpendInv
  <2>2. PICK w : w = dashboard.filter
    OBVIOUS
  <2>3. PICK a : a = Cardinality(Matching(w))
    OBVIOUS
  <2>4. PICK z : z = Cardinality(Matching(w)')
    OBVIOUS
  <2>5. a \in Nat /\ z \in Nat /\ a <= z /\ Matching(w) \subseteq Matching(w)'
    BY <1>4, <2>3, <2>4
  <2>6. w = dashboard'.filter
    BY <1>2, <2>2
  <2>7. QED
    BY <1>2, <2>1, <2>2, <2>3, <2>4, <2>5, <2>6 DEF Counted
<1>6. QED
  BY <1>2, <1>3, <1>5 DEF SpendInv

LEMMA AskDashboardKeeps ==
  ASSUME SpendInv, AskDashboard
  PROVE  SpendInv'
<1>1. PICK project : dashboard' = [step |-> "project", filter |-> project, before |-> Matching(project)]
  BY DEF AskDashboard
<1>2. spend' = spend /\ IsFiniteSet(spend)
  BY DEF AskDashboard, SpendInv
<1>3. Matching(project)' = Matching(project)
  BY <1>2 DEF Matching
<1>4. Counted(dashboard)'
  BY <1>1, <1>2, <1>3, MatchingFinite DEF Counted
<1>5. QED
  BY <1>1, <1>2, <1>4 DEF SpendInv, Reads

\* What a breakdown counts is what is there when it is read.
LEMMA ReadBreakdownKeeps ==
  ASSUME SpendInv,
         \/ ReadBreakdown("project", "model") \/ ReadBreakdown("model", "date")
         \/ ReadBreakdown("date", "done")
  PROVE  SpendInv'
<1>1. PICK key, next :
         /\ <<key, next>> \in {<<"project", "model">>, <<"model", "date">>, <<"date", "done">>}
         /\ ReadBreakdown(key, next)
  OBVIOUS
<1>2. /\ dashboard.step = key /\ spend' = spend /\ IsFiniteSet(spend)
      /\ Counted(dashboard)
  BY <1>1 DEF ReadBreakdown, SpendInv
<1>3. PICK all : all = Cardinality(Matching(dashboard.filter))
  OBVIOUS
<1>4. PICK groups : groups = Grouped(Matching(dashboard.filter), key)
  OBVIOUS
<1>5. all \in Nat /\ Calls(groups) = all /\ IsFiniteSet(Matching(dashboard.filter))
  BY <1>2, <1>3, <1>4, MatchingFinite, GroupsAddUp
<1>6. /\ DOMAIN dashboard' = DOMAIN dashboard \cup {key}
      /\ \A f \in DOMAIN dashboard \cup {key} :
            dashboard'[f] = IF f = "step" THEN next ELSE IF f = key THEN groups ELSE dashboard[f]
  BY <1>1, <1>4 DEF ReadBreakdown
<1>7. Cardinality(dashboard.before) \in Nat /\ Cardinality(dashboard.before) <= all
  BY <1>2, <1>3, <1>5, FS_Subset, FS_CardinalityType DEF Counted
<1>8. /\ "step" \in DOMAIN dashboard /\ "filter" \in DOMAIN dashboard /\ "before" \in DOMAIN dashboard
  BY <1>2 DEF Counted
<1>9. /\ dashboard'.step = next /\ dashboard'.filter = dashboard.filter
      /\ dashboard'.before = dashboard.before
  BY <1>1, <1>6, <1>8
<1>10. Matching(dashboard.filter)' = Matching(dashboard.filter)
  BY <1>2, <1>9 DEF Matching
<1>11. CASE key = "project"
  <2>1. dashboard'.project = groups /\ next = "model"
    BY <1>1, <1>6, <1>11
  <2>2. QED
    BY <1>2, <1>3, <1>5, <1>6, <1>7, <1>8, <1>9, <1>10, <2>1 DEF SpendInv, Counted, Reads
<1>12. CASE key = "model"
  <2>1. dashboard'.model = groups /\ next = "date"
    BY <1>1, <1>6, <1>12
  <2>2. dashboard'.project = dashboard.project
    BY <1>2, <1>6, <1>12 DEF Counted
  <2>3. QED
    BY <1>2, <1>3, <1>5, <1>6, <1>7, <1>8, <1>9, <1>10, <1>12, <2>1, <2>2 DEF SpendInv, Counted, Reads
<1>13. CASE key = "date"
  <2>1. dashboard'.date = groups /\ next = "done"
    BY <1>1, <1>6, <1>13
  <2>2. dashboard'.project = dashboard.project /\ dashboard'.model = dashboard.model
    BY <1>2, <1>6, <1>13 DEF Counted
  <2>3. QED
    BY <1>2, <1>3, <1>5, <1>6, <1>7, <1>8, <1>9, <1>10, <1>13, <2>1, <2>2 DEF SpendInv, Counted, Reads
<1>14. QED
  BY <1>1, <1>11, <1>12, <1>13

\* Records, requests and reads in any order keep what the breakdowns count in order.
THEOREM SpendInvariance == SpendSpec => []SpendInv
<1>1. SpendInv /\ [SpendNext]_spendVars => SpendInv'
  <2> SUFFICES ASSUME SpendInv, [SpendNext]_spendVars PROVE SpendInv'
    OBVIOUS
  <2>1. CASE SpendNext
    BY <2>1, RecordSpendKeeps, AskDashboardKeeps, ReadBreakdownKeeps DEF SpendNext
  <2>2. CASE UNCHANGED spendVars
    BY <2>2 DEF spendVars, SpendInv, Counted, Matching
  <2>3. QED
    BY <2>1, <2>2
<1>2. QED
  BY <1>1, SpendStarts, PTL DEF SpendSpec

\* The breakdowns of a dashboard differ by nothing but the records that came while
\* it was made, whatever records there are and however many come in between.
THEOREM BreakdownsDifferByLateRecordsOnly == SpendSpec => []BreakdownsDifferByLateRecords
<1>1. SpendInv => BreakdownsDifferByLateRecords
  BY DEF SpendInv, Counted, BreakdownsDifferByLateRecords
<1>2. QED
  BY <1>1, SpendInvariance, PTL
=============================================================================
