----------------------- MODULE WebhookDeliveryProofs -----------------------
(***************************************************************************)
(* What WebhookDelivery guarantees for any number of subscriptions, events *)
(* and overlapping calls of emit, and for any limits on the retries.       *)
(***************************************************************************)
EXTENDS WebhookDelivery, FiniteSetTheorems, TLAPS

(* Deliveries                                                              *)

\* What the row x, the job j and the n receipts of one event say together.
\* While an attempt is under way the row still has the number of the attempt
\* before; the outcome counts it; only then is the job published again.
EventIsTrue(x, j, n) ==
    /\ x.status = "absent" => x = NoEvent
    /\ j.pc = "none" => x.status \in {"absent", "pending"} /\ n = 0
    /\ j.pc # "none" => x.status # "absent"
    /\ x.status = "pending" => x.attempts = 0
    /\ j.pc = "queued" => x.attempts = j.retries /\ n <= j.retries
    /\ j.pc \in {"ok", "error"} => x.attempts = j.retries /\ n <= j.retries + 1
    /\ j.pc = "ok" => n > 0
    /\ j.pc \in {"raised", "done"} =>
          x.attempts = j.retries + 1 /\ n <= j.retries + 1
    /\ j.pc = "raised" =>
          x.status = IF j.retries >= FailedFrom THEN "failed" ELSE "retrying"
    /\ j.pc = "done" => x.status \in {"delivered", "failed"}
    /\ n <= x.attempts + 1
    /\ x.status = "delivered" => j.pc = "done" /\ n > 0
    /\ x.status = "failed" => x.attempts > FailedFrom

\* What a call c of emit says while it runs.
CallIsTrue(c) ==
    /\ c.todo \subseteq c.matched
    /\ \A t, u \in c.matched : t.sub = u.sub => t = u
    /\ c.pc = "dispatch" => c.event \in Event /\ c.target \in c.todo
    /\ c.pc = "done" /\ c.matched # {} => c.todo = {}

\* The inductive invariant of the deliveries.
DeliveryInv ==
    /\ TypeOK
    /\ \A e \in Event : EventIsTrue(events[e], jobs[e], received[e])
    /\ \A p \in Emission :
          /\ CallIsTrue(emits[p])
          /\ emits[p].pc = "dispatch" =>
                /\ events[emits[p].event].status = "pending"
                /\ events[emits[p].event].emission = p
                /\ jobs[emits[p].event].pc = "none"

----------------------------------------------------------------------------
(* The fan-out                                                             *)

EventsOf(p) == {e \in Event : events[e].emission = p}
Served(p)   == emits[p].matched \ emits[p].todo

\* The events of a call are those of the subscriptions it has served, and the
\* one it is about to publish.
FanOut(p) ==
    LET c    == emits[p]
        mine == EventsOf(p)
        made == IF c.pc = "dispatch" THEN mine \ {c.event} ELSE mine IN
    /\ IsFiniteSet(mine)
    /\ IsFiniteSet(Served(p))
    /\ c.pc = "idle" => mine = {}
    /\ c.pc \in {"loop", "dispatch"} \/ (c.pc = "done" /\ c.matched # {}) =>
          /\ Cardinality(made) = Cardinality(Served(p))
          /\ \A e \in made : /\ jobs[e].pc # "none"
                             /\ events[e].sub # Null =>
                                   \E t \in Served(p) : events[e].sub = t.sub
    /\ c.pc = "dispatch" => events[c.event].sub \in {Null, c.target.sub}
    /\ \A e, f \in mine :
          events[e].sub = events[f].sub /\ events[e].sub # Null => e = f
    /\ \A e \in mine : jobs[e].pc # "none" =>
          \E t \in c.matched : jobs[e].url = t.url

\* The inductive invariant of the fan-out, beside DeliveryInv.
FanOutInv == \A p \in Emission : FanOut(p)

----------------------------------------------------------------------------
(* What a step keeps                                                       *)

LEMMA RetryNumbers == MaxRetries \in Nat /\ FailedFrom \in Nat
  BY RetryAssumption

\* A call whose events keep their jobs keeps its fan-out, even when some of
\* the events lose their subscription.
LEMMA KeepsFanOut ==
  ASSUME FanOutInv, NEW p \in Emission, emits'[p] = emits[p],
         \A e \in Event :
            events'[e].emission = p <=> events[e].emission = p,
         \A e \in EventsOf(p) :
            /\ events'[e].sub \in {Null, events[e].sub}
            /\ jobs'[e].pc = "none" <=> jobs[e].pc = "none"
            /\ jobs'[e].url = jobs[e].url,
         emits[p].pc = "dispatch" => emits[p].event \in EventsOf(p)
  PROVE  FanOut(p)'
<1>1. EventsOf(p)' = EventsOf(p) /\ Served(p)' = Served(p)
  BY DEF EventsOf, Served
<1>2. FanOut(p)
  BY DEF FanOutInv
<1>3. QED
  BY <1>1, <1>2 DEF FanOut

\* A step of the delivery of one event, which has a job before and after.
LEMMA StepOfDelivery ==
  ASSUME DeliveryInv, FanOutInv, NEW e \in Event,
         NEW x \in EventRow, NEW j \in Job, NEW n \in 0..MaxRetries + 1,
         events' = [events EXCEPT ![e] = x],
         jobs' = [jobs EXCEPT ![e] = j],
         received' = [received EXCEPT ![e] = n],
         UNCHANGED <<subs, emits>>,
         jobs[e].pc # "none", j.pc # "none", j.url = jobs[e].url,
         x.sub = events[e].sub, x.emission = events[e].emission,
         EventIsTrue(x, j, n)
  PROVE  DeliveryInv' /\ FanOutInv'
<1>1. /\ events'[e] = x /\ jobs'[e] = j /\ received'[e] = n
      /\ \A f \in Event \ {e} : /\ events'[f] = events[f]
                                /\ jobs'[f] = jobs[f]
                                /\ received'[f] = received[f]
  BY DEF DeliveryInv, TypeOK
<1>2. TypeOK'
  BY DEF DeliveryInv, TypeOK
<1>3. DeliveryInv'
  BY <1>1, <1>2 DEF DeliveryInv, CallIsTrue
<1>4. ASSUME NEW p \in Emission PROVE FanOut(p)'
  <2>1. emits'[p] = emits[p]
    OBVIOUS
  <2>2. emits[p].pc = "dispatch" => emits[p].event \in EventsOf(p)
    BY DEF DeliveryInv, CallIsTrue, EventsOf
  <2>3. QED
    BY <1>1, <2>1, <2>2, KeepsFanOut DEF EventsOf
<1>5. QED
  BY <1>3, <1>4 DEF FanOutInv

LEMMA NextDeliver ==
  ASSUME DeliveryInv, FanOutInv, NEW e \in Event, Deliver(e) \/ JobLost(e)
  PROVE  DeliveryInv' /\ FanOutInv'
<1> USE RetryNumbers
<1> DEFINE x == events[e]
           j == jobs[e]
           n == received[e]
<1>1. x \in EventRow /\ j \in Job /\ n \in 0..MaxRetries + 1 /\ EventIsTrue(x, j, n)
  BY DEF DeliveryInv, TypeOK
<1>2. /\ events \in [Event -> EventRow] /\ jobs \in [Event -> Job]
      /\ received \in [Event -> 0..MaxRetries + 1]
  BY DEF DeliveryInv, TypeOK
<1>3. /\ UNCHANGED events => events' = [events EXCEPT ![e] = x]
      /\ UNCHANGED jobs => jobs' = [jobs EXCEPT ![e] = j]
      /\ UNCHANGED received => received' = [received EXCEPT ![e] = n]
  BY <1>2
<1>4. j.pc # "none"
  BY DEF Deliver, JobLost, Post, RecordDelivered, RecordFailure, Retry
\* Only the job moves on: its new place and the receipts go with the row.
<1>5. ASSUME NEW pc \in {"ok", "error", "lost", "done"},
             NEW m \in {n, n + 1},
             jobs' = [jobs EXCEPT ![e] = [j EXCEPT !.pc = pc]],
             received' = [received EXCEPT ![e] = m],
             UNCHANGED <<events, subs, emits>>,
             j.pc \in {"queued", "ok", "error", "raised"},
             pc \in {"ok", "error"} => j.pc = "queued",
             m = n + 1 => pc \in {"ok", "error"},
             pc = "ok" => m = n + 1,
             pc = "done" => j.pc = "raised" /\ j.retries >= MaxRetries
      PROVE  DeliveryInv' /\ FanOutInv'
  <2> DEFINE k == [j EXCEPT !.pc = pc]
  <2>1. /\ k \in Job /\ k.pc = pc /\ k.retries = j.retries /\ k.url = j.url
        /\ j.retries \in 0..MaxRetries
    BY <1>1 DEF Job
  <2>2. x.attempts \in Nat
    BY <1>1 DEF EventRow
  <2>3. EventIsTrue(x, k, m)
    <3> HIDE DEF x, j, k, n
    <3>1. n \in Nat /\ m \in Nat /\ (j.retries >= MaxRetries => j.retries >= FailedFrom)
      BY <1>1, <1>5, <2>1, RetryAssumption
    <3>2. QED
      BY <1>1, <1>5, <2>1, <2>2, <3>1 DEF EventIsTrue
  <2>4. m \in 0..MaxRetries + 1
    BY <1>1, <1>5, <2>1 DEF EventIsTrue
  <2>5. events' = [events EXCEPT ![e] = x] /\ jobs' = [jobs EXCEPT ![e] = k]
    BY <1>3, <1>5
  <2>6. QED
    <3> HIDE DEF k
    <3>1. QED
      BY <1>1, <1>4, <1>5, <2>1, <2>3, <2>4, <2>5, StepOfDelivery
<1>6. CASE Post(e)
  <2>1. PICK pc \in {"ok", "error"}, m \in {n, n + 1} :
          /\ pc = "ok" => m = n + 1
          /\ received' = [received EXCEPT ![e] = m]
          /\ jobs' = [jobs EXCEPT ![e] = [j EXCEPT !.pc = pc]]
    <3>1. PICK accepted, answered \in BOOLEAN :
            /\ answered => accepted
            /\ received' = [received EXCEPT ![e] = IF accepted THEN n + 1 ELSE n]
            /\ jobs' = [jobs EXCEPT ![e].pc = IF answered THEN "ok" ELSE "error"]
      BY <1>6 DEF Post
    <3>2. CASE answered
      BY <1>2, <3>1, <3>2
    <3>3. CASE ~answered
      BY <1>2, <3>1, <3>3
    <3>4. QED
      BY <3>2, <3>3
  <2>2. j.pc = "queued" /\ UNCHANGED <<events, subs, emits>>
    BY <1>6 DEF Post
  <2>3. QED
    BY <1>5, <2>1, <2>2
<1>7. CASE JobLost(e)
  <2>1. jobs' = [jobs EXCEPT ![e] = [j EXCEPT !.pc = "lost"]]
    BY <1>2, <1>7 DEF JobLost
  <2>2. /\ j.pc \in {"queued", "ok", "error", "raised"}
        /\ received' = [received EXCEPT ![e] = n]
        /\ UNCHANGED <<events, subs, emits>>
    BY <1>3, <1>7 DEF JobLost
  <2>3. n # n + 1
    BY <1>1
  <2>4. QED
    BY <1>5, <2>1, <2>2, <2>3
<1>8. CASE Retry(e) /\ ~(j.retries < MaxRetries)
  <2>1. jobs' = [jobs EXCEPT ![e] = [j EXCEPT !.pc = "done"]]
    BY <1>2, <1>8 DEF Retry
  <2>2. j.retries \in Nat /\ n # n + 1
    BY <1>1 DEF Job
  <2>3. j.retries >= MaxRetries
    BY <1>8, <2>2
  <2>4. /\ j.pc = "raised" /\ received' = [received EXCEPT ![e] = n]
        /\ UNCHANGED <<events, subs, emits>>
    BY <1>3, <1>8 DEF Retry
  <2>5. QED
    BY <1>5, <2>1, <2>2, <2>3, <2>4
<1>9. CASE Retry(e) /\ j.retries < MaxRetries
  <2> DEFINE k == [j EXCEPT !.pc = "queued", !.retries = j.retries + 1]
  <2>1. jobs' = [jobs EXCEPT ![e] = k]
    BY <1>2, <1>9 DEF Retry, Requeue
  <2>2. /\ k \in Job /\ k.pc = "queued" /\ k.retries = j.retries + 1
        /\ k.url = j.url /\ j.retries \in Nat
    <3>1. j.retries \in Nat /\ j.retries + 1 \in 0..MaxRetries
      BY <1>1, <1>9 DEF Job
    <3>2. QED
      BY <1>1, <3>1 DEF Job
  <2>3. EventIsTrue(x, k, n)
    <3>1. j.pc = "raised" /\ x.attempts \in Nat
      BY <1>1, <1>9 DEF Retry, EventRow
    <3> HIDE DEF x, j, k, n
    <3>2. QED
      BY <1>1, <2>2, <3>1 DEF EventIsTrue
  <2>4. UNCHANGED <<subs, events, received, emits>>
    BY <1>9 DEF Retry
  <2>5. QED
    <3> HIDE DEF k
    <3>1. QED
      BY <1>1, <1>3, <1>4, <2>1, <2>2, <2>3, <2>4, StepOfDelivery
\* The outcome is written into the row.
<1>10. ASSUME NEW st \in {"delivered", "failed", "retrying"},
              NEW pc \in {"done", "raised"},
              Update(e, st), jobs' = [jobs EXCEPT ![e] = [j EXCEPT !.pc = pc]],
              UNCHANGED <<subs, received, emits>>,
              IF pc = "done" THEN j.pc = "ok" /\ st = "delivered"
              ELSE /\ j.pc = "error"
                   /\ st = IF j.retries >= FailedFrom THEN "failed" ELSE "retrying"
       PROVE  DeliveryInv' /\ FanOutInv'
  <2> DEFINE k == [j EXCEPT !.pc = pc]
             y == [x EXCEPT !.status = st, !.attempts = j.retries + 1]
  <2>1. /\ k \in Job /\ k.pc = pc /\ k.retries = j.retries /\ k.url = j.url
        /\ j.retries \in 0..MaxRetries
    BY <1>1 DEF Job
  <2>2. /\ y \in EventRow /\ y.status = st /\ y.attempts = j.retries + 1
        /\ y.sub = x.sub /\ y.emission = x.emission
    <3>1. j.retries + 1 \in 0..MaxRetries + 1
      BY <2>1
    <3>2. QED
      BY <1>1, <1>10, <3>1 DEF EventRow
  <2>3. events' = [events EXCEPT ![e] = y]
    <3>1. x.status # "absent"
      BY <1>1, <1>4 DEF EventIsTrue
    <3>2. QED
      BY <1>2, <1>10, <3>1 DEF Update
  <2>4. EventIsTrue(y, k, n)
    <3> HIDE DEF x, y, j, k, n
    <3>1. n \in Nat
      BY <1>1
    <3>2. QED
      BY <1>1, <1>10, <2>1, <2>2, <3>1 DEF EventIsTrue
  <2>5. QED
    <3> HIDE DEF k, y
    <3>1. QED
      BY <1>1, <1>3, <1>4, <1>10, <2>1, <2>2, <2>3, <2>4, StepOfDelivery DEF k
<1>11. CASE RecordDelivered(e)
  <2>1. jobs' = [jobs EXCEPT ![e] = [j EXCEPT !.pc = "done"]]
    BY <1>2, <1>11 DEF RecordDelivered
  <2>2. QED
    BY <1>10, <1>11, <2>1 DEF RecordDelivered
<1>12. CASE RecordFailure(e)
  <2>1. jobs' = [jobs EXCEPT ![e] = [j EXCEPT !.pc = "raised"]]
    BY <1>2, <1>12 DEF RecordFailure
  <2>2. QED
    BY <1>10, <1>12, <2>1 DEF RecordFailure
<1>13. QED
  BY <1>6, <1>7, <1>8, <1>9, <1>11, <1>12 DEF Deliver

----------------------------------------------------------------------------
(* Emitting                                                                *)

\* A step of one call of emit that leaves the deliveries alone keeps
\* DeliveryInv if the call's new state does.
LEMMA StepOfEmit ==
  ASSUME DeliveryInv, NEW p \in Emission, NEW c \in EmitState,
         emits' = [emits EXCEPT ![p] = c], CallIsTrue(c),
         UNCHANGED <<subs, received>>,
         events' \in [Event -> EventRow], jobs' \in [Event -> Job],
         \A e \in Event : EventIsTrue(events'[e], jobs'[e], received'[e]),
         \A e \in Event :
            \/ events'[e] = events[e] /\ jobs'[e] = jobs[e]
            \/ events[e].emission \in {Null, p} /\ events[e].status # "pending"
            \/ events[e].emission = p,
         c.pc = "dispatch" => /\ events'[c.event].status = "pending"
                              /\ events'[c.event].emission = p
                              /\ jobs'[c.event].pc = "none"
  PROVE  DeliveryInv'
<1>1. emits'[p] = c /\ \A q \in Emission \ {p} : emits'[q] = emits[q]
  BY DEF DeliveryInv, TypeOK
<1>2. TypeOK'
  BY DEF DeliveryInv, TypeOK
<1>3. ASSUME NEW q \in Emission, q # p, emits[q].pc = "dispatch"
      PROVE  LET e == emits[q].event IN
             events'[e] = events[e] /\ jobs'[e] = jobs[e]
  <2>1. /\ emits[q].event \in Event /\ events[emits[q].event].emission = q
        /\ events[emits[q].event].status = "pending"
    BY <1>3 DEF DeliveryInv, CallIsTrue
  <2>2. QED
    BY <1>3, <2>1
<1>4. \A q \in Emission :
          /\ CallIsTrue(emits'[q])
          /\ emits'[q].pc = "dispatch" =>
                /\ events'[emits'[q].event].status = "pending"
                /\ events'[emits'[q].event].emission = q
                /\ jobs'[emits'[q].event].pc = "none"
  BY <1>1, <1>3 DEF DeliveryInv
<1>5. QED
  BY <1>2, <1>4 DEF DeliveryInv

\* The query returns each subscription once.
LEMMA NextEmitStart ==
  ASSUME DeliveryInv, FanOutInv, NEW p \in Emission, NEW M,
         M \subseteq Target, \A t, u \in M : t.sub = u.sub => t = u,
         emits[p].pc = "idle",
         emits' = [emits EXCEPT ![p] = [IdleEmit EXCEPT !.pc = "loop",
                                             !.todo = M, !.matched = M]],
         UNCHANGED <<subs, events, jobs, received>>
  PROVE  DeliveryInv' /\ FanOutInv'
<1> DEFINE c == [IdleEmit EXCEPT !.pc = "loop", !.todo = M, !.matched = M]
<1>1. c \in EmitState /\ c.pc = "loop" /\ c.todo = M /\ c.matched = M
  BY DEF EmitState, IdleEmit
<1>2. CallIsTrue(c)
  <2> HIDE DEF c
  <2>1. QED
    BY <1>1 DEF CallIsTrue
<1>3. emits' = [emits EXCEPT ![p] = c]
  OBVIOUS
<1> HIDE DEF c
<1>4. emits'[p] = c /\ \A q \in Emission \ {p} : emits'[q] = emits[q]
  BY <1>3 DEF DeliveryInv, TypeOK
<1>5. DeliveryInv'
  <2>1. /\ events' \in [Event -> EventRow] /\ jobs' \in [Event -> Job]
        /\ \A e \in Event : EventIsTrue(events'[e], jobs'[e], received'[e])
    BY DEF DeliveryInv, TypeOK
  <2>2. QED
    BY <1>1, <1>2, <1>3, <2>1, StepOfEmit
<1>6. FanOut(p)'
  <2>1. EventsOf(p)' = {} /\ Served(p)' = {}
    BY <1>1, <1>4 DEF FanOutInv, FanOut, EventsOf, Served
  <2>2. QED
    BY <1>1, <1>4, <2>1, FS_EmptySet DEF FanOut
<1>7. ASSUME NEW q \in Emission, q # p PROVE FanOut(q)'
  BY <1>4, <1>7, KeepsFanOut DEF DeliveryInv, CallIsTrue, EventsOf
<1>8. QED
  BY <1>5, <1>6, <1>7 DEF FanOutInv

\* A new event belongs to its call only and has no job yet.
LEMMA NewEventIsNew ==
  ASSUME DeliveryInv, NEW p \in Emission, NEW s \in Sub \cup {Null},
         NEW e \in Event, NewEvent(p, s, e), UNCHANGED <<jobs, received>>
  PROVE  /\ events' \in [Event -> EventRow]
         /\ events'[e].status = "pending" /\ events'[e].sub = s
         /\ events'[e].emission = p
         /\ events[e].emission = Null /\ events[e].status = "absent"
         /\ jobs[e].pc = "none"
         /\ \A f \in Event \ {e} : events'[f] = events[f]
         /\ \A f \in Event : EventIsTrue(events'[f], jobs'[f], received'[f])
<1> DEFINE x == [status |-> "pending", attempts |-> 0, sub |-> s,
                 emission |-> p]
<1>1. x \in EventRow
  BY RetryNumbers DEF EventRow
<1>2. events' = [events EXCEPT ![e] = x] /\ events[e].status = "absent"
  BY DEF NewEvent
<1>3. events'[e] = x /\ \A f \in Event \ {e} : events'[f] = events[f]
  BY <1>2 DEF DeliveryInv, TypeOK
<1>4. events' \in [Event -> EventRow]
  BY <1>1, <1>2 DEF DeliveryInv, TypeOK
<1>5. /\ jobs[e].pc = "none" /\ received[e] = 0
      /\ events[e] = NoEvent
  BY <1>2 DEF DeliveryInv, EventIsTrue
<1>6. EventIsTrue(x, jobs[e], received[e])
  BY <1>5 DEF EventIsTrue
<1>7. \A f \in Event : EventIsTrue(events'[f], jobs'[f], received'[f])
  <2> HIDE DEF x
  <2>1. QED
    BY <1>3, <1>6 DEF DeliveryInv
<1>8. QED
  BY <1>2, <1>3, <1>4, <1>5, <1>7 DEF NoEvent

LEMMA NextEmitUnmatched ==
  ASSUME DeliveryInv, FanOutInv, NEW p \in Emission, NEW e \in Event,
         EmitUnmatched(p, e)
  PROVE  DeliveryInv' /\ FanOutInv'
<1> USE NullAssumption
<1> DEFINE c == [emits[p] EXCEPT !.pc = "done"]
<1>1. /\ emits[p] \in EmitState /\ CallIsTrue(emits[p])
      /\ emits[p].pc = "loop" /\ emits[p].matched = {}
      /\ emits' = [emits EXCEPT ![p] = c] /\ UNCHANGED <<subs, jobs, received>>
  BY DEF EmitUnmatched, DeliveryInv, TypeOK
<1>2. /\ c \in EmitState /\ c.pc = "done" /\ c.matched = {}
      /\ c.todo = emits[p].todo
  BY <1>1 DEF EmitState
<1> HIDE DEF c
<1>3. emits'[p] = c /\ \A q \in Emission \ {p} : emits'[q] = emits[q]
  BY <1>1 DEF DeliveryInv, TypeOK
<1>4. /\ events' \in [Event -> EventRow]
      /\ events'[e].status = "pending" /\ events'[e].sub = Null
      /\ events'[e].emission = p
      /\ events[e].emission = Null /\ events[e].status = "absent"
      /\ jobs[e].pc = "none"
      /\ \A f \in Event \ {e} : events'[f] = events[f]
      /\ \A f \in Event : EventIsTrue(events'[f], jobs'[f], received'[f])
  BY <1>1, NewEventIsNew DEF EmitUnmatched
<1>5. DeliveryInv'
  <2>1. CallIsTrue(c)
    BY <1>1, <1>2 DEF CallIsTrue
  <2>2. jobs' \in [Event -> Job]
    BY <1>1 DEF DeliveryInv, TypeOK
  <2>3. QED
    BY <1>1, <1>2, <1>4, <2>1, <2>2, StepOfEmit
<1>6. FanOut(p)'
  <2>1. EventsOf(p)' = EventsOf(p) \cup {e} /\ Served(p)' = Served(p)
    BY <1>1, <1>2, <1>3, <1>4 DEF EventsOf, Served
  <2>2. FanOut(p)
    BY DEF FanOutInv
  <2>3. IsFiniteSet(EventsOf(p)')
    BY <2>1, <2>2, FS_AddElement DEF FanOut
  <2>4. QED
    BY <1>1, <1>2, <1>3, <1>4, <2>1, <2>2, <2>3 DEF FanOut, EventsOf
<1>7. ASSUME NEW q \in Emission, q # p PROVE FanOut(q)'
  <2>1. q # Null
    OBVIOUS
  <2>2. QED
    BY <1>1, <1>3, <1>4, <1>7, <2>1, KeepsFanOut
       DEF DeliveryInv, CallIsTrue, EventsOf
<1>8. QED
  BY <1>5, <1>6, <1>7 DEF FanOutInv

LEMMA NextEmitCreate ==
  ASSUME DeliveryInv, FanOutInv, NEW p \in Emission,
         NEW t \in emits[p].matched, NEW e \in Event, EmitCreate(p, t, e)
  PROVE  DeliveryInv' /\ FanOutInv'
<1> USE NullAssumption
<1> DEFINE c == [emits[p] EXCEPT !.pc = "dispatch", !.target = t, !.event = e]
<1>1. /\ emits[p] \in EmitState /\ CallIsTrue(emits[p])
      /\ emits[p].pc = "loop" /\ t \in emits[p].todo /\ t \in Target
      /\ emits' = [emits EXCEPT ![p] = c] /\ UNCHANGED <<subs, jobs, received>>
  BY DEF EmitCreate, CreateFor, DeliveryInv, TypeOK, EmitState
<1>2. /\ c \in EmitState /\ c.pc = "dispatch" /\ c.matched = emits[p].matched
      /\ c.todo = emits[p].todo /\ c.target = t /\ c.event = e
  BY <1>1 DEF EmitState
<1> HIDE DEF c
<1>3. emits'[p] = c /\ \A q \in Emission \ {p} : emits'[q] = emits[q]
  BY <1>1 DEF DeliveryInv, TypeOK
<1>4. /\ events' \in [Event -> EventRow]
      /\ events'[e].status = "pending" /\ events'[e].sub = t.sub
      /\ events'[e].emission = p
      /\ events[e].emission = Null /\ events[e].status = "absent"
      /\ jobs[e].pc = "none"
      /\ \A f \in Event \ {e} : events'[f] = events[f]
      /\ \A f \in Event : EventIsTrue(events'[f], jobs'[f], received'[f])
  <2>1. t.sub \in Sub \cup {Null}
    BY <1>1 DEF Target
  <2>2. QED
    BY <1>1, <2>1, NewEventIsNew DEF EmitCreate, CreateFor
<1>5. DeliveryInv'
  <2>1. CallIsTrue(c)
    BY <1>1, <1>2 DEF CallIsTrue
  <2>2. jobs' \in [Event -> Job]
    BY <1>1 DEF DeliveryInv, TypeOK
  <2>3. QED
    BY <1>1, <1>2, <1>4, <2>1, <2>2, StepOfEmit
<1>6. FanOut(p)'
  <2>1. EventsOf(p)' = EventsOf(p) \cup {e} /\ Served(p)' = Served(p)
    BY <1>1, <1>2, <1>3, <1>4 DEF EventsOf, Served
  <2>2. FanOut(p)
    BY DEF FanOutInv
  <2>3. IsFiniteSet(EventsOf(p)')
    BY <2>1, <2>2, FS_AddElement DEF FanOut
  <2>4. e \notin EventsOf(p) /\ EventsOf(p)' \ {e} = EventsOf(p)
    BY <1>4, <2>1 DEF EventsOf
  <2>5. \A f \in EventsOf(p) : events'[f] = events[f]
    BY <1>4, <2>4 DEF EventsOf
  \* What was served before has another subscription than t.
  <2>6. \A f \in EventsOf(p) : events[f].sub # Null => events[f].sub # t.sub
    <3>1. \A u \in Served(p) : u.sub # t.sub
      BY <1>1 DEF CallIsTrue, Served
    <3>2. QED
      BY <1>1, <2>2, <3>1 DEF FanOut
  <2>7. \A f, g \in EventsOf(p)' :
           events'[f].sub = events'[g].sub /\ events'[f].sub # Null => f = g
    BY <1>4, <2>1, <2>2, <2>5, <2>6 DEF FanOut
  <2>8. /\ Cardinality(EventsOf(p)) = Cardinality(Served(p))
        /\ \A f \in EventsOf(p) :
              /\ jobs[f].pc # "none"
              /\ events[f].sub # Null => \E u \in Served(p) : events[f].sub = u.sub
    BY <1>1, <2>2 DEF FanOut
  <2>9. \A f \in EventsOf(p)' : jobs'[f].pc # "none" =>
           \E u \in emits'[p].matched : jobs'[f].url = u.url
    BY <1>1, <1>2, <1>3, <1>4, <2>1, <2>2 DEF FanOut
  <2>10. \A f \in EventsOf(p) :
           /\ jobs'[f].pc # "none"
           /\ events'[f].sub # Null =>
                 \E u \in Served(p)' : events'[f].sub = u.sub
    BY <1>1, <2>1, <2>5, <2>8
  <2>11. IsFiniteSet(Served(p)')
         /\ Cardinality(EventsOf(p)) = Cardinality(Served(p)')
    BY <2>1, <2>2, <2>8 DEF FanOut
  <2>12. /\ emits'[p].pc = "dispatch" /\ emits'[p].event = e
         /\ emits'[p].target = t
    BY <1>2, <1>3
  <2>13. QED
    BY ZenonT(30), <1>4, <2>3, <2>4, <2>7, <2>9, <2>10, <2>11, <2>12 DEF FanOut
<1>7. ASSUME NEW q \in Emission, q # p PROVE FanOut(q)'
  <2>1. q # Null
    OBVIOUS
  <2>2. QED
    BY <1>1, <1>3, <1>4, <1>7, <2>1, KeepsFanOut
       DEF DeliveryInv, CallIsTrue, EventsOf
<1>8. QED
  BY <1>5, <1>6, <1>7 DEF FanOutInv

LEMMA NextEmitDispatch ==
  ASSUME DeliveryInv, FanOutInv, NEW p \in Emission, EmitDispatch(p)
  PROVE  DeliveryInv' /\ FanOutInv'
<1> USE NullAssumption
<1>1. PICK t \in Target, e \in Event :
        /\ t = emits[p].target /\ e = emits[p].event /\ t \in emits[p].todo
        /\ events[e].status = "pending" /\ events[e].emission = p
        /\ jobs[e].pc = "none"
  <2>1. emits[p] \in EmitState /\ emits[p].pc = "dispatch"
    BY DEF EmitDispatch, DeliveryInv, TypeOK
  <2>2. CallIsTrue(emits[p])
    BY DEF DeliveryInv
  <2>3. emits[p].target \in Target /\ emits[p].event \in Event
    BY <2>1, <2>2 DEF CallIsTrue, EmitState
  <2>4. QED
    BY <2>1, <2>2, <2>3 DEF DeliveryInv, CallIsTrue
<1> DEFINE rest == emits[p].todo \ {t}
           c == [emits[p] EXCEPT !.pc = IF rest = {} THEN "done" ELSE "loop",
                                 !.todo = rest, !.target = Null, !.event = Null]
           j == [pc |-> "queued", retries |-> 0, url |-> t.url]
<1>2. /\ emits[p] \in EmitState /\ CallIsTrue(emits[p])
      /\ emits[p].pc = "dispatch"
      /\ emits' = [emits EXCEPT ![p] = c]
      /\ jobs' = [jobs EXCEPT ![e] = j]
      /\ UNCHANGED <<subs, events, received>>
  BY <1>1 DEF EmitDispatch, Publish, DeliveryInv, TypeOK
<1>3. /\ c \in EmitState /\ c.matched = emits[p].matched /\ c.todo = rest
      /\ c.pc = IF rest = {} THEN "done" ELSE "loop"
  BY <1>2 DEF EmitState
<1>4. j \in Job /\ j.pc = "queued" /\ j.retries = 0 /\ j.url = t.url
  BY RetryNumbers DEF Job, Target
<1> HIDE DEF c, j
<1>5. emits'[p] = c /\ \A q \in Emission \ {p} : emits'[q] = emits[q]
  BY <1>2 DEF DeliveryInv, TypeOK
<1>6. /\ jobs'[e] = j /\ \A f \in Event \ {e} : jobs'[f] = jobs[f]
      /\ jobs' \in [Event -> Job]
  BY <1>2, <1>4 DEF DeliveryInv, TypeOK
<1>7. DeliveryInv'
  <2>1. CallIsTrue(c)
    BY <1>2, <1>3 DEF CallIsTrue
  <2>2. EventIsTrue(events[e], j, received[e])
    BY <1>1, <1>4 DEF DeliveryInv, EventIsTrue
  <2>3. \A f \in Event : EventIsTrue(events'[f], jobs'[f], received'[f])
    BY <1>2, <1>6, <2>2 DEF DeliveryInv
  <2>4. events' \in [Event -> EventRow]
    BY <1>2 DEF DeliveryInv, TypeOK
  <2>5. c.pc # "dispatch"
    BY <1>3
  <2>6. QED
    BY ZenonT(30), <1>1, <1>2, <1>3, <1>6, <2>1, <2>3, <2>4, <2>5, StepOfEmit
<1>8. FanOut(p)'
  <2> DEFINE mine == EventsOf(p)
  <2>1. FanOut(p) /\ e \in mine /\ EventsOf(p)' = mine
    BY <1>1, <1>2 DEF FanOutInv, EventsOf
  <2>2. /\ IsFiniteSet(mine) /\ IsFiniteSet(Served(p))
        /\ Cardinality(mine \ {e}) = Cardinality(Served(p))
        /\ \A f \in mine \ {e} :
              /\ jobs[f].pc # "none"
              /\ events[f].sub # Null => \E u \in Served(p) : events[f].sub = u.sub
        /\ events[e].sub \in {Null, t.sub}
    BY <1>1, <1>2, <2>1 DEF FanOut
  <2>3. Served(p)' = Served(p) \cup {t} /\ t \notin Served(p)
    BY <1>1, <1>2, <1>3, <1>5 DEF Served, CallIsTrue
  <2>4. /\ IsFiniteSet(Served(p)')
        /\ Cardinality(Served(p)') = Cardinality(Served(p)) + 1
    BY <2>2, <2>3, FS_AddElement
  <2>5. Cardinality(mine) = Cardinality(mine \ {e}) + 1
    <3>1. IsFiniteSet(mine \ {e}) /\ mine = (mine \ {e}) \cup {e}
      BY <2>1, <2>2, FS_RemoveElement
    <3>2. QED
      BY <3>1, FS_AddElement
  <2>6. Cardinality(mine) = Cardinality(Served(p)')
    BY <2>2, <2>4, <2>5
  <2>7. \A f \in mine :
           /\ jobs'[f].pc # "none"
           /\ events'[f].sub # Null => \E u \in Served(p)' : events'[f].sub = u.sub
    BY <1>2, <1>4, <1>6, <2>2, <2>3 DEF EventsOf
  <2>8. \A f, g \in mine :
           events'[f].sub = events'[g].sub /\ events'[f].sub # Null => f = g
    BY <1>2, <2>1 DEF FanOut
  <2>9. \A f \in mine : \E u \in emits'[p].matched : jobs'[f].url = u.url
    <3>1. t \in emits'[p].matched /\ emits'[p].matched = emits[p].matched
      BY <1>1, <1>2, <1>3, <1>5 DEF CallIsTrue
    <3>2. QED
      BY <1>4, <1>6, <2>1, <2>2, <3>1 DEF FanOut, EventsOf
  <2>10. emits'[p].pc \in {"loop", "done"}
    BY <1>3, <1>5
  <2> HIDE DEF mine
  <2>11. QED
    BY <2>1, <2>2, <2>4, <2>6, <2>7, <2>8, <2>9, <2>10 DEF FanOut
<1>9. ASSUME NEW q \in Emission, q # p PROVE FanOut(q)'
  <2>1. \A f \in EventsOf(q) : f # e
    BY <1>1, <1>9 DEF EventsOf
  <2>2. emits[q].pc = "dispatch" => emits[q].event \in EventsOf(q)
    BY DEF DeliveryInv, CallIsTrue, EventsOf
  <2>3. QED
    BY <1>2, <1>5, <1>6, <1>9, <2>1, <2>2, KeepsFanOut DEF EventsOf
<1>10. QED
  BY <1>7, <1>8, <1>9 DEF FanOutInv

LEMMA NextEmitBreaks ==
  ASSUME DeliveryInv, FanOutInv, NEW p \in Emission, EmitBreaks(p)
  PROVE  DeliveryInv' /\ FanOutInv'
<1> DEFINE c == [emits[p] EXCEPT !.pc = "broken"]
<1>1. /\ emits[p] \in EmitState /\ CallIsTrue(emits[p])
      /\ emits' = [emits EXCEPT ![p] = c]
      /\ UNCHANGED <<subs, events, jobs, received>>
  BY DEF EmitBreaks, DeliveryInv, TypeOK
<1>2. /\ c \in EmitState /\ c.pc = "broken" /\ c.matched = emits[p].matched
      /\ c.todo = emits[p].todo
  BY <1>1 DEF EmitState
<1> HIDE DEF c
<1>3. emits'[p] = c /\ \A q \in Emission \ {p} : emits'[q] = emits[q]
  BY <1>1 DEF DeliveryInv, TypeOK
<1>4. DeliveryInv'
  <2>1. CallIsTrue(c)
    BY <1>1, <1>2 DEF CallIsTrue
  <2>2. /\ events' \in [Event -> EventRow] /\ jobs' \in [Event -> Job]
        /\ \A e \in Event : EventIsTrue(events'[e], jobs'[e], received'[e])
    BY <1>1 DEF DeliveryInv, TypeOK
  <2>3. QED
    BY <1>1, <1>2, <2>1, <2>2, StepOfEmit
<1>5. FanOut(p)'
  <2>1. EventsOf(p)' = EventsOf(p) /\ Served(p)' = Served(p)
    BY <1>1, <1>2, <1>3 DEF EventsOf, Served
  <2>2. FanOut(p)
    BY DEF FanOutInv
  <2>3. QED
    BY <1>1, <1>2, <1>3, <2>1, <2>2 DEF FanOut
<1>6. ASSUME NEW q \in Emission, q # p PROVE FanOut(q)'
  BY <1>1, <1>3, <1>6, KeepsFanOut DEF DeliveryInv, CallIsTrue, EventsOf
<1>7. QED
  BY <1>4, <1>5, <1>6 DEF FanOutInv

\* DELETE takes the subscription out of the rows and nothing else.
LEMMA NextDelete ==
  ASSUME DeliveryInv, FanOutInv, NEW s \in Sub, DeleteSubscription(s)
  PROVE  DeliveryInv' /\ FanOutInv'
<1>1. /\ subs' = [subs EXCEPT ![s] = Absent]
      /\ UNCHANGED <<jobs, received, emits>>
  BY DEF DeleteSubscription
<1>2. \A e \in Event : events'[e] \in {events[e], [events[e] EXCEPT !.sub = Null]}
  BY DEF DeleteSubscription
<1>3. \A e \in Event :
        /\ events'[e] \in EventRow
        /\ events'[e].status = events[e].status
        /\ events'[e].attempts = events[e].attempts
        /\ events'[e].emission = events[e].emission
        /\ events'[e].sub \in {Null, events[e].sub}
        /\ events[e] = NoEvent => events'[e] = NoEvent
  <2> SUFFICES ASSUME NEW e \in Event
               PROVE  /\ events'[e] \in EventRow
                      /\ events'[e].status = events[e].status
                      /\ events'[e].attempts = events[e].attempts
                      /\ events'[e].emission = events[e].emission
                      /\ events'[e].sub \in {Null, events[e].sub}
                      /\ events[e] = NoEvent => events'[e] = NoEvent
    OBVIOUS
  <2>1. events[e] \in EventRow
    BY DEF DeliveryInv, TypeOK
  <2>2. CASE events'[e] = events[e]
    BY <2>1, <2>2
  <2>3. CASE events'[e] = [events[e] EXCEPT !.sub = Null]
    BY <2>1, <2>3 DEF EventRow, NoEvent
  <2>4. QED
    BY <1>2, <2>2, <2>3
<1>4. TypeOK'
  <2>1. events' \in [Event -> EventRow]
    BY <1>3 DEF DeleteSubscription
  <2>2. QED
    BY <1>1, <2>1 DEF DeliveryInv, TypeOK
<1>5. \A e \in Event : EventIsTrue(events'[e], jobs'[e], received'[e])
  BY <1>1, <1>3 DEF DeliveryInv, EventIsTrue
<1>6. DeliveryInv'
  BY <1>1, <1>3, <1>4, <1>5 DEF DeliveryInv, CallIsTrue
<1>7. ASSUME NEW p \in Emission PROVE FanOut(p)'
  BY <1>1, <1>3, KeepsFanOut DEF DeliveryInv, CallIsTrue, EventsOf
<1>8. QED
  BY <1>6, <1>7 DEF FanOutInv

----------------------------------------------------------------------------
LEMMA NextWebhooks ==
  DeliveryInv /\ FanOutInv /\ [Next]_vars => DeliveryInv' /\ FanOutInv'
<1> SUFFICES ASSUME DeliveryInv, FanOutInv, [Next]_vars
             PROVE  DeliveryInv' /\ FanOutInv'
  OBVIOUS
\* A step that changes no more than the subscriptions.
<1>1. ASSUME UNCHANGED <<events, jobs, received, emits>>,
             subs' \in [Sub -> SubRow \cup {Absent}]
      PROVE  DeliveryInv' /\ FanOutInv'
  <2>1. DeliveryInv'
    BY <1>1 DEF DeliveryInv, TypeOK, CallIsTrue
  <2>2. ASSUME NEW p \in Emission PROVE FanOut(p)'
    BY <1>1, KeepsFanOut DEF DeliveryInv, CallIsTrue, EventsOf
  <2>3. QED
    BY <2>1, <2>2 DEF FanOutInv
<1>2. CASE UNCHANGED vars
  BY <1>1, <1>2 DEF vars, DeliveryInv, TypeOK
<1>3. ASSUME NEW s \in Sub, NEW row \in Rows, PutSubscription(s, row)
      PROVE  DeliveryInv' /\ FanOutInv'
  BY <1>1, <1>3, RowsAssumption DEF PutSubscription, DeliveryInv, TypeOK
<1>4. ASSUME NEW p \in Emission, NEW k \in Kind, NEW pr \in Project \cup {Null},
             EmitStart(p, k, pr)
      PROVE  DeliveryInv' /\ FanOutInv'
  <2> DEFINE M == {[sub |-> s, url |-> subs[s].url] :
                      s \in {x \in Sub : Matches(x, k, pr)}}
  <2>1. \A s \in Sub : Matches(s, k, pr) => subs[s].url \in Url
    BY DEF Matches, DeliveryInv, TypeOK, SubRow, Absent
  <2>2. M \subseteq Target
    BY <2>1 DEF Target
  <2>3. \A t, u \in M : t.sub = u.sub => t = u
    OBVIOUS
  <2>4. emits[p].pc = "idle" /\ UNCHANGED <<subs, events, jobs, received>>
        /\ emits' = [emits EXCEPT ![p] = [IdleEmit EXCEPT !.pc = "loop",
                                                !.todo = M, !.matched = M]]
    BY <1>4 DEF EmitStart
  <2> HIDE DEF M
  <2>5. QED
    BY <2>2, <2>3, <2>4, NextEmitStart
<1>5. ASSUME NEW p \in Emission, NEW s \in Sub, EmitTo(p, s)
      PROVE  DeliveryInv' /\ FanOutInv'
  <2> DEFINE M == {[sub |-> s, url |-> subs[s].url]}
  <2>1. subs[s].url \in Url
    BY <1>5 DEF EmitTo, DeliveryInv, TypeOK, SubRow
  <2>2. M \subseteq Target /\ \A t, u \in M : t.sub = u.sub => t = u
    BY <2>1 DEF Target
  <2>3. emits[p].pc = "idle" /\ UNCHANGED <<subs, events, jobs, received>>
        /\ emits' = [emits EXCEPT ![p] = [IdleEmit EXCEPT !.pc = "loop",
                                                !.todo = M, !.matched = M]]
    BY <1>5 DEF EmitTo
  <2> HIDE DEF M
  <2>4. QED
    BY <2>2, <2>3, NextEmitStart
<1>6. ASSUME NEW p \in Emission, Emit(p) \/ EmitBreaks(p)
      PROVE  DeliveryInv' /\ FanOutInv'
  BY <1>6, NextEmitUnmatched, NextEmitCreate, NextEmitDispatch, NextEmitBreaks
     DEF Emit
<1>7. QED
  BY <1>2, <1>3, <1>4, <1>5, <1>6, NextDelete, NextDeliver DEF Next

LEMMA InitWebhooks == Init => DeliveryInv /\ FanOutInv
<1> SUFFICES ASSUME Init PROVE DeliveryInv /\ FanOutInv
  OBVIOUS
<1>1. DeliveryInv
  BY RetryNumbers
     DEF Init, DeliveryInv, TypeOK, EventRow, NoEvent, Job, NoJob, EmitState,
         IdleEmit, EventIsTrue, CallIsTrue
<1>2. \A p \in Emission : EventsOf(p) = {} /\ Served(p) = {}
  BY NullAssumption DEF Init, EventsOf, Served, NoEvent, IdleEmit
<1>3. QED
  BY <1>1, <1>2, FS_EmptySet DEF Init, FanOutInv, FanOut, IdleEmit

THEOREM WebhookInvariance == Spec => [](DeliveryInv /\ FanOutInv)
<1>1. QED
  BY InitWebhooks, NextWebhooks, PTL DEF Spec

\* Rows, jobs and calls keep their types.
THEOREM WebhookTypes == Spec => []TypeOK
<1>1. DeliveryInv => TypeOK
  BY DEF DeliveryInv
<1>2. QED
  BY <1>1, WebhookInvariance, PTL

\* The table and the receivers agree however answers get lost and whole jobs
\* run again (workers/webhook_worker.py).
THEOREM ReceiptsAndRowsAgree == Spec => []ReceiptsMatchRows
<1>1. DeliveryInv => ReceiptsMatchRows
  BY DEF DeliveryInv, EventIsTrue, ReceiptsMatchRows, DeliveredWasAccepted,
         ReceiptsWithinAttempts
<1>2. QED
  BY <1>1, WebhookInvariance, PTL

\* A job that ran to its end leaves a settled row: the limit of the retries and
\* the retry that is called final are configured apart, and it is enough that
\* FailedFrom <= MaxRetries.
THEOREM JobsSettleTheirRows == Spec => []FinishedJobSettlesRow
<1>1. DeliveryInv => FinishedJobSettlesRow
  BY DEF DeliveryInv, EventIsTrue, FinishedJobSettlesRow
<1>2. QED
  BY <1>1, WebhookInvariance, PTL

\* A call of emit that returned made one event with one job for each
\* subscription that its query found (core/events.py).
THEOREM EmitServesEachOnce == Spec => []FanOutComplete
<1>1. ASSUME DeliveryInv, FanOutInv, NEW p \in Emission
      PROVE  /\ emits[p].pc = "done" /\ emits[p].matched # {} =>
                   /\ \A e \in EventsOf(p) : jobs[e].pc # "none"
                   /\ Cardinality(EventsOf(p)) = Cardinality(emits[p].matched)
             /\ \A e, f \in EventsOf(p) :
                   events[e].sub = events[f].sub /\ events[e].sub # Null => e = f
             /\ \A e \in EventsOf(p) : jobs[e].pc # "none" =>
                   \E t \in emits[p].matched : jobs[e].url = t.url
  <2>1. FanOut(p) /\ CallIsTrue(emits[p])
    BY <1>1 DEF FanOutInv, DeliveryInv
  <2>2. emits[p].pc = "done" /\ emits[p].matched # {} =>
           Served(p) = emits[p].matched
    BY <2>1 DEF CallIsTrue, Served
  <2>3. QED
    BY <2>1, <2>2 DEF FanOut
<1>2. DeliveryInv /\ FanOutInv => FanOutComplete
  BY <1>1 DEF FanOutComplete, EventsOf
<1>3. QED
  BY <1>2, WebhookInvariance, PTL

\* Once delivered, a row is final: no late failure of the same job and no
\* second run overwrites it.
THEOREM DeliveredRowsAreFinal == Spec => DeliveredIsFinal
<1>1. ASSUME DeliveryInv, [Next]_vars, NEW e \in Event,
             events[e].status = "delivered"
      PROVE  /\ events'[e].status = "delivered"
             /\ events'[e].attempts = events[e].attempts
  <2>1. jobs[e].pc = "done" /\ events \in [Event -> EventRow]
    BY <1>1 DEF DeliveryInv, EventIsTrue, TypeOK
  <2>2. ASSUME NEW f \in Event, Deliver(f) \/ JobLost(f)
        PROVE  events'[e] = events[e]
    BY <2>1, <2>2 DEF Deliver, JobLost, Post, RecordDelivered, RecordFailure,
                      Retry, Update
  <2>3. ASSUME NEW p \in Emission, Emit(p) \/ EmitBreaks(p)
        PROVE  events'[e] = events[e]
    BY <1>1, <2>1, <2>3 DEF Emit, EmitBreaks, EmitUnmatched, EmitCreate,
                            CreateFor, EmitDispatch, NewEvent
  <2>4. ASSUME NEW s \in Sub, DeleteSubscription(s)
        PROVE  /\ events'[e].status = "delivered"
               /\ events'[e].attempts = events[e].attempts
    <3>1. events'[e] \in {events[e], [events[e] EXCEPT !.sub = Null]}
      BY <2>4 DEF DeleteSubscription
    <3>2. events[e] \in EventRow
      BY <2>1
    <3>3. QED
      BY <1>1, <3>1, <3>2 DEF EventRow
  <2>5. QED
    BY <1>1, <2>2, <2>3, <2>4
       DEF Next, vars, PutSubscription, EmitStart, EmitTo
<1>2. DeliveryInv /\ [Next]_vars =>
        [\A e \in Event : events[e].status = "delivered" =>
           /\ events'[e].status = "delivered"
           /\ events'[e].attempts = events[e].attempts]_vars
  BY <1>1
<1>3. QED
  BY <1>2, WebhookInvariance, PTL DEF Spec, DeliveredIsFinal
=============================================================================
