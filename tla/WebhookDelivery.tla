-------------------------- MODULE WebhookDelivery --------------------------
(***************************************************************************)
(* The event bus (core/events.py), the subscriptions it reads              *)
(* (api/v1/webhooks.py) and the Celery job that posts an event to its      *)
(* receiver (workers/webhook_worker.py).                                   *)
(*                                                                         *)
(* emit reads the matching subscriptions once, then commits one event row  *)
(* and publishes one job per subscription, in the order the database       *)
(* returned them.  A job carries a copy of the subscription's URL.  Celery *)
(* acknowledges a job when a worker takes it, so a worker that dies loses  *)
(* it; an httpx error is retried, any other error is not.                  *)
(***************************************************************************)
EXTENDS Naturals, FiniteSets

CONSTANTS Sub,        \* identifiers of webhook_subscriptions rows
          Event,      \* identifiers of webhook_events rows
          Emission,   \* calls of EventBus.emit
          Url,        \* receivers
          Kind,       \* event types
          Project,    \* projects
          Null,       \* no subscription, no project, no URL
          Rows,       \* the subscription rows that requests write
          MaxRetries, \* max_retries of the Celery task; 5 in the code
          FailedFrom, \* the retry from which a failure is final; 4 in the code
          Faults      \* TRUE when workers, the database or the broker fail

SubRow == [active : BOOLEAN, kinds : SUBSET Kind, project : Project \cup {Null},
           url : Url]
Absent == [active |-> FALSE, kinds |-> {}, project |-> Null, url |-> Null]

ASSUME NullAssumption ==
    Null \notin Sub \cup Event \cup Url \cup Project \cup Emission
ASSUME RowsAssumption == Rows \subseteq SubRow /\ Faults \in BOOLEAN
ASSUME RetryAssumption ==
    MaxRetries \in Nat /\ FailedFrom \in Nat /\ FailedFrom <= MaxRetries

VARIABLES subs,      \* [Sub -> row, or Absent]
          events,    \* [Event -> row]
          jobs,      \* [Event -> the Celery job that delivers it]
          received,  \* [Event -> requests that its receiver accepted]
          emits      \* [Emission -> where the call of emit is]

vars == <<subs, events, jobs, received, emits>>

----------------------------------------------------------------------------
EventRow == [status   : {"absent", "pending", "retrying", "failed",
                         "delivered"},
             attempts : 0..MaxRetries + 1,
             sub      : Sub \cup {Null},
             emission : Emission \cup {Null}]
NoEvent == [status |-> "absent", attempts |-> 0, sub |-> Null,
            emission |-> Null]

Job == [pc : {"none", "queued", "ok", "error", "raised", "done", "lost"},
        retries : 0..MaxRetries, url : Url \cup {Null}]
NoJob == [pc |-> "none", retries |-> 0, url |-> Null]

\* A subscription as emit's query returned it; a call of emit has those it
\* matched, those still to serve, and the one it has just made an event for.
Target == [sub : Sub, url : Url]
EmitState == [pc      : {"idle", "loop", "dispatch", "done", "broken"},
              matched : SUBSET Target,
              todo    : SUBSET Target,
              target  : Target \cup {Null},
              event   : Event \cup {Null}]
IdleEmit == [pc |-> "idle", matched |-> {}, todo |-> {}, target |-> Null,
             event |-> Null]

\* Rows, jobs and calls hold values of their types.
TypeOK ==
    /\ subs \in [Sub -> SubRow \cup {Absent}]
    /\ events \in [Event -> EventRow]
    /\ jobs \in [Event -> Job]
    /\ received \in [Event -> 0..MaxRetries + 1]
    /\ emits \in [Emission -> EmitState]

Init ==
    /\ subs = [s \in Sub |-> Absent]
    /\ events = [e \in Event |-> NoEvent]
    /\ jobs = [e \in Event |-> NoJob]
    /\ received = [e \in Event |-> 0]
    /\ emits = [p \in Emission |-> IdleEmit]

----------------------------------------------------------------------------
(* Subscriptions                                                           *)

\* POST and PATCH of api/v1/webhooks.py: jobs already published keep the
\* URL they were given.
PutSubscription(s, row) ==
    /\ subs[s] # row
    /\ subs' = [subs EXCEPT ![s] = row]
    /\ UNCHANGED <<events, jobs, received, emits>>

\* DELETE: the rows of its events keep existing with a null subscription.
DeleteSubscription(s) ==
    /\ subs[s] # Absent
    /\ subs' = [subs EXCEPT ![s] = Absent]
    /\ events' = [e \in Event |-> IF events[e].sub = s
                                  THEN [events[e] EXCEPT !.sub = Null]
                                  ELSE events[e]]
    /\ UNCHANGED <<jobs, received, emits>>

----------------------------------------------------------------------------
(* Emitting                                                                *)

\* _matching_subscriptions for an event of type k of project pr.
Matches(s, k, pr) ==
    /\ subs[s].active
    /\ k \in subs[s].kinds
    /\ subs[s].project = Null \/ pr = Null \/ subs[s].project = pr

\* emit without a subscription: the query.
EmitStart(p, k, pr) ==
    LET matched == {[sub |-> s, url |-> subs[s].url] :
                      s \in {x \in Sub : Matches(x, k, pr)}} IN
    /\ emits[p].pc = "idle"
    /\ emits' = [emits EXCEPT ![p] = [IdleEmit EXCEPT !.pc = "loop",
                                        !.todo = matched, !.matched = matched]]
    /\ UNCHANGED <<subs, events, jobs, received>>

\* emit to one subscription, active or not; a missing one raises.
EmitTo(p, s) ==
    LET one == {[sub |-> s, url |-> subs[s].url]} IN
    /\ emits[p].pc = "idle"
    /\ subs[s] # Absent
    /\ emits' = [emits EXCEPT ![p] = [IdleEmit EXCEPT !.pc = "loop",
                                              !.todo = one, !.matched = one]]
    /\ UNCHANGED <<subs, events, jobs, received>>

\* _create_event commits the row; no job is published when nothing matched.
NewEvent(p, s, e) ==
    /\ events[e].status = "absent"
    /\ events' = [events EXCEPT ![e] = [status |-> "pending", attempts |-> 0,
                                        sub |-> s, emission |-> p]]

EmitUnmatched(p, e) ==
    /\ emits[p].pc = "loop"
    /\ emits[p].matched = {}
    /\ NewEvent(p, Null, e)
    /\ emits' = [emits EXCEPT ![p].pc = "done"]
    /\ UNCHANGED <<subs, jobs, received>>

\* One round of the loop, first half: the event's row is committed.  The
\* foreign key rejects it when the subscription is gone by now.
CreateFor(p, t, e) ==
    /\ emits[p].pc = "loop"
    /\ subs[t.sub] # Absent
    /\ NewEvent(p, t.sub, e)
    /\ emits' = [emits EXCEPT ![p] =
                   [@ EXCEPT !.pc = "dispatch", !.target = t, !.event = e]]
    /\ UNCHANGED <<subs, jobs, received>>

\* Mutant: a subscription that was served is served again.
EmitCreateAgain(p, t, e) == t \in emits[p].matched /\ CreateFor(p, t, e)

EmitCreate(p, t, e) == t \in emits[p].todo /\ CreateFor(p, t, e)

Publish(e, url) ==
    jobs' = [jobs EXCEPT ![e] = [pc |-> "queued", retries |-> 0, url |-> url]]

\* Second half: deliver_webhook_event.delay publishes the job with the URL
\* that was read.
EmitDispatch(p) ==
    LET t    == emits[p].target
        rest == emits[p].todo \ {t} IN
    /\ emits[p].pc = "dispatch"
    /\ Publish(emits[p].event, t.url)
    /\ emits' = [emits EXCEPT ![p] =
                   [@ EXCEPT !.pc = IF rest = {} THEN "done" ELSE "loop",
                             !.todo = rest, !.target = Null, !.event = Null]]
    /\ UNCHANGED <<subs, events, received>>

\* The insert violates the foreign key, the broker refuses the job, or the
\* process dies: the rest of the fan-out does not happen.
EmitBreaks(p) ==
    /\ \/ Faults /\ emits[p].pc \in {"loop", "dispatch"}
       \/ emits[p].pc = "loop" /\ \E t \in emits[p].todo : subs[t.sub] = Absent
    /\ emits' = [emits EXCEPT ![p].pc = "broken"]
    /\ UNCHANGED <<subs, events, jobs, received>>

----------------------------------------------------------------------------
(* Delivering                                                              *)

\* httpx.post and raise_for_status.  The receiver accepts and its answer
\* arrives; or it accepts and the answer is late or lost; or it refuses or
\* cannot be reached.
Post(e) ==
    /\ jobs[e].pc = "queued"
    /\ \E accepted, answered \in BOOLEAN :
          /\ answered => accepted
          /\ received' = [received EXCEPT ![e] = IF accepted THEN @ + 1 ELSE @]
          /\ jobs' = [jobs EXCEPT ![e].pc = IF answered THEN "ok" ELSE "error"]
    /\ UNCHANGED <<subs, events, emits>>

\* _update_event_delivery: an UPDATE, without effect when there is no row.
Update(e, status) ==
    events' = [events EXCEPT ![e] =
                 IF @.status = "absent" THEN @
                 ELSE [@ EXCEPT !.status = status,
                                !.attempts = jobs[e].retries + 1]]

\* Mutant: an outcome that timed out is recorded as delivered.
RecordAnyOutcome(e) ==
    /\ jobs[e].pc \in {"ok", "error"}
    /\ Update(e, "delivered")
    /\ jobs' = [jobs EXCEPT ![e].pc = "done"]
    /\ UNCHANGED <<subs, received, emits>>

RecordDelivered(e) ==
    /\ jobs[e].pc = "ok"
    /\ Update(e, "delivered")
    /\ jobs' = [jobs EXCEPT ![e].pc = "done"]
    /\ UNCHANGED <<subs, received, emits>>

RecordFailure(e) ==
    /\ jobs[e].pc = "error"
    /\ Update(e, IF jobs[e].retries >= FailedFrom THEN "failed" ELSE "retrying")
    /\ jobs' = [jobs EXCEPT ![e].pc = "raised"]
    /\ UNCHANGED <<subs, received, emits>>

Requeue(e) ==
    jobs' = [jobs EXCEPT ![e] = [@ EXCEPT !.pc = "queued",
                                          !.retries = jobs[e].retries + 1]]

\* Mutant: the job is published again whatever its outcome.
RetryAlways(e) ==
    /\ jobs[e].pc \in {"ok", "raised", "done"}
    /\ jobs[e].retries < MaxRetries
    /\ Requeue(e)
    /\ UNCHANGED <<subs, events, received, emits>>

\* Mutant: the retries stop before the row is marked failed.
RetryStopsEarly(e) ==
    /\ jobs[e].pc = "raised"
    /\ IF jobs[e].retries < FailedFrom - 1
          THEN Requeue(e) ELSE jobs' = [jobs EXCEPT ![e].pc = "done"]
    /\ UNCHANGED <<subs, events, received, emits>>

\* autoretry_for: the httpx error publishes the job again, up to MaxRetries.
Retry(e) ==
    /\ jobs[e].pc = "raised"
    /\ IF jobs[e].retries < MaxRetries
          THEN Requeue(e) ELSE jobs' = [jobs EXCEPT ![e].pc = "done"]
    /\ UNCHANGED <<subs, events, received, emits>>

\* The worker dies with the acknowledged job, or the UPDATE fails with an
\* error that autoretry_for does not name.
JobLost(e) ==
    /\ Faults
    /\ jobs[e].pc \in {"queued", "ok", "error", "raised"}
    /\ jobs' = [jobs EXCEPT ![e].pc = "lost"]
    /\ UNCHANGED <<subs, events, received, emits>>

----------------------------------------------------------------------------
Deliver(e) == Post(e) \/ RecordDelivered(e) \/ RecordFailure(e) \/ Retry(e)

Emit(p) ==
    \/ \E e \in Event : EmitUnmatched(p, e)
    \/ \E t \in emits[p].matched, e \in Event : EmitCreate(p, t, e)
    \/ EmitDispatch(p)

Next ==
    \/ \E s \in Sub, row \in Rows : PutSubscription(s, row)
    \/ \E s \in Sub : DeleteSubscription(s)
    \/ \E p \in Emission, k \in Kind, pr \in Project \cup {Null} :
          EmitStart(p, k, pr)
    \/ \E p \in Emission, s \in Sub : EmitTo(p, s)
    \/ \E p \in Emission : Emit(p) \/ EmitBreaks(p)
    \/ \E e \in Event : Deliver(e) \/ JobLost(e)

Spec == Init /\ [][Next]_vars

\* The workers take every job and carry on with what they took.
FairSpec == Spec /\ \A e \in Event : WF_vars(Deliver(e))

----------------------------------------------------------------------------
(* Safety                                                                  *)

\* A row says delivered only if the receiver accepted a request for it.
DeliveredWasAccepted ==
    \A e \in Event : events[e].status = "delivered" => received[e] > 0

\* The receiver sees an event at most once more than the attempts that the
\* row records: no attempt posts twice, and an unrecorded one is not retried.
ReceiptsWithinAttempts ==
    \A e \in Event : events[e].status # "absent" =>
        received[e] <= events[e].attempts + 1

\* What the table says of deliveries and what the receivers saw agree both ways,
\* although answers get lost and whole jobs are run again.
ReceiptsMatchRows == DeliveredWasAccepted /\ ReceiptsWithinAttempts

\* A job that ran to its end leaves a settled row with the number of its last
\* attempt, and a row is called failed only after FailedFrom retries.
FinishedJobSettlesRow ==
    \A e \in Event :
        /\ jobs[e].pc = "done" =>
              /\ events[e].status \in {"delivered", "failed"}
              /\ events[e].attempts = jobs[e].retries + 1
        /\ events[e].status = "failed" => events[e].attempts > FailedFrom

\* A call of emit that returned has, for each subscription that its query
\* returned, exactly one event with a job, and no other event; one that broke
\* has at most one.  The job goes to the URL the query returned, whatever
\* became of the subscription.
FanOutComplete ==
    \A p \in Emission :
        LET mine == {e \in Event : events[e].emission = p} IN
        /\ emits[p].pc = "done" /\ emits[p].matched # {} =>
              /\ \A e \in mine : jobs[e].pc # "none"
              /\ Cardinality(mine) = Cardinality(emits[p].matched)
        /\ \A e, f \in mine :
              events[e].sub = events[f].sub /\ events[e].sub # Null => e = f
        /\ \A e \in mine : jobs[e].pc # "none" =>
              \E t \in emits[p].matched : jobs[e].url = t.url

\* Once delivered, a row stays delivered and its attempt count is final.
DeliveredIsFinal ==
    [][\A e \in Event : events[e].status = "delivered" =>
          /\ events'[e].status = "delivered"
          /\ events'[e].attempts = events[e].attempts]_vars

----------------------------------------------------------------------------
(* Liveness                                                                *)

\* Every published job comes to an end with its row settled, or is lost.
EveryJobSettles ==
    \A e \in Event : jobs[e].pc = "queued" ~>
        \/ jobs[e].pc = "done" /\ events[e].status \in {"delivered", "failed"}
        \/ jobs[e].pc = "lost"
=============================================================================
