------------------------------- MODULE Requests -------------------------------
(***************************************************************************)
(* The requests the API process serves for the record services (sessions,   *)
(* artifacts, prompt templates).  Each client has at most one request in    *)
(* flight and waits for its answer; each statement a handler awaits is one  *)
(* step, so the steps of different clients interleave freely.  PostgreSQL   *)
(* runs at READ COMMITTED: a SELECT sees what is committed when it runs.    *)
(***************************************************************************)
EXTENDS Integers, FiniteSetsExt

CONSTANTS
    Clients,      \* the callers of the API
    MaxRequests   \* bound: requests each client sends

ASSUME RequestsAssumption == MaxRequests \in Nat /\ IsFiniteSet(Clients)

VARIABLES
    req,    \* the request each client waits for, with what its handler holds
    sent    \* requests each client has sent

NoRequest == [op |-> "none"]

\* The requests of a behaviour, each named by its client and its number there.
Tickets == Clients \X (1 .. MaxRequests)
NextTicket(c) == <<c, sent[c] + 1>>

Start(c, r) ==
    /\ req[c] = NoRequest
    /\ sent[c] < MaxRequests
    /\ req' = [req EXCEPT ![c] = r]
    /\ sent' = [sent EXCEPT ![c] = @ + 1]

\* A request whose handler changes state in one transaction and answers.
Once(c) == Start(c, NoRequest)

Goto(c, r) ==
    /\ req' = [req EXCEPT ![c] = r]
    /\ UNCHANGED sent

Finish(c) == Goto(c, NoRequest)

At(c, op, step) == req[c].op = op /\ req[c].step = step

\* The handler dies between two of its statements: a database error, a lost
\* connection or a restart of the process.  What it had not committed is gone.
Fail(c) ==
    /\ req[c] # NoRequest
    /\ Finish(c)

RequestsInit ==
    /\ req = [c \in Clients |-> NoRequest]
    /\ sent = [c \in Clients |-> 0]
===============================================================================
