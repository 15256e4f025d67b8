------------------------------ MODULE SessionLog ------------------------------
(***************************************************************************)
(* Sessions, their numbered messages and branches of them                   *)
(* (services/session_service.py behind api/v1/sessions.py).  A message is   *)
(* numbered max + 1 by one statement and inserted by a later one, and       *)
(* nothing in the schema makes (session, number) unique.                    *)
(***************************************************************************)
EXTENDS Requests

CONSTANTS
    Sessions,    \* the identifiers sessions are given
    Opened       \* the session that exists from the start

ASSUME SessionsAssumption == Opened \in Sessions

VARIABLES
    log,         \* the committed messages of each session
    origin,      \* where a session comes from, or Absent
    announced    \* the branches a session.branched event was stored for

Absent == [kind |-> "absent"]
Root == [kind |-> "root"]

Exists(s) == origin[s] # Absent

\* "seen" is history: the requests whose messages were committed in the session
\* when this request was sent.
Posted(m) == m.who
Numbers(s) == {m.seq : m \in log[s]}

SessionsInit ==
    /\ log = [s \in Sessions |-> {}]
    /\ origin = [s \in Sessions |-> IF s = Opened THEN Root ELSE Absent]
    /\ announced = {}

CreateSession(c, s) ==
    /\ ~Exists(s)
    /\ Once(c)
    /\ origin' = [origin EXCEPT ![s] = Root]
    /\ UNCHANGED <<log, announced>>

\* add_message: the session is loaded, or the answer is 404.
AddMessage(c, s) ==
    /\ Exists(s)
    /\ Start(c, [op |-> "post", step |-> "max", session |-> s, who |-> NextTicket(c),
                 seen |-> {Posted(m) : m \in log[s]}])
    /\ UNCHANGED <<log, origin, announced>>

\* Mutant: the highest number itself is taken once there is one.
NextSequence_NoIncrement(s) == Max({1} \cup Numbers(s))

NextSequence(s) == Max({0} \cup Numbers(s)) + 1

ReadMaxSequence(c) ==
    /\ At(c, "post", "max")
    /\ Goto(c, [op |-> "post", step |-> "insert", session |-> req[c].session,
                who |-> req[c].who, seen |-> req[c].seen,
                seq |-> NextSequence(req[c].session)])
    /\ UNCHANGED <<log, origin, announced>>

InsertMessage(c) ==
    /\ At(c, "post", "insert")
    /\ log' = [log EXCEPT ![req[c].session] = @ \cup
                 {[seq |-> req[c].seq, who |-> req[c].who, seen |-> req[c].seen,
                   copied |-> FALSE]}]
    /\ Finish(c)
    /\ UNCHANGED <<origin, announced>>

\* The branch point is the identifier of a message: of this session, of another
\* one (nothing compares the two), or of none, which gives an empty branch.
BranchPoints(s) ==
    {[seq |-> m.seq, inSource |-> TRUE] : m \in log[s]}
      \cup {[seq |-> m.seq, inSource |-> FALSE] : m \in UNION {log[t] : t \in Sessions \ {s}}}
      \cup {[seq |-> 0, inSource |-> FALSE]}

BranchSession(c, s, p) ==
    /\ Exists(s)
    /\ p \in BranchPoints(s)
    /\ Start(c, [op |-> "branch", step |-> "select", from |-> s, point |-> p])
    /\ UNCHANGED <<log, origin, announced>>

\* Mutant: the message branched at is left out.
CopiedMessages_Below(s, cutoff) ==
    {[m EXCEPT !.copied = TRUE] : m \in {x \in log[s] : x.seq < cutoff}}

CopiedMessages(s, cutoff) ==
    {[m EXCEPT !.copied = TRUE] : m \in {x \in log[s] : x.seq <= cutoff}}

SelectCopies(c) ==
    /\ At(c, "branch", "select")
    /\ Goto(c, [op |-> "branch", step |-> "commit", from |-> req[c].from,
                point |-> req[c].point,
                copies |-> CopiedMessages(req[c].from, req[c].point.seq)])
    /\ UNCHANGED <<log, origin, announced>>

\* The branch and its copies are one transaction; the event is stored by another.
CommitBranch(c, b) ==
    /\ At(c, "branch", "commit")
    /\ ~Exists(b)
    /\ origin' = [origin EXCEPT ![b] = [kind |-> "branch", from |-> req[c].from,
                                        point |-> req[c].point]]
    /\ log' = [log EXCEPT ![b] = req[c].copies]
    /\ Goto(c, [op |-> "branch", step |-> "emit", branch |-> b])
    /\ UNCHANGED announced

EmitBranched(c) ==
    /\ At(c, "branch", "emit")
    /\ announced' = announced \cup {req[c].branch}
    /\ Finish(c)
    /\ UNCHANGED <<log, origin>>

SessionsNext(c) ==
    \/ \E s \in Sessions : CreateSession(c, s) \/ AddMessage(c, s) \/ CommitBranch(c, s)
    \/ ReadMaxSequence(c)
    \/ InsertMessage(c)
    \/ \E s \in Sessions : \E p \in BranchPoints(s) : BranchSession(c, s, p)
    \/ SelectCopies(c)
    \/ EmitBranched(c)

-------------------------------------------------------------------------------
Message == [seq : 1 .. Cardinality(Tickets), who : Tickets, seen : SUBSET Tickets,
            copied : BOOLEAN]

SessionsTypeOK ==
    /\ \A s \in Sessions : log[s] \subseteq Message
    /\ \A s \in Sessions : origin[s].kind \in {"absent", "root", "branch"}
    /\ announced \subseteq Sessions

\* A message that was stored when another was sent comes before it in the log
\* (list_messages orders by number): only overlapping requests share a number.
SentLaterComesLater ==
    \A s \in Sessions : \A m, n \in log[s] :
        Posted(m) \in n.seen => m.seq < n.seq

\* A branch taken at a message of its session holds exactly the session's
\* messages up to it, also after the session has moved on, unless overlapping
\* requests gave two messages of that prefix one number (branch_session copies by
\* number and add_message may insert below the cutoff later).
BranchIsThePrefix ==
    \A b \in Sessions :
        (origin[b].kind = "branch" /\ origin[b].point.inSource) =>
            LET prefix == {m \in log[origin[b].from] : m.seq <= origin[b].point.seq}
            IN  (\A m, n \in prefix : m.seq = n.seq => m = n) =>
                    {Posted(m) : m \in {x \in log[b] : x.copied}} = {Posted(m) : m \in prefix}
===============================================================================
