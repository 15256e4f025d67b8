----------------------------- MODULE Administration -----------------------------
(***************************************************************************)
(* The records that an administrator changes: API keys, approvals, projects *)
(* and the state document of a project (services/api_key_service.py,        *)
(* approval_service.py, project_service.py, project_state_service.py, their *)
(* endpoints, and the part of api/v1/cli.py that writes the document).      *)
(* Every change loads the row, sets columns of the copy and commits; the    *)
(* ORM then writes the columns that differ from what it loaded, and no      *)
(* others.                                                                  *)
(***************************************************************************)
EXTENDS Requests

CONSTANTS
    Keys, Approvals, Projects,   \* ids of rows; a project's document is part of it
    Names,                       \* of projects
    Approvers,
    Documents,                   \* what PUT /state stores
    Branches,                    \* what a client stores under cli_context
    Null,                        \* no value
    Absent                       \* no row

VARIABLES
    rows,      \* the rows, each a record of its columns, or Absent
    updates    \* history: the updates committed for each row

adminVars == <<rows, updates>>

States == {<<"state", p>> : p \in Projects}
Rows == Keys \cup Approvals \cup Projects \cup States

\* Ids are of one table each, a resolution names its approver, and no row is taken
\* for a missing one.
ASSUME AdminAssumption ==
    /\ Keys \cap (Approvals \cup Projects \cup States) = {}
    /\ Approvals \cap (Projects \cup States) = {}
    /\ Projects \cap States = {}
    /\ Null \notin Approvers
    /\ Absent \notin [status : {"pending", "approved", "rejected"}, approver : Approvers \cup {Null}]
    /\ Absent \notin [token : Tickets, revoked : Tickets \cup {Null}]
    /\ Absent \notin [name : Names, local : BOOLEAN]
    /\ Absent \notin [state : [base : Documents \cup {Null}, cli : Branches \cup {Null}]]

AdminInit ==
    /\ rows = [x \in Rows |-> Absent]
    /\ updates = [x \in Rows |-> {}]

-------------------------------------------------------------------------------
(* Rows that are made                                                       *)

\* create_key; the raw token is told by the request that made it
CreateKey(c) ==
    /\ Once(c)
    /\ \E k \in Keys :
        /\ rows[k] = Absent
        /\ rows' = [rows EXCEPT ![k] = [token |-> NextTicket(c), revoked |-> Null]]
    /\ UNCHANGED updates

CreatePending(c) ==
    /\ Once(c)
    /\ \E a \in Approvals :
        /\ rows[a] = Absent
        /\ rows' = [rows EXCEPT ![a] = [status |-> "pending", approver |-> Null]]
    /\ UNCHANGED updates

\* create_project: the project and its empty document in one transaction; from
\* then on both are there: deleting a project fails, as the ORM clears the
\* project_id of its document, which the table requires.
CreateProject(c) ==
    /\ Once(c)
    /\ \E p \in Projects, name \in Names, local \in BOOLEAN :
        /\ rows[p] = Absent
        /\ rows' = [rows EXCEPT ![p] = [name |-> name, local |-> local],
                                ![<<"state", p>>] = [state |-> [base |-> Null, cli |-> Null]]]
    /\ UNCHANGED updates

-------------------------------------------------------------------------------
(* Rows that are changed                                                    *)

\* A request to set columns of a row.  after: history, the updates of the row that
\* were committed when it was sent.
Ask(c, row, sets) ==
    /\ rows[row] # Absent
    /\ Start(c, [op |-> "change", step |-> "load", row |-> row, sets |-> sets,
                 id |-> NextTicket(c), after |-> {u.id : u \in updates[row]}])
    /\ UNCHANGED adminVars

RotateKey(c) == \E k \in Keys : Ask(c, k, [token |-> NextTicket(c), revoked |-> Null])

RevokeKey(c) == \E k \in Keys : Ask(c, k, [revoked |-> NextTicket(c)])

\* Resolved or not, an approval can be resolved.
Resolve(c) ==
    \E a \in Approvals, status \in {"approved", "rejected"}, who \in Approvers :
        Ask(c, a, [status |-> status, approver |-> who])

UpdateProject(c) ==
    \E p \in Projects, name \in Names, local \in BOOLEAN :
        \/ Ask(c, p, [name |-> name])
        \/ Ask(c, p, [local |-> local])
        \/ Ask(c, p, [name |-> name, local |-> local])

\* PUT /state: the document is replaced, with what a client has stored in it.
PutState(c) ==
    \E s \in States, d \in Documents : Ask(c, s, [state |-> [base |-> d, cli |-> Null]])

\* ensure_cli_context sets a key of the document it is about to load.
EnsureState(c) ==
    \E s \in States, b \in Branches : Ask(c, s, [cli |-> b])

\* Mutant: the document is begun anew.
Merged_Fresh(document, branch) == [base |-> Null, cli |-> branch]

Merged(document, branch) == [document EXCEPT !.cli = branch]

\* Mutant: the approver is set once, like the time of a first use.
Wanted_FirstApprover(loaded, sets) ==
    IF "cli" \in DOMAIN sets THEN [state |-> Merged(loaded.state, sets.cli)]
    ELSE IF "approver" \in DOMAIN sets /\ loaded.approver # Null THEN [status |-> sets.status]
    ELSE sets

Wanted(loaded, sets) ==
    IF "cli" \in DOMAIN sets THEN [state |-> Merged(loaded.state, sets.cli)] ELSE sets

\* The handler loads the row and sets columns of its copy.
LoadRow(c) ==
    /\ At(c, "change", "load")
    /\ LET r == req[c]
       IN  Goto(c, [op |-> "change", step |-> "commit", row |-> r.row, id |-> r.id,
                    after |-> r.after, sets |-> r.sets, loaded |-> rows[r.row],
                    wanted |-> Wanted(rows[r.row], r.sets)])
    /\ UNCHANGED adminVars

\* Mutant: the whole copy is written.
Flushed_Whole(row, loaded, wanted) ==
    [col \in DOMAIN row |-> IF col \in DOMAIN wanted THEN wanted[col] ELSE loaded[col]]

\* The unit of work writes the columns whose value is not the one it loaded.
Flushed(row, loaded, wanted) ==
    [col \in DOMAIN row |->
        IF col \in DOMAIN wanted /\ wanted[col] # loaded[col] THEN wanted[col] ELSE row[col]]

CommitRow(c) ==
    /\ At(c, "change", "commit")
    /\ LET r == req[c]
       IN  /\ rows' = [rows EXCEPT ![r.row] = Flushed(rows[r.row], r.loaded, r.wanted)]
           /\ updates' = [updates EXCEPT ![r.row] = @ \cup
                             {[id |-> r.id, after |-> r.after, sets |-> r.sets, loaded |-> r.loaded]}]
    /\ Finish(c)

AdminNext(c) ==
    \/ CreateKey(c) \/ CreatePending(c) \/ CreateProject(c)
    \/ RotateKey(c) \/ RevokeKey(c) \/ Resolve(c) \/ UpdateProject(c)
    \/ PutState(c) \/ EnsureState(c)
    \/ LoadRow(c) \/ CommitRow(c)
    \/ Fail(c) /\ UNCHANGED adminVars

AdminSpec ==
    RequestsInit /\ AdminInit /\ [][\E c \in Clients : AdminNext(c)]_<<req, sent, adminVars>>

-------------------------------------------------------------------------------
(* How overlapping updates add up.  x is before y if it was committed when   *)
(* y was sent.                                                              *)
Before(x, y) == x.id \in y.after

Orders(S) ==
    {f \in [1 .. Cardinality(S) -> S] :
        \A i, j \in DOMAIN f : i < j => f[i] # f[j] /\ ~Before(f[j], f[i])}

\* What an order leaves in a column is what the last update that sets it says.
Leaves(f, cols, row) ==
    \A col \in cols :
        LET setting == {i \in DOMAIN f : col \in DOMAIN f[i].sets}
        IN  setting # {} => row[col] = f[CHOOSE i \in setting : \A j \in setting : j <= i].sets[col]

Serial(x, cols) == \E f \in Orders(updates[x]) : Leaves(f, cols, rows[x])

\* Whatever rotations and revocations overlap, a key is as if they had come one
\* after the other, none before one that was answered when it was sent: no
\* revocation is lost but to a rotation that may count as later, and no token
\* comes back that was replaced.  Of a project this holds for each column.
ChangesAreSerial ==
    /\ \A k \in Keys : rows[k] # Absent => Serial(k, {"token", "revoked"})
    /\ \A p \in Projects, col \in {"name", "local"} : rows[p] # Absent => Serial(p, {col})

\* An approval carries the status and the name of one and the same resolution,
\* unless one that found it resolved already overlapped another: then it may be
\* left with the status of the one and the name of the other.
VerdictIsOneResolution ==
    \A a \in Approvals :
        \/ updates[a] = {}
        \/ \E u \in updates[a] : rows[a] = u.sets
        \/ \E u, v \in updates[a] :
              /\ u # v /\ ~Before(u, v) /\ ~Before(v, u)
              /\ v.loaded.status # "pending"

\* What a PUT has stored in a document, or a client in its part of it, is there
\* until a later PUT replaces it or a later client its part; a client's update
\* loses a PUT only if the two overlapped.
OnlyOverlapsLoseUpdates ==
    \A s \in States : \A u \in updates[s] :
        LET put(v) == "state" \in DOMAIN v.sets
            later == {v \in updates[s] \ {u} : ~Before(v, u)}
        IN  IF put(u)
            THEN \/ rows[s].state.base = u.sets.state.base
                 \/ \E v \in later : put(v) \/ ~Before(u, v)
            ELSE rows[s].state.cli = u.sets.cli \/ later # {}
===============================================================================
