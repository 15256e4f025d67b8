--------------------------- MODULE WorkspaceProofs ---------------------------
(***************************************************************************)
(* What the record services guarantee for any number of clients, requests,  *)
(* sessions, artifacts and templates, however the steps of the handlers     *)
(* interleave and wherever they die.                                        *)
(*                                                                         *)
(* Every number the services give is max + 1 of what is stored, read by one *)
(* statement and used by a later one.  The argument is the same for all of  *)
(* them: a request knows ("seen") only what was stored when it was sent,    *)
(* and the number it read later is above all of that.                       *)
(***************************************************************************)
EXTENDS Workspace, NumberFacts

\* c's request has yet to store its row.
Committing(c) ==
    \/ req[c].op \in {"post", "prompt"}
    \/ req[c].op = "save" /\ req[c].step # "emit"

\* The tickets of the requests that were sent and have no row yet to store: what
\* is stored, and what a request may have seen, is theirs.
Used == {t \in Tickets : /\ t[2] <= sent[t[1]]
                         /\ Committing(t[1]) => t[2] < sent[t[1]]}

\* No number is above the number of requests that could have taken one.
Count == Cardinality(Used)

Mine(c) == <<c, sent[c]>>

RequestsInv ==
    /\ sent \in [Clients -> 0 .. MaxRequests]
    /\ req = [c \in Clients |-> req[c]]
    /\ \A c \in Clients : req[c].op \in {"none", "post", "branch", "save", "prompt"}
    /\ \A c \in Clients : req[c].op # "none" => sent[c] > 0

----------------------------------------------------------------------------
\* A log whose messages are those of the requests U and number up to n: what was
\* sent later comes later, and no number below another is free.
GoodLog(L, U, n) ==
    /\ L \subseteq [seq : 1 .. n, who : U, seen : SUBSET U, copied : BOOLEAN]
    /\ \A m, o \in L : m.who \in o.seen => m.seq < o.seq
    /\ \A m \in L : \A k \in 1 .. m.seq : \E o \in L : o.seq = k

\* W are the senders of L's messages up to number k, unless two share a number.
IsPrefixOf(W, L, k) ==
    LET prefix == {m \in L : m.seq <= k}
    IN  (\A m, n \in prefix : m.seq = n.seq => m = n) =>
            W = {Posted(m) : m \in prefix}

IsNumberOf(k, L) == \E m \in L : m.seq = k

\* A number read for a message of a request that saw S: above all it saw, and at
\* most one above what is there.
GoodNumber(k, S, L, n) ==
    /\ k \in 1 .. (n + 1)
    /\ \A m \in L : m.who \in S => m.seq < k
    /\ \A i \in 1 .. (k - 1) : \E m \in L : m.seq = i

PostInv(c) == req[c].op = "post" =>
    /\ req[c].step \in {"max", "insert"}
    /\ req[c].session \in Sessions
    /\ Exists(req[c].session)
    /\ req[c].who = Mine(c)
    /\ req[c].seen \subseteq Used
    /\ req[c].step = "insert" =>
          GoodNumber(req[c].seq, req[c].seen, log[req[c].session], Count)

\* A branch of a session of its own, its point a number of that session if it is
\* marked so.
GoodPoint(from, point) ==
    /\ from \in Sessions
    /\ Exists(from)
    /\ point.seq \in Nat
    /\ point.inSource => IsNumberOf(point.seq, log[from])

BranchInv(c) == req[c].op = "branch" =>
    /\ req[c].step \in {"select", "commit", "emit"}
    /\ req[c].step # "emit" => GoodPoint(req[c].from, req[c].point)
    /\ req[c].step = "commit" =>
          /\ GoodLog(req[c].copies, Used, Count)
          /\ \A m \in req[c].copies : m.copied
          /\ req[c].point.inSource =>
                IsPrefixOf({m.who : m \in req[c].copies}, log[req[c].from],
                           req[c].point.seq)
    /\ req[c].step = "emit" => req[c].branch \in Sessions

SessionInv(s) ==
    /\ GoodLog(log[s], Used, Count)
    /\ origin[s].kind \in {"absent", "root", "branch"}
    /\ ~Exists(s) => log[s] = {} /\ origin[s].kind = "absent"
    /\ origin[s].kind = "branch" =>
          /\ GoodPoint(origin[s].from, origin[s].point)
          /\ origin[s].from # s
          /\ origin[s].point.inSource =>
                IsPrefixOf({Posted(m) : m \in {x \in log[s] : x.copied}},
                           log[origin[s].from], origin[s].point.seq)

SessionsInv ==
    /\ log = [s \in Sessions |-> log[s]]
    /\ origin = [s \in Sessions |-> origin[s]]
    /\ announced \subseteq Sessions
    /\ \A s \in Sessions : SessionInv(s)
    /\ \A c \in Clients : PostInv(c) /\ BranchInv(c)

----------------------------------------------------------------------------
\* A save at "insert" has written its file; the file may have been replaced since,
\* but not torn by this save.
SaveInv(c) == req[c].op = "save" =>
    /\ req[c].step \in {"max", "write", "insert", "emit"}
    /\ req[c].artifact \in Artifacts
    /\ req[c].who = Mine(c)
    /\ req[c].seen \subseteq Used
    /\ req[c].step \in {"write", "insert"} =>
          /\ req[c].version \in 1 .. (Count + 1)
          /\ \A r \in rows[req[c].artifact] :
                r.who \in req[c].seen => r.version < req[c].version
    /\ req[c].step = "insert" =>
          LET f == file[req[c].artifact][req[c].version] IN
          /\ f.state \in {"whole", "torn"}
          /\ f.who = Mine(c) => f.state = "whole"

ArtifactInv(a) ==
    /\ rows[a] \subseteq [version : 1 .. Count, who : Used]
    /\ file[a] = [v \in Versions |-> file[a][v]]
    /\ \A v \in Versions :
          /\ file[a][v].state \in {"missing", "whole", "torn"}
          /\ file[a][v].state # "missing" => file[a][v].seen \subseteq Used
    /\ \A r \in rows[a] :
          LET f == file[a][r.version] IN
          /\ f.state \in {"whole", "torn"}
          /\ f.who = r.who => f.state = "whole"
          /\ r.who \notin f.seen

ArtifactsInv ==
    /\ rows = [a \in Artifacts |-> rows[a]]
    /\ file = [a \in Artifacts |-> file[a]]
    /\ published \subseteq Artifacts \X Tickets
    /\ \A a \in Artifacts : ArtifactInv(a)
    /\ \A c \in Clients : SaveInv(c)

----------------------------------------------------------------------------
PromptRequest ==
    [op : {"prompt"}, step : {"source", "latest", "insert"}, template : Templates,
     who : Tickets, seen : SUBSET Tickets, text : Tickets \cup {<<>>}, from : Nat,
     version : Nat]

PromptInv(c) == req[c].op = "prompt" =>
    /\ req[c] \in PromptRequest
    /\ req[c].who = Mine(c)
    /\ req[c].seen \subseteq Used
    /\ req[c].step # "source" => req[c].text \in Tickets
    /\ req[c].step = "insert" =>
          /\ req[c].version \in 1 .. (Count + 1)
          /\ \A r \in prompts[req[c].template] :
                r.who \in req[c].seen => r.version < req[c].version

TemplateInv(t) ==
    /\ prompts[t] \subseteq [version : 1 .. Count, who : Used, text : Tickets,
                             seen : SUBSET Used]
    /\ \A r, q \in prompts[t] : r.who \in q.seen => r.version < q.version

PromptsInv ==
    /\ prompts = [t \in Templates |-> prompts[t]]
    /\ \A t \in Templates : TemplateInv(t)
    /\ \A c \in Clients : PromptInv(c)

\* The inductive invariant of the record services.
WorkspaceInv == RequestsInv /\ SessionsInv /\ ArtifactsInv /\ PromptsInv

----------------------------------------------------------------------------
(* Requests and the tickets used                                            *)

LEMMA TicketsFinite == IsFiniteSet(Tickets)
<1>1. IsFiniteSet(Clients) /\ IsFiniteSet(1 .. MaxRequests)
  BY RequestsAssumption, FS_Interval
<1>2. QED
  BY <1>1, FS_Product DEF Tickets

LEMMA UsedCounts ==
  /\ Used \in SUBSET Tickets
  /\ IsFiniteSet(Used)
  /\ Count \in Nat
<1>1. Used \in SUBSET Tickets
  BY DEF Used
<1>2. QED
  BY <1>1, TicketsFinite, FS_Subset, FS_CardinalityType DEF Count

\* What a step of c's request leaves of the others.
StepOf(c) ==
    /\ \A x \in Clients \ {c} : req'[x] = req[x] /\ sent'[x] = sent[x]
    /\ Used \subseteq Used'
    /\ Count' \in Nat
    /\ Count <= Count'

LEMMA Wider ==
  ASSUME NEW n \in Nat, NEW k \in Nat, n <= k
  PROVE  1 .. n \subseteq 1 .. k /\ 1 .. (n + 1) \subseteq 1 .. (k + 1)
  OBVIOUS

LEMMA UsedGrows ==
  ASSUME Used \subseteq Used'
  PROVE  Count' \in Nat /\ Count <= Count'
<1>1. Used' \in SUBSET Tickets
  BY DEF Used, Tickets
<1> DEFINE U == Used'
<1>2. IsFiniteSet(U)
  BY <1>1, TicketsFinite, FS_Subset
<1>3. Count' = Cardinality(U)
  BY DEF Count
<1> HIDE DEF U
<1>4. Cardinality(U) \in Nat
  BY <1>2, FS_CardinalityType
<1>5. Cardinality(Used) <= Cardinality(U)
  <2>1. Used \in SUBSET U
    BY DEF U
  <2>2. QED
    BY <1>2, <2>1, FS_Subset
<1>6. QED
  BY <1>3, <1>4, <1>5 DEF Count

LEMMA Started ==
  ASSUME RequestsInv, NEW c \in Clients, NEW r,
         r.op \in {"none", "post", "branch", "save", "prompt"}, Start(c, r)
  PROVE  /\ RequestsInv' /\ StepOf(c)
         /\ req'[c] = r
         /\ sent'[c] = sent[c] + 1
         /\ NextTicket(c) = <<c, sent'[c]>>
         /\ NextTicket(c) \in Tickets
         /\ req[c] = NoRequest /\ req[c].op = "none"
<1>1. /\ req[c] = NoRequest /\ req[c].op = "none" /\ sent[c] < MaxRequests
      /\ req' = [req EXCEPT ![c] = r] /\ sent' = [sent EXCEPT ![c] = @ + 1]
  BY DEF Start, NoRequest
<1>2. /\ req'[c] = r /\ sent'[c] = sent[c] + 1
      /\ \A x \in Clients \ {c} : req'[x] = req[x] /\ sent'[x] = sent[x]
      /\ req' = [x \in Clients |-> req'[x]]
  BY <1>1 DEF RequestsInv
<1>3. sent[c] \in Nat /\ sent' \in [Clients -> 0 .. MaxRequests]
  BY <1>1, RequestsAssumption DEF RequestsInv
<1>4. RequestsInv'
  BY <1>1, <1>2, <1>3 DEF RequestsInv
<1>5. Used \subseteq Used'
  <2> SUFFICES ASSUME NEW t \in Tickets, t \in Used PROVE t \in Used'
    BY DEF Used
  <2>1. t[1] \in Clients /\ t[2] \in Nat
    BY DEF Tickets
  <2>2. CASE t[1] = c
    <3>1. t[2] <= sent[c]
      BY <2>2 DEF Used
    <3>2. t[2] < sent'[c] /\ t[2] <= sent'[c]
      BY <1>2, <1>3, <2>1, <3>1
    <3>3. QED
      BY <2>2, <3>2 DEF Used
  <2>3. CASE t[1] # c
    BY <1>2, <2>1, <2>3 DEF Used, Committing
  <2>4. QED
    BY <2>2, <2>3
<1>6. StepOf(c)
  BY <1>2, <1>5, UsedGrows DEF StepOf
<1>7. NextTicket(c) = <<c, sent'[c]>> /\ NextTicket(c) \in Tickets
  BY <1>1, <1>2, <1>3, RequestsAssumption DEF NextTicket, Tickets
<1>8. QED
  BY <1>1, <1>2, <1>4, <1>6, <1>7

\* r.committing: r has yet to store its row.
LEMMA Continued ==
  ASSUME RequestsInv, NEW c \in Clients, NEW r, req[c].op # "none",
         r.op \in {"none", req[c].op}, Goto(c, r),
         Committing(c) \/ r.op \notin {"post", "prompt", "save"} \/ r.step = "emit"
  PROVE  /\ RequestsInv' /\ StepOf(c)
         /\ req'[c] = r
         /\ sent' = sent
<1>1. req' = [req EXCEPT ![c] = r] /\ sent' = sent
  BY DEF Goto
<1>2. /\ req'[c] = r /\ \A x \in Clients \ {c} : req'[x] = req[x]
      /\ req' = [x \in Clients |-> req'[x]]
  BY <1>1 DEF RequestsInv
<1>3. RequestsInv'
  BY <1>1, <1>2 DEF RequestsInv
<1>4. Committing(c)' => Committing(c)
  BY <1>2 DEF Committing
<1>5. \A x \in Clients \ {c} : Committing(x)' <=> Committing(x)
  BY <1>2 DEF Committing
<1>6. Used \subseteq Used'
  <2> SUFFICES ASSUME NEW t \in Tickets, t \in Used PROVE t \in Used'
    BY DEF Used
  <2>1. t[1] \in Clients
    BY DEF Tickets
  <2>2. Committing(t[1])' => Committing(t[1])
    BY <1>4, <1>5, <2>1
  <2>3. QED
    BY <1>1, <2>2 DEF Used
<1>7. QED
  BY <1>1, <1>2, <1>3, <1>6, UsedGrows DEF StepOf

LEMMA Finished ==
  ASSUME RequestsInv, NEW c \in Clients, req[c].op # "none", Finish(c)
  PROVE  /\ RequestsInv' /\ StepOf(c)
         /\ req'[c].op = "none"
         /\ sent' = sent
<1>1. NoRequest.op = "none"
  BY DEF NoRequest
<1>2. QED
  BY <1>1, Continued DEF Finish

LEMMA Answered ==
  ASSUME RequestsInv, NEW c \in Clients, Once(c)
  PROVE  RequestsInv' /\ StepOf(c) /\ req'[c].op = "none"
<1>1. NoRequest.op = "none"
  BY DEF NoRequest
<1>2. QED
  BY <1>1, Started DEF Once

\* A request that is committing has a ticket that nobody can have seen.
LEMMA TicketUnseen ==
  ASSUME RequestsInv, NEW c \in Clients, Committing(c)
  PROVE  Mine(c) \in Tickets /\ Mine(c) \notin Used
<1>1. req[c].op # "none"
  BY DEF Committing
<1>2. sent[c] \in 0 .. MaxRequests /\ sent[c] > 0
  BY <1>1 DEF RequestsInv
<1>3. sent[c] \in 1 .. MaxRequests
  BY <1>2, RequestsAssumption
<1>4. QED
  BY <1>3 DEF Mine, Tickets, Used

LEMMA TicketRoom ==
  ASSUME RequestsInv, NEW c \in Clients, Committing(c)
  PROVE  Count + 1 <= Cardinality(Tickets)
<1> DEFINE U == Used \cup {Mine(c)}
<1>1. U \in SUBSET Tickets /\ Mine(c) \notin Used
  BY TicketUnseen, UsedCounts
<1>2. Cardinality(U) = Count + 1
  BY <1>1, UsedCounts, FS_AddElement DEF Count
<1>3. Cardinality(U) <= Cardinality(Tickets)
  BY <1>1, TicketsFinite, FS_Subset
<1>4. QED
  BY <1>2, <1>3

LEMMA CountRoom == Count \in Nat /\ Count <= Cardinality(Tickets)
  BY UsedCounts, TicketsFinite, FS_Subset DEF Count

\* When it has stored its row, its ticket is used, and counts.
LEMMA TicketStored ==
  ASSUME RequestsInv, NEW c \in Clients, Committing(c), sent' = sent,
         StepOf(c), ~Committing(c)'
  PROVE  /\ Mine(c)' = Mine(c) /\ Mine(c) \in Used'
         /\ Count + 1 <= Count'
<1>1. Mine(c) \in Tickets /\ Mine(c) \notin Used
  BY TicketUnseen
<1>2. Mine(c)' = Mine(c) /\ Mine(c) \in Used'
  <2>1. sent[c] \in Nat
    BY DEF RequestsInv
  <2>2. QED
    BY <1>1, <2>1 DEF Mine, Used
<1> DEFINE U == Used'
           V == Used \cup {Mine(c)}
<1>3. V \in SUBSET U /\ U \in SUBSET Tickets
  BY <1>2 DEF StepOf, Used, Tickets
<1>4. Cardinality(V) = Count + 1
  BY <1>1, UsedCounts, FS_AddElement DEF Count
<1>5. Count' = Cardinality(U)
  BY DEF Count
<1> HIDE DEF U, V
<1>6. Cardinality(V) <= Cardinality(U)
  BY <1>3, TicketsFinite, FS_Subset
<1>7. QED
  BY <1>2, <1>4, <1>5, <1>6

\* max + 1 of numbers up to n is above all of them and at most n + 1.
LEMMA MaxPlusOne ==
  ASSUME NEW n \in Nat, NEW S \in SUBSET (1 .. n)
  PROVE  /\ Max({0} \cup S) \in {0} \cup S
         /\ Max({0} \cup S) + 1 \in 1 .. (n + 1)
         /\ \A k \in S : k < Max({0} \cup S) + 1
<1> DEFINE T == {0} \cup S
<1>1. T \in SUBSET Nat /\ T # {} /\ \A k \in T : k <= n
  OBVIOUS
<1> HIDE DEF T
<1>2. PICK m \in T : \A k \in T : k <= m
  BY <1>1, GreatestNatural
<1>3. \A k \in T : m >= k
  BY <1>1, <1>2
<1>4. Max(T) \in T /\ \A k \in T : Max(T) >= k
  BY <1>3 DEF Max
<1> DEFINE t == Max(T)
<1>5. t \in T /\ \A k \in T : t >= k
  BY <1>4
<1> HIDE DEF t
<1>6. t \in Nat /\ t + 1 \in 1 .. (n + 1)
  BY <1>1, <1>5
<1>7. \A k \in S : k \in T /\ k \in Nat
  BY DEF T
<1>8. \A k \in S : k < t + 1
  BY <1>5, <1>6, <1>7
<1>9. QED
  BY <1>5, <1>6, <1>8 DEF T, t
----------------------------------------------------------------------------
(* Logs                                                                     *)

LEMMA LogKept ==
  ASSUME NEW L, NEW U, NEW V, U \subseteq V, NEW n \in Nat, NEW k \in Nat, n <= k,
         GoodLog(L, U, n)
  PROVE  GoodLog(L, V, k)
<1>1. L \subseteq [seq : 1 .. k, who : V, seen : SUBSET V, copied : BOOLEAN]
  <2> SUFFICES ASSUME NEW m \in L
               PROVE  m \in [seq : 1 .. k, who : V, seen : SUBSET V, copied : BOOLEAN]
    OBVIOUS
  <2>1. m \in [seq : 1 .. n, who : U, seen : SUBSET U, copied : BOOLEAN]
    BY DEF GoodLog
  <2>2. 1 .. n \subseteq 1 .. k /\ SUBSET U \subseteq SUBSET V
    OBVIOUS
  <2>3. QED
    BY <2>1, <2>2
<1>2. QED
  BY <1>1 DEF GoodLog

Copies(L, k) == {[m EXCEPT !.copied = TRUE] : m \in {x \in L : x.seq <= k}}

\* The copies of a log up to a number are a log of their own.
LEMMA CopiesGood ==
  ASSUME NEW L, NEW U, NEW n \in Nat, GoodLog(L, U, n), NEW k \in Nat,
         NEW C, C = Copies(L, k)
  PROVE  /\ GoodLog(C, U, n)
         /\ \A m \in C : m.copied
         /\ IsPrefixOf({m.who : m \in C}, L, k)
<1> DEFINE M == [seq : 1 .. n, who : U, seen : SUBSET U, copied : BOOLEAN]
           copy(m) == [m EXCEPT !.copied = TRUE]
           P == {x \in L : x.seq <= k}
<1>1. L \subseteq M
  BY DEF GoodLog
<1>2. \A m \in M : /\ copy(m) \in M /\ copy(m).copied
                   /\ copy(m).seq = m.seq /\ copy(m).who = m.who
                   /\ copy(m).seen = m.seen
  OBVIOUS
<1>3. C = {copy(m) : m \in P} /\ P \subseteq M /\ \A m \in P : m \in L /\ m.seq <= k
  BY <1>1 DEF Copies
<1>4. \A m \in M : m.seq \in 1 .. n
  OBVIOUS
<1> HIDE DEF M, copy
<1>5. \A m \in P : /\ copy(m).seq = m.seq /\ copy(m).who = m.who
                   /\ copy(m).seen = m.seen /\ copy(m) \in M /\ copy(m).copied
  BY <1>2, <1>3
<1>6. C \subseteq M /\ \A m \in C : m.copied
  BY <1>3, <1>5
<1>7. \A m, o \in C : m.who \in o.seen => m.seq < o.seq
  <2> SUFFICES ASSUME NEW m \in P, NEW o \in P, copy(m).who \in copy(o).seen
               PROVE  copy(m).seq < copy(o).seq
    BY <1>3
  <2>1. m \in L /\ o \in L /\ m.who \in o.seen
    BY <1>3, <1>5
  <2>2. m.seq < o.seq
    BY <2>1 DEF GoodLog
  <2>3. QED
    BY <1>5, <2>2
<1>8. \A m \in C : \A i \in 1 .. m.seq : \E o \in C : o.seq = i
  <2> SUFFICES ASSUME NEW m \in P, NEW i \in 1 .. copy(m).seq
               PROVE  \E o \in P : copy(o).seq = i
    BY <1>3
  <2>1. i \in 1 .. m.seq /\ m \in L /\ m.seq <= k /\ m.seq \in 1 .. n
    BY <1>3, <1>4, <1>5
  <2>2. PICK o \in L : o.seq = i
    BY <2>1 DEF GoodLog
  <2>3. o \in P
    BY <2>1, <2>2
  <2>4. QED
    BY <1>5, <2>2, <2>3
<1>9. {m.who : m \in C} = {m.who : m \in P}
  <2>1. \A m \in C : \E x \in P : m.who = x.who
    BY <1>3, <1>5
  <2>2. \A x \in P : copy(x) \in C /\ copy(x).who = x.who
    BY <1>3, <1>5
  <2> HIDE DEF P
  <2>3. QED
    BY <2>1, <2>2
<1>10. QED
  BY <1>6, <1>7, <1>8, <1>9 DEF GoodLog, M, IsPrefixOf, Posted

\* The message of a request that was committing, with the number it read, joins a
\* log; nobody has seen it.
LEMMA LogGrows ==
  ASSUME NEW L, NEW U, NEW V, U \subseteq V, NEW n \in Nat, NEW k \in Nat, n + 1 <= k,
         GoodLog(L, U, n),
         NEW w \in V, w \notin U, NEW S \in SUBSET U,
         NEW q, GoodNumber(q, S, L, n),
         NEW o, o = [seq |-> q, who |-> w, seen |-> S, copied |-> FALSE]
  PROVE  GoodLog(L \cup {o}, V, k)
<1>1. n <= k /\ GoodLog(L, V, k)
  BY LogKept
<1>2. q \in 1 .. k
  BY DEF GoodNumber
<1>3. o \in [seq : 1 .. k, who : V, seen : SUBSET V, copied : BOOLEAN]
  BY <1>2
<1>4. o.seq = q /\ o.who = w /\ o.seen = S
  OBVIOUS
<1>5. \A m \in L : w \notin m.seen
  BY DEF GoodLog
<1>6. w \notin S
  OBVIOUS
<1>7. ASSUME NEW m \in L \cup {o}, NEW p \in L \cup {o}, m.who \in p.seen
      PROVE  m.seq < p.seq
  <2>1. CASE m = o
    <3>1. p \in L
      BY <1>4, <1>6, <1>7, <2>1
    <3>2. QED
      BY <1>4, <1>5, <1>7, <2>1, <3>1
  <2>2. CASE m \in L /\ p = o
    BY <1>4, <1>7, <2>2 DEF GoodNumber
  <2>3. CASE m \in L /\ p \in L
    BY <1>7, <2>3 DEF GoodLog
  <2>4. QED
    BY <2>1, <2>2, <2>3
<1>8. ASSUME NEW m \in L \cup {o}, NEW i \in 1 .. m.seq
      PROVE  \E p \in L \cup {o} : p.seq = i
  <2>1. CASE m \in L
    BY <2>1 DEF GoodLog
  <2>2. CASE m = o
    <3>1. i = q \/ i \in 1 .. (q - 1)
      BY <1>2, <1>4, <2>2
    <3>2. QED
      BY <1>4, <3>1 DEF GoodNumber
  <2>3. QED
    BY <2>1, <2>2
<1>9. QED
  BY <1>1, <1>3, <1>7, <1>8 DEF GoodLog

\* A number that is read is a good one.
LEMMA NumberRead ==
  ASSUME NEW L, NEW U, NEW n \in Nat, GoodLog(L, U, n), NEW S,
         NEW q, q = Max({0} \cup {m.seq : m \in L}) + 1
  PROVE  GoodNumber(q, S, L, n)
<1> DEFINE N == {m.seq : m \in L}
           t == Max({0} \cup N)
<1>1. N \in SUBSET (1 .. n)
  BY DEF GoodLog
<1> HIDE DEF N
<1>2. t \in {0} \cup N /\ t + 1 \in 1 .. (n + 1) /\ \A k \in N : k < t + 1
  BY <1>1, MaxPlusOne
<1>3. q = t + 1
  BY DEF N
<1> HIDE DEF t
<1>4. t \in Nat /\ q - 1 = t
  BY <1>1, <1>2, <1>3
<1>5. \A m \in L : m.seq < q
  BY <1>2, <1>3 DEF N
<1>6. \A i \in 1 .. (q - 1) : \E m \in L : m.seq = i
  <2> SUFFICES ASSUME NEW i \in 1 .. t PROVE \E m \in L : m.seq = i
    BY <1>4
  <2>1. t \in N
    BY <1>2
  <2>2. PICK m \in L : m.seq = t
    BY <2>1 DEF N
  <2>3. QED
    BY <2>2 DEF GoodLog
<1>7. QED
  BY <1>2, <1>3, <1>5, <1>6 DEF GoodNumber

\* It stays good while others store theirs, which it has not seen.
LEMMA NumberKept ==
  ASSUME NEW L, NEW o, NEW n \in Nat, NEW k \in Nat, n <= k, NEW S, NEW q,
         GoodNumber(q, S, L, n), NEW M, M = L \/ (M = L \cup {o} /\ o.who \notin S)
  PROVE  GoodNumber(q, S, M, k)
  BY DEF GoodNumber

LEMMA NumberStays ==
  ASSUME NEW L, NEW n \in Nat, NEW k \in Nat, n <= k, NEW S, NEW q,
         GoodNumber(q, S, L, n)
  PROVE  GoodNumber(q, S, L, k)
  BY DEF GoodNumber

\* A message that joins below a number that is taken shares its own.
LEMMA PrefixKept ==
  ASSUME NEW L, NEW U, NEW n \in Nat, GoodLog(L, U, n), NEW k, IsNumberOf(k, L),
         NEW o, o.who \notin U, o.seq \in Nat, o.seq >= 1,
         NEW W, IsPrefixOf(W, L, k)
  PROVE  IsPrefixOf(W, L \cup {o}, k)
<1> DEFINE P == {m \in L : m.seq <= k}
           Q == {m \in L \cup {o} : m.seq <= k}
<1>1. PICK x \in L : x.seq = k
  BY DEF IsNumberOf
<1>2. k \in 1 .. n /\ o \notin L
  BY <1>1 DEF GoodLog
<1>3. CASE o.seq > k
  <2>1. ~(o.seq <= k)
    BY <1>2, <1>3
  <2>2. Q = P
    BY <2>1
  <2>3. QED
    BY <2>2 DEF IsPrefixOf
<1>4. CASE o.seq <= k
  <2>1. o.seq \in 1 .. x.seq
    BY <1>1, <1>2, <1>4
  <2>2. PICK y \in L : y.seq = o.seq
    BY <2>1 DEF GoodLog
  <2>3. y \in Q /\ o \in Q /\ y # o
    BY <1>2, <1>4, <2>2
  <2>4. QED
    BY <2>2, <2>3 DEF IsPrefixOf
<1>5. QED
  BY <1>2, <1>3, <1>4

----------------------------------------------------------------------------
(* Sessions                                                                 *)

\* A message nobody has seen joined the log of s, or none did.
Grown(s) ==
    \/ log'[s] = log[s]
    \/ \E o : /\ log'[s] = log[s] \cup {o}
              /\ o.who \notin Used /\ o.seq \in Nat /\ o.seq >= 1 /\ ~o.copied

LEMMA GrownKeeps ==
  ASSUME SessionsInv, NEW s \in Sessions, Grown(s)
  PROVE  /\ \A k : IsNumberOf(k, log[s]) => IsNumberOf(k, log'[s])
         /\ \A W, k : IsNumberOf(k, log[s]) /\ IsPrefixOf(W, log[s], k) =>
               IsPrefixOf(W, log'[s], k)
<1>1. GoodLog(log[s], Used, Count) /\ Count \in Nat
  BY UsedCounts DEF SessionsInv, SessionInv
<1>2. \A k : IsNumberOf(k, log[s]) => IsNumberOf(k, log'[s])
  BY DEF Grown, IsNumberOf
<1>3. ASSUME NEW W, NEW k, IsNumberOf(k, log[s]), IsPrefixOf(W, log[s], k)
      PROVE  IsPrefixOf(W, log'[s], k)
  <2>1. CASE log'[s] = log[s]
    BY <1>3, <2>1
  <2>2. ASSUME NEW o, log'[s] = log[s] \cup {o}, o.who \notin Used,
               o.seq \in Nat, o.seq >= 1
        PROVE  IsPrefixOf(W, log'[s], k)
    BY <1>1, <1>3, <2>2, PrefixKept
  <2>3. QED
    BY <2>1, <2>2 DEF Grown
<1>4. QED
  BY <1>2, <1>3

\* A step of c that keeps every session and lets its log grow at most keeps what
\* is known of the sessions and of the other requests.
LEMMA SessionsStep ==
  ASSUME RequestsInv, SessionsInv, NEW c \in Clients, StepOf(c),
         log' = [s \in Sessions |-> log'[s]],
         origin' = [s \in Sessions |-> origin'[s]],
         announced' \subseteq Sessions,
         \A s \in Sessions : Exists(s) => origin'[s] = origin[s] /\ Grown(s),
         \A s \in Sessions : Exists(s) \/ SessionInv(s)'
                             \/ (origin'[s] = origin[s] /\ log'[s] = log[s]),
         \A s \in Sessions : log'[s] = log[s] \/ GoodLog(log'[s], Used', Count'),
         PostInv(c)', BranchInv(c)'
  PROVE  SessionsInv'
<1>1. /\ Used \subseteq Used' /\ Count \in Nat /\ Count' \in Nat /\ Count <= Count'
  BY UsedCounts DEF StepOf
<1>2. \A s \in Sessions : Exists(s) =>
         /\ Exists(s)'
         /\ \A k : IsNumberOf(k, log[s]) => IsNumberOf(k, log'[s])
         /\ \A W, k : IsNumberOf(k, log[s]) /\ IsPrefixOf(W, log[s], k) =>
               IsPrefixOf(W, log'[s], k)
  BY GrownKeeps DEF Exists
<1>3. ASSUME NEW s \in Sessions PROVE SessionInv(s)'
  <2>1. SessionInv(s)
    BY DEF SessionsInv
  <2>2. GoodLog(log'[s], Used', Count')
    BY <1>1, <2>1, LogKept DEF SessionInv
  <2>3. CASE Exists(s)
    <3>1. origin'[s] = origin[s] /\ Grown(s) /\ Exists(s)'
      BY <1>2, <2>3
    <3>2. {Posted(m) : m \in {x \in log'[s] : x.copied}}
            = {Posted(m) : m \in {x \in log[s] : x.copied}}
      <4>1. {x \in log'[s] : x.copied} = {x \in log[s] : x.copied}
        BY <3>1 DEF Grown
      <4>2. QED
        BY <4>1
    <3>3. origin[s].kind = "branch" =>
             /\ GoodPoint(origin[s].from, origin[s].point)'
             /\ origin[s].point.inSource =>
                   IsPrefixOf({Posted(m) : m \in {x \in log[s] : x.copied}},
                              log'[origin[s].from], origin[s].point.seq)
      <4> SUFFICES ASSUME NEW f, NEW p, f = origin[s].from, p = origin[s].point,
                          origin[s].kind = "branch"
                   PROVE  /\ f \in Sessions /\ Exists(f)' /\ p.seq \in Nat
                          /\ p.inSource => IsNumberOf(p.seq, log'[f])
                          /\ p.inSource =>
                               IsPrefixOf({Posted(m) : m \in {x \in log[s] : x.copied}},
                                          log'[f], p.seq)
        BY <3>1 DEF GoodPoint, Exists
      <4>1. /\ f \in Sessions /\ Exists(f) /\ p.seq \in Nat
            /\ p.inSource => IsNumberOf(p.seq, log[f])
            /\ p.inSource =>
                 IsPrefixOf({Posted(m) : m \in {x \in log[s] : x.copied}},
                            log[f], p.seq)
        BY <2>1 DEF SessionInv, GoodPoint
      <4>2. QED
        BY <1>2, <4>1
    <3>4. QED
      BY <2>1, <2>2, <3>1, <3>2, <3>3 DEF SessionInv, GoodPoint, Exists
  <2>4. CASE ~Exists(s) /\ origin'[s] = origin[s] /\ log'[s] = log[s]
    BY <2>1, <2>2, <2>4 DEF SessionInv, Exists
  <2>5. QED
    BY <2>3, <2>4
<1>4. ASSUME NEW x \in Clients, x # c PROVE PostInv(x)'
  <2>1. PostInv(x) /\ req'[x] = req[x] /\ sent'[x] = sent[x]
    BY <1>4 DEF SessionsInv, StepOf
  <2> SUFFICES ASSUME req[x].op = "post", NEW s, s = req[x].session
               PROVE  PostInv(x)'
    BY <2>1 DEF PostInv
  <2>2. s \in Sessions /\ Exists(s) /\ req[x].seen \subseteq Used /\ Grown(s)
    BY <2>1 DEF PostInv
  <2>3. Exists(s)'
    BY <1>2, <2>2
  <2>4. req[x].step = "insert" =>
           GoodNumber(req[x].seq, req[x].seen, log'[s], Count')
    <3> SUFFICES ASSUME req[x].step = "insert"
                 PROVE  GoodNumber(req[x].seq, req[x].seen, log'[s], Count')
      OBVIOUS
    <3>1. GoodNumber(req[x].seq, req[x].seen, log[s], Count)
      BY <2>1 DEF PostInv
    <3>2. PICK o : log'[s] = log[s] \/
                   (log'[s] = log[s] \cup {o} /\ o.who \notin req[x].seen)
      BY <2>2 DEF Grown
    <3> DEFINE M == log'[s]  L == log[s]  n == Count  k == Count'
               S == req[x].seen  q == req[x].seq
    <3>3. /\ n \in Nat /\ k \in Nat /\ n <= k /\ GoodNumber(q, S, L, n)
          /\ M = L \/ (M = L \cup {o} /\ o.who \notin S)
      BY <1>1, <3>1, <3>2
    <3>4. GoodNumber(q, S, M, k)
      <4> HIDE DEF M, L, n, k, S, q
      <4>1. QED
        BY <3>3, NumberKept
    <3>5. QED
      BY <3>4
  <2>5. QED
    BY <1>1, <2>1, <2>2, <2>3, <2>4 DEF PostInv, Mine, Exists
<1>5. ASSUME NEW x \in Clients, x # c PROVE BranchInv(x)'
  <2>1. BranchInv(x) /\ req'[x] = req[x]
    BY <1>5 DEF SessionsInv, StepOf
  <2> SUFFICES ASSUME req[x].op = "branch", NEW f, NEW p,
                      f = req[x].from, p = req[x].point
               PROVE  BranchInv(x)'
    BY <2>1 DEF BranchInv
  <2>2. req[x].step # "emit" =>
          /\ f \in Sessions /\ Exists(f)' /\ p.seq \in Nat
          /\ p.inSource => IsNumberOf(p.seq, log'[f])
    BY <1>2, <2>1 DEF BranchInv, GoodPoint
  <2>3. req[x].step = "commit" =>
          /\ GoodLog(req[x].copies, Used', Count')
          /\ p.inSource => IsPrefixOf({m.who : m \in req[x].copies}, log'[f], p.seq)
    <3> SUFFICES ASSUME req[x].step = "commit"
                 PROVE  /\ GoodLog(req[x].copies, Used', Count')
                        /\ p.inSource =>
                             IsPrefixOf({m.who : m \in req[x].copies}, log'[f], p.seq)
      OBVIOUS
    <3>1. GoodLog(req[x].copies, Used', Count')
      BY <1>1, <2>1, LogKept DEF BranchInv
    <3>2. /\ f \in Sessions /\ Exists(f)
          /\ p.inSource => IsNumberOf(p.seq, log[f])
          /\ p.inSource =>
               IsPrefixOf({m.who : m \in req[x].copies}, log[f], p.seq)
      BY <2>1 DEF BranchInv, GoodPoint
    <3>3. QED
      BY <1>2, <3>1, <3>2
  <2>4. QED
    BY <2>1, <2>2, <2>3 DEF BranchInv, GoodPoint, Exists
<1>6. QED
  BY <1>3, <1>4, <1>5 DEF SessionsInv

LEMMA SessionsUntouched ==
  ASSUME RequestsInv, SessionsInv, NEW c \in Clients, StepOf(c),
         UNCHANGED sessionVars, PostInv(c)', BranchInv(c)'
  PROVE  SessionsInv'
<1>1. log' = log /\ origin' = origin /\ announced' = announced
  BY DEF sessionVars
<1>2. /\ log' = [s \in Sessions |-> log'[s]]
      /\ origin' = [s \in Sessions |-> origin'[s]]
      /\ announced' \subseteq Sessions
  BY <1>1 DEF SessionsInv
<1>3. \A s \in Sessions : log'[s] = log[s] /\ origin'[s] = origin[s]
  BY <1>1
<1>4. QED
  BY <1>2, <1>3, SessionsStep DEF Grown

LEMMA NextCreateSession ==
  ASSUME RequestsInv, SessionsInv, NEW c \in Clients, NEW s \in Sessions,
         CreateSession(c, s)
  PROVE  RequestsInv' /\ StepOf(c) /\ SessionsInv' /\ req'[c].op = "none"
<1>1. /\ ~Exists(s) /\ Once(c) /\ origin' = [origin EXCEPT ![s] = Root]
      /\ log' = log /\ announced' = announced
  BY DEF CreateSession
<1>2. RequestsInv' /\ StepOf(c) /\ req'[c].op = "none"
  BY <1>1, Answered
<1>3. PostInv(c)' /\ BranchInv(c)'
  BY <1>2 DEF PostInv, BranchInv
<1>4. origin'[s] = Root /\ \A t \in Sessions \ {s} : origin'[t] = origin[t]
  BY <1>1 DEF SessionsInv
<1>5. SessionInv(s)'
  <2>1. log'[s] = {}
    BY <1>1 DEF SessionsInv, SessionInv
  <2>2. origin'[s].kind = "root" /\ Exists(s)'
    BY <1>4 DEF Root, Absent, Exists
  <2>3. QED
    BY <2>1, <2>2 DEF SessionInv, GoodLog
<1>6. /\ log' = [t \in Sessions |-> log'[t]]
      /\ origin' = [t \in Sessions |-> origin'[t]]
      /\ announced' \subseteq Sessions
  BY <1>1 DEF SessionsInv
<1>7. \A t \in Sessions : log'[t] = log[t] /\ (t # s => origin'[t] = origin[t])
  BY <1>1, <1>4
<1>8. SessionsInv'
  BY <1>1, <1>2, <1>3, <1>5, <1>6, <1>7, SessionsStep DEF Grown
<1>9. QED
  BY <1>2, <1>8

LEMMA NextAddMessage ==
  ASSUME RequestsInv, SessionsInv, NEW c \in Clients, NEW s \in Sessions,
         AddMessage(c, s)
  PROVE  RequestsInv' /\ StepOf(c) /\ SessionsInv' /\ req'[c].op = "post"
<1> DEFINE S == {Posted(m) : m \in log[s]}
           w == NextTicket(c)
           r == [op |-> "post", step |-> "max", session |-> s, who |-> w, seen |-> S]
<1>1. Exists(s) /\ Start(c, r) /\ UNCHANGED sessionVars
  BY DEF AddMessage, sessionVars
<1>2. /\ r.op = "post" /\ r.step = "max" /\ r.session = s /\ r.who = w /\ r.seen = S
  OBVIOUS
<1>3. S \subseteq Used
  <2>1. GoodLog(log[s], Used, Count)
    BY DEF SessionsInv, SessionInv
  <2>2. \A m \in log[s] : m.who \in Used
    BY <2>1 DEF GoodLog
  <2>3. QED
    BY <2>2 DEF Posted
<1> HIDE DEF r, S, w
<1>4. /\ RequestsInv' /\ StepOf(c) /\ req'[c] = r
      /\ NextTicket(c) = <<c, sent'[c]>>
  BY <1>1, <1>2, Started
<1>5. PostInv(c)'
  <2>1. Exists(s)'
    BY <1>1 DEF sessionVars, Exists
  <2>2. S \subseteq Used' /\ w = Mine(c)'
    BY <1>3, <1>4 DEF StepOf, Mine, w
  <2>3. QED
    BY <1>2, <1>4, <2>1, <2>2 DEF PostInv, Exists
<1>6. BranchInv(c)'
  BY <1>2, <1>4 DEF BranchInv
<1>7. QED
  BY <1>1, <1>2, <1>4, <1>5, <1>6, SessionsUntouched

LEMMA NextReadMaxSequence ==
  ASSUME RequestsInv, SessionsInv, NEW c \in Clients, ReadMaxSequence(c)
  PROVE  RequestsInv' /\ StepOf(c) /\ SessionsInv' /\ req'[c].op = "post"
<1>0. PICK s \in Sessions : s = req[c].session
  BY DEF ReadMaxSequence, At, SessionsInv, PostInv
<1> DEFINE q == NextSequence(s)
           r == [op |-> "post", step |-> "insert", session |-> s,
                 who |-> req[c].who, seen |-> req[c].seen, seq |-> q]
<1>1. /\ req[c].op = "post" /\ PostInv(c) /\ Goto(c, r) /\ UNCHANGED sessionVars
  BY <1>0 DEF ReadMaxSequence, At, sessionVars, SessionsInv
<1>2. Exists(s) /\ req[c].who = Mine(c) /\ req[c].seen \subseteq Used
  BY <1>0, <1>1 DEF PostInv
<1>3. /\ r.op = "post" /\ r.step = "insert" /\ r.session = s
      /\ r.who = req[c].who /\ r.seen = req[c].seen /\ r.seq = q
  OBVIOUS
<1>4. q = Max({0} \cup {m.seq : m \in log[s]}) + 1
  BY DEF NextSequence, Numbers
<1>5. Committing(c)
  BY <1>1 DEF Committing
<1> HIDE DEF r, q
<1>6. RequestsInv' /\ StepOf(c) /\ req'[c] = r /\ sent' = sent
  BY <1>1, <1>3, <1>5, Continued
<1>7. GoodNumber(q, req[c].seen, log[s], Count)
  <2>1. GoodLog(log[s], Used, Count)
    BY <1>2 DEF SessionsInv, SessionInv
  <2>2. QED
    BY <1>4, <2>1, UsedCounts, NumberRead
<1>8. GoodNumber(q, req[c].seen, log[s], Count')
  <2>1. Count \in Nat /\ Count' \in Nat /\ Count <= Count'
    BY <1>6, UsedCounts DEF StepOf
  <2>2. QED
    BY <1>7, <2>1, NumberStays
<1>9. PostInv(c)'
  <2>1. log' = log /\ Exists(s)' /\ Mine(c)' = Mine(c) /\ Used \subseteq Used'
    BY <1>1, <1>2, <1>6 DEF sessionVars, Exists, Mine, StepOf
  <2>2. QED
    BY <1>2, <1>3, <1>6, <1>8, <2>1 DEF PostInv, Exists
<1>10. BranchInv(c)'
  BY <1>3, <1>6 DEF BranchInv
<1>11. QED
  BY <1>1, <1>3, <1>6, <1>9, <1>10, SessionsUntouched

LEMMA NextInsertMessage ==
  ASSUME RequestsInv, SessionsInv, NEW c \in Clients, InsertMessage(c)
  PROVE  RequestsInv' /\ StepOf(c) /\ SessionsInv' /\ req'[c].op = "none"
<1>1. req[c].op = "post" /\ req[c].step = "insert" /\ PostInv(c)
  BY DEF InsertMessage, At, SessionsInv
<1>2. PICK s \in Sessions : s = req[c].session
  BY <1>1 DEF PostInv
<1>3. PICK o : o = [seq |-> req[c].seq, who |-> req[c].who, seen |-> req[c].seen,
                    copied |-> FALSE]
  OBVIOUS
<1>4. /\ log' = [log EXCEPT ![s] = @ \cup {o}]
      /\ Finish(c) /\ origin' = origin /\ announced' = announced
  BY <1>2, <1>3 DEF InsertMessage
<1>5. /\ Exists(s) /\ req[c].who = Mine(c) /\ req[c].seen \in SUBSET Used
      /\ GoodNumber(req[c].seq, req[c].seen, log[s], Count)
  BY <1>1, <1>2 DEF PostInv
<1>6. /\ RequestsInv' /\ StepOf(c) /\ req'[c].op = "none" /\ sent' = sent
      /\ Committing(c)
  BY <1>1, <1>4, Finished DEF Committing
<1>7. Mine(c) \notin Used /\ Mine(c) \in Used' /\ Count + 1 <= Count'
  <2>1. ~Committing(c)'
    BY <1>6 DEF Committing
  <2>2. QED
    BY <1>6, <2>1, TicketUnseen, TicketStored
<1>8. /\ o.seq = req[c].seq /\ o.who = Mine(c) /\ o.copied = FALSE
      /\ o.seq \in Nat /\ o.seq >= 1
  <2>1. req[c].seq \in 1 .. (Count + 1) /\ Count \in Nat
    BY <1>5, UsedCounts DEF GoodNumber
  <2>2. req[c].seq \in Nat /\ req[c].seq >= 1
    BY <2>1
  <2>3. o.seq = req[c].seq /\ o.who = req[c].who /\ o.copied = FALSE
    BY <1>3
  <2>4. QED
    BY <1>5, <2>2, <2>3
<1>9. log'[s] = log[s] \cup {o} /\ \A t \in Sessions \ {s} : log'[t] = log[t]
  BY <1>4 DEF SessionsInv
<1>10. GoodLog(log'[s], Used', Count')
  <2> DEFINE U == Used  V == Used'  n == Count  k == Count'  L == log[s]
             q == req[c].seq  w == Mine(c)  S == req[c].seen
  <2>1. /\ U \subseteq V /\ n \in Nat /\ k \in Nat /\ n + 1 <= k
        /\ GoodLog(L, U, n) /\ w \in V /\ w \notin U /\ S \in SUBSET U
        /\ GoodNumber(q, S, L, n)
        /\ o = [seq |-> q, who |-> w, seen |-> S, copied |-> FALSE]
    BY <1>3, <1>5, <1>6, <1>7, UsedCounts DEF StepOf, SessionsInv, SessionInv
  <2>2. GoodLog(L \cup {o}, V, k)
    <3> HIDE DEF U, V, n, k, L, q, w, S
    <3>1. QED
      BY <2>1, LogGrows
  <2>3. QED
    BY <1>9, <2>2
<1>11. Grown(s) /\ \A t \in Sessions \ {s} : Grown(t)
  BY <1>7, <1>8, <1>9 DEF Grown
<1>12. PostInv(c)' /\ BranchInv(c)'
  BY <1>6 DEF PostInv, BranchInv
<1>13. /\ log' = [t \in Sessions |-> log'[t]]
       /\ origin' = [t \in Sessions |-> origin'[t]]
       /\ announced' \subseteq Sessions
  BY <1>4 DEF SessionsInv
<1>14. SessionsInv'
  BY <1>4, <1>5, <1>6, <1>9, <1>10, <1>11, <1>12, <1>13, SessionsStep
<1>15. QED
  BY <1>6, <1>14

LEMMA NextBranchSession ==
  ASSUME RequestsInv, SessionsInv, NEW c \in Clients, NEW s \in Sessions,
         NEW p \in BranchPoints(s), BranchSession(c, s, p)
  PROVE  RequestsInv' /\ StepOf(c) /\ SessionsInv' /\ req'[c].op = "branch"
<1> DEFINE r == [op |-> "branch", step |-> "select", from |-> s, point |-> p]
<1>1. Exists(s) /\ Start(c, r) /\ UNCHANGED sessionVars
  BY DEF BranchSession, sessionVars
<1>2. r.op = "branch" /\ r.step = "select" /\ r.from = s /\ r.point = p
  OBVIOUS
<1>3. p.seq \in Nat /\ (p.inSource => IsNumberOf(p.seq, log[s]))
  <2>1. \A t \in Sessions : \A m \in log[t] : m.seq \in Nat
    <3>1. \A t \in Sessions : GoodLog(log[t], Used, Count)
      BY DEF SessionsInv, SessionInv
    <3>2. QED
      BY <3>1 DEF GoodLog
  <2>2. CASE p \in {[seq |-> m.seq, inSource |-> TRUE] : m \in log[s]}
    BY <2>1, <2>2 DEF IsNumberOf
  <2>3. CASE p \in {[seq |-> m.seq, inSource |-> FALSE] :
                      m \in UNION {log[t] : t \in Sessions \ {s}}}
    BY <2>1, <2>3
  <2>4. CASE p = [seq |-> 0, inSource |-> FALSE]
    BY <2>4
  <2>5. QED
    BY <2>2, <2>3, <2>4 DEF BranchPoints
<1> HIDE DEF r
<1>4. RequestsInv' /\ StepOf(c) /\ req'[c] = r
  BY <1>1, <1>2, Started
<1>5. PostInv(c)'
  BY <1>2, <1>4 DEF PostInv
<1>6. BranchInv(c)'
  <2>1. log' = log /\ Exists(s)'
    BY <1>1 DEF sessionVars, Exists
  <2>2. QED
    BY <1>2, <1>3, <1>4, <2>1 DEF BranchInv, GoodPoint, Exists
<1>7. QED
  BY <1>1, <1>2, <1>4, <1>5, <1>6, SessionsUntouched

\* The copies are the prefix as it is now.
LEMMA NextSelectCopies ==
  ASSUME RequestsInv, SessionsInv, NEW c \in Clients, SelectCopies(c)
  PROVE  RequestsInv' /\ StepOf(c) /\ SessionsInv' /\ req'[c].op = "branch"
<1>0. PICK s, p : s \in Sessions /\ s = req[c].from /\ p = req[c].point
  BY DEF SelectCopies, At, SessionsInv, BranchInv, GoodPoint
<1> s \in Sessions
  BY <1>0
<1> DEFINE C == CopiedMessages(s, p.seq)
           r == [op |-> "branch", step |-> "commit", from |-> s, point |-> p,
                 copies |-> C]
<1>1. /\ req[c].op = "branch" /\ req[c].step = "select" /\ BranchInv(c)
      /\ Goto(c, r) /\ UNCHANGED sessionVars
  BY <1>0 DEF SelectCopies, At, sessionVars, SessionsInv
<1>2. /\ Exists(s) /\ p.seq \in Nat
      /\ p.inSource => IsNumberOf(p.seq, log[s])
  BY <1>0, <1>1 DEF BranchInv, GoodPoint
<1>3. /\ r.op = "branch" /\ r.step = "commit" /\ r.from = s /\ r.point = p
      /\ r.copies = C
  OBVIOUS
<1>4. /\ GoodLog(C, Used, Count)
      /\ \A m \in C : m.copied
      /\ IsPrefixOf({m.who : m \in C}, log[s], p.seq)
  <2>1. GoodLog(log[s], Used, Count)
    BY DEF SessionsInv, SessionInv
  <2>2. C = Copies(log[s], p.seq)
    BY DEF CopiedMessages, Copies
  <2> HIDE DEF C
  <2>3. QED
    BY <1>2, <2>1, <2>2, UsedCounts, CopiesGood
<1> HIDE DEF r, C
<1>5. RequestsInv' /\ StepOf(c) /\ req'[c] = r
  BY <1>1, <1>3, Continued
<1>6. PostInv(c)'
  BY <1>3, <1>5 DEF PostInv
<1>7. GoodLog(C, Used', Count')
  <2>1. Used \subseteq Used' /\ Count' \in Nat /\ Count <= Count'
    BY <1>5 DEF StepOf
  <2>2. QED
    BY <1>4, <2>1, UsedCounts, LogKept
<1>8. BranchInv(c)'
  <2>1. log' = log /\ Exists(s)'
    BY <1>1, <1>2 DEF sessionVars, Exists
  <2>2. QED
    BY <1>2, <1>3, <1>4, <1>5, <1>7, <2>1 DEF BranchInv, GoodPoint, Exists
<1>9. QED
  BY <1>1, <1>3, <1>5, <1>6, <1>8, SessionsUntouched

LEMMA NextCommitBranch ==
  ASSUME RequestsInv, SessionsInv, NEW c \in Clients, NEW b \in Sessions,
         CommitBranch(c, b)
  PROVE  RequestsInv' /\ StepOf(c) /\ SessionsInv' /\ req'[c].op = "branch"
<1>0. PICK s, p, C :
         s \in Sessions /\ s = req[c].from /\ p = req[c].point /\ C = req[c].copies
  BY DEF CommitBranch, At, SessionsInv, BranchInv, GoodPoint
<1> s \in Sessions
  BY <1>0
<1> DEFINE r == [op |-> "branch", step |-> "emit", branch |-> b]
           o == [kind |-> "branch", from |-> s, point |-> p]
<1>1. /\ req[c].op = "branch" /\ req[c].step = "commit" /\ BranchInv(c)
      /\ ~Exists(b) /\ Goto(c, r) /\ announced' = announced
      /\ origin' = [origin EXCEPT ![b] = o]
      /\ log' = [log EXCEPT ![b] = C]
  BY <1>0 DEF CommitBranch, At, SessionsInv
<1>2. /\ Exists(s) /\ p.seq \in Nat
      /\ p.inSource => IsNumberOf(p.seq, log[s])
      /\ GoodLog(C, Used, Count) /\ \A m \in C : m.copied
      /\ p.inSource => IsPrefixOf({m.who : m \in C}, log[s], p.seq)
  BY <1>0, <1>1 DEF BranchInv, GoodPoint
<1>3. r.op = "branch" /\ r.step = "emit" /\ r.branch = b
  OBVIOUS
<1>4. o.kind = "branch" /\ o.from = s /\ o.point = p /\ o # Absent
  BY DEF Absent
<1> HIDE DEF r, o
<1>5. RequestsInv' /\ StepOf(c) /\ req'[c] = r
  BY <1>1, <1>3, Continued
<1>6. PostInv(c)' /\ BranchInv(c)'
  BY <1>3, <1>5 DEF PostInv, BranchInv
<1>7. /\ log'[b] = C /\ origin'[b] = o /\ s # b
      /\ \A t \in Sessions \ {b} : log'[t] = log[t] /\ origin'[t] = origin[t]
      /\ log' = [t \in Sessions |-> log'[t]]
      /\ origin' = [t \in Sessions |-> origin'[t]]
      /\ announced' \subseteq Sessions
  BY <1>1, <1>2 DEF SessionsInv
<1>8. GoodLog(C, Used', Count')
  <2>1. Used \subseteq Used' /\ Count' \in Nat /\ Count <= Count'
    BY <1>5 DEF StepOf
  <2>2. QED
    BY <1>2, <2>1, UsedCounts, LogKept
<1>9. SessionInv(b)'
  <2>1. {Posted(m) : m \in {x \in C : x.copied}} = {m.who : m \in C}
    <3>1. {x \in C : x.copied} = C
      BY <1>2
    <3>2. QED
      BY <3>1 DEF Posted
  <2>2. Exists(b)' /\ Exists(s)' /\ log'[s] = log[s]
    BY <1>2, <1>4, <1>7 DEF Exists
  <2>3. p.inSource => IsPrefixOf({Posted(m) : m \in {x \in log'[b] : x.copied}},
                                 log'[s], p.seq)
    BY <1>2, <1>7, <2>1, <2>2
  <2>4. QED
    BY <1>2, <1>4, <1>7, <1>8, <2>2, <2>3 DEF SessionInv, GoodPoint, Exists
<1>10. \A t \in Sessions : Exists(t) => t # b /\ origin'[t] = origin[t] /\ Grown(t)
  BY <1>1, <1>7 DEF Grown
<1>11. \A t \in Sessions : t = b \/ (log'[t] = log[t] /\ origin'[t] = origin[t])
  BY <1>7
<1>12. SessionsInv'
  BY <1>5, <1>6, <1>7, <1>8, <1>9, <1>10, <1>11, SessionsStep
<1>13. QED
  BY <1>3, <1>5, <1>12

LEMMA NextEmitBranched ==
  ASSUME RequestsInv, SessionsInv, NEW c \in Clients, EmitBranched(c)
  PROVE  RequestsInv' /\ StepOf(c) /\ SessionsInv' /\ req'[c].op = "none"
<1>1. /\ req[c].op = "branch" /\ req[c].step = "emit" /\ BranchInv(c) /\ Finish(c)
      /\ announced' = announced \cup {req[c].branch}
      /\ log' = log /\ origin' = origin
  BY DEF EmitBranched, At, SessionsInv
<1>2. RequestsInv' /\ StepOf(c) /\ req'[c].op = "none"
  BY <1>1, Finished
<1>3. PostInv(c)' /\ BranchInv(c)'
  BY <1>2 DEF PostInv, BranchInv
<1>4. /\ log' = [t \in Sessions |-> log'[t]]
      /\ origin' = [t \in Sessions |-> origin'[t]]
      /\ announced' \subseteq Sessions
  BY <1>1 DEF SessionsInv, BranchInv
<1>5. \A t \in Sessions : log'[t] = log[t] /\ origin'[t] = origin[t]
  BY <1>1
<1>6. SessionsInv'
  BY <1>2, <1>3, <1>4, <1>5, SessionsStep DEF Grown
<1>7. QED
  BY <1>2, <1>6

LEMMA NextSessions ==
  ASSUME RequestsInv, SessionsInv, NEW c \in Clients, SessionsNext(c)
  PROVE  /\ RequestsInv' /\ StepOf(c) /\ SessionsInv'
         /\ req'[c].op \in {"none", "post", "branch"}
<1>1. ASSUME NEW s \in Sessions, CreateSession(c, s) \/ AddMessage(c, s) \/ CommitBranch(c, s)
      PROVE  /\ RequestsInv' /\ StepOf(c) /\ SessionsInv'
             /\ req'[c].op \in {"none", "post", "branch"}
  BY <1>1, NextCreateSession, NextAddMessage, NextCommitBranch
<1>2. ASSUME NEW s \in Sessions, NEW p \in BranchPoints(s), BranchSession(c, s, p)
      PROVE  /\ RequestsInv' /\ StepOf(c) /\ SessionsInv'
             /\ req'[c].op \in {"none", "post", "branch"}
  BY <1>2, NextBranchSession
<1>3. CASE ReadMaxSequence(c) \/ InsertMessage(c) \/ SelectCopies(c) \/ EmitBranched(c)
  BY <1>3, NextReadMaxSequence, NextInsertMessage, NextSelectCopies, NextEmitBranched
<1>4. QED
  BY <1>1, <1>2, <1>3 DEF SessionsNext

----------------------------------------------------------------------------
(* Artifacts                                                                *)

\* What was known of the rows of an artifact stays known as more tickets are used.
LEMMA RowsKept ==
  ASSUME NEW R, NEW U, NEW V, U \subseteq V, NEW n \in Nat, NEW k \in Nat, n <= k,
         R \subseteq [version : 1 .. n, who : U]
  PROVE  R \subseteq [version : 1 .. k, who : V]
<1>1. 1 .. n \subseteq 1 .. k
  OBVIOUS
<1>2. QED
  BY <1>1

LEMMA RowVersions ==
  ASSUME RequestsInv, ArtifactsInv, NEW a \in Artifacts
  PROVE  /\ \A r \in rows[a] : r.version \in Versions /\ r.version \in 1 .. Count
                               /\ r.who \in Used
<1>1. rows[a] \subseteq [version : 1 .. Count, who : Used]
  BY DEF ArtifactsInv, ArtifactInv
<1>2. 1 .. Count \subseteq Versions
  BY CountRoom, UsedCounts, TicketsFinite, FS_CardinalityType DEF Versions
<1>3. QED
  BY <1>1, <1>2

\* A step of c that changes neither rows nor files.
LEMMA ArtifactsUntouched ==
  ASSUME RequestsInv, ArtifactsInv, NEW c \in Clients, StepOf(c),
         UNCHANGED <<rows, file>>, published' \subseteq Artifacts \X Tickets,
         SaveInv(c)'
  PROVE  ArtifactsInv'
<1>1. /\ Used \subseteq Used' /\ Count \in Nat /\ Count' \in Nat /\ Count <= Count'
  BY UsedCounts DEF StepOf
<1>2. rows' = rows /\ file' = file
  OBVIOUS
<1>3. ASSUME NEW a \in Artifacts PROVE ArtifactInv(a)'
  <2>1. ArtifactInv(a)
    BY DEF ArtifactsInv
  <2>2. rows[a] \subseteq [version : 1 .. Count', who : Used']
    BY <1>1, <2>1, RowsKept DEF ArtifactInv
  <2>3. \A v \in Versions : file[a][v].state # "missing" => file[a][v].seen \subseteq Used'
    BY <1>1, <2>1 DEF ArtifactInv
  <2>4. QED
    BY <1>2, <2>1, <2>2, <2>3 DEF ArtifactInv
<1>4. ASSUME NEW x \in Clients, x # c PROVE SaveInv(x)'
  <2>1. SaveInv(x) /\ req'[x] = req[x] /\ sent'[x] = sent[x]
    BY <1>4 DEF ArtifactsInv, StepOf
  <2>2. 1 .. (Count + 1) \subseteq 1 .. (Count' + 1)
    BY <1>1, Wider
  <2>3. QED
    BY <1>1, <1>2, <2>1, <2>2 DEF SaveInv, Mine
<1>5. QED
  BY <1>2, <1>3, <1>4 DEF ArtifactsInv

LEMMA NextCreateArtifact ==
  ASSUME RequestsInv, ArtifactsInv, NEW c \in Clients, NEW a \in Artifacts,
         CreateArtifact(c, a)
  PROVE  RequestsInv' /\ StepOf(c) /\ ArtifactsInv' /\ req'[c].op = "save"
<1> DEFINE S == {r.who : r \in rows[a]}
           w == NextTicket(c)
           r == [op |-> "save", step |-> "max", artifact |-> a, who |-> w, seen |-> S]
<1>1. Start(c, r) /\ UNCHANGED <<rows, file, published>>
  BY DEF CreateArtifact
<1>2. r.op = "save" /\ r.step = "max" /\ r.artifact = a /\ r.who = w /\ r.seen = S
  OBVIOUS
<1>3. S \subseteq Used
  BY RowVersions
<1> HIDE DEF r, S, w
<1>4. RequestsInv' /\ StepOf(c) /\ req'[c] = r /\ NextTicket(c) = <<c, sent'[c]>>
  BY <1>1, <1>2, Started
<1>5. SaveInv(c)'
  <2>1. S \subseteq Used' /\ w = Mine(c)'
    BY <1>3, <1>4 DEF StepOf, Mine, w
  <2>2. QED
    BY <1>2, <1>4, <2>1 DEF SaveInv
<1>6. published' \subseteq Artifacts \X Tickets
  BY <1>1 DEF ArtifactsInv
<1>7. QED
  BY <1>1, <1>2, <1>4, <1>5, <1>6, ArtifactsUntouched

LEMMA NextReadMaxVersion ==
  ASSUME RequestsInv, ArtifactsInv, NEW c \in Clients, ReadMaxVersion(c)
  PROVE  RequestsInv' /\ StepOf(c) /\ ArtifactsInv' /\ req'[c].op = "save"
<1>0. PICK a \in Artifacts : a = req[c].artifact
  BY DEF ReadMaxVersion, At, ArtifactsInv, SaveInv
<1> DEFINE N == {r.version : r \in rows[a]}
           v == Max({0} \cup N) + 1
           r == Saving(c, "write", v)
<1>1. /\ req[c].op = "save" /\ req[c].step = "max" /\ SaveInv(c) /\ Goto(c, r)
      /\ UNCHANGED <<rows, file, published>>
  BY <1>0 DEF ReadMaxVersion, At, ArtifactsInv, NextArtifactVersion
<1>2. /\ r.op = "save" /\ r.step = "write" /\ r.artifact = a /\ r.version = v
      /\ r.who = req[c].who /\ r.seen = req[c].seen
  BY <1>0 DEF Saving
<1>3. N \in SUBSET (1 .. Count)
  BY RowVersions
<1>4. v \in 1 .. (Count + 1) /\ \A x \in rows[a] : x.version < v
  <2>1. \A x \in rows[a] : x.version \in N
    OBVIOUS
  <2> HIDE DEF N
  <2>2. QED
    BY <1>3, <2>1, UsedCounts, MaxPlusOne
<1>5. Committing(c)
  BY <1>1 DEF Committing
<1> HIDE DEF r, v
<1>6. RequestsInv' /\ StepOf(c) /\ req'[c] = r /\ sent' = sent
  BY <1>1, <1>2, <1>5, Continued
<1>7. SaveInv(c)'
  <2>1. v \in 1 .. (Count' + 1) /\ Used \subseteq Used' /\ Mine(c)' = Mine(c)
    <3>1. 1 .. (Count + 1) \subseteq 1 .. (Count' + 1)
      BY <1>6, UsedCounts, Wider DEF StepOf
    <3>2. QED
      BY <1>4, <1>6, <3>1 DEF StepOf, Mine
  <2>2. rows' = rows
    BY <1>1
  <2>3. QED
    BY <1>0, <1>1, <1>2, <1>4, <1>6, <2>1, <2>2 DEF SaveInv
<1>8. published' \subseteq Artifacts \X Tickets
  BY <1>1 DEF ArtifactsInv
<1>9. QED
  BY <1>1, <1>2, <1>6, <1>7, <1>8, ArtifactsUntouched

LEMMA NextEmitCreated ==
  ASSUME RequestsInv, ArtifactsInv, NEW c \in Clients, EmitCreated(c)
  PROVE  RequestsInv' /\ StepOf(c) /\ ArtifactsInv' /\ req'[c].op = "none"
<1>1. /\ req[c].op = "save" /\ SaveInv(c) /\ Finish(c)
      /\ published' = published \cup {<<req[c].artifact, req[c].who>>}
      /\ UNCHANGED <<rows, file>>
  BY DEF EmitCreated, At, ArtifactsInv
<1>2. RequestsInv' /\ StepOf(c) /\ req'[c].op = "none"
  BY <1>1, Finished
<1>3. SaveInv(c)'
  BY <1>2 DEF SaveInv
<1>4. Mine(c) \in Tickets
  <2>1. sent[c] \in 0 .. MaxRequests /\ sent[c] > 0
    BY <1>1 DEF RequestsInv
  <2>2. sent[c] \in 1 .. MaxRequests
    BY <2>1, RequestsAssumption
  <2>3. QED
    BY <2>2 DEF Mine, Tickets
<1>5. published' \subseteq Artifacts \X Tickets
  BY SMTT(30), <1>1, <1>4 DEF ArtifactsInv, SaveInv
<1>6. QED
  BY <1>1, <1>2, <1>3, <1>5, ArtifactsUntouched

\* The text is written to a file of no row that the request knew of.
LEMMA NextSaveText ==
  ASSUME RequestsInv, ArtifactsInv, NEW c \in Clients, SaveText(c)
  PROVE  RequestsInv' /\ StepOf(c) /\ ArtifactsInv' /\ req'[c].op \in {"none", "save"}
<1>0. PICK a, v : a \in Artifacts /\ a = req[c].artifact /\ v = req[c].version
  BY DEF SaveText, At, ArtifactsInv, SaveInv
<1> a \in Artifacts
  BY <1>0
<1>1. PICK state \in {"whole", "torn"} :
        /\ file' = [file EXCEPT ![a][v] =
                      [state |-> state, who |-> req[c].who, seen |-> req[c].seen]]
        /\ IF state = "whole" THEN Goto(c, Saving(c, "insert", v)) ELSE Finish(c)
  BY <1>0 DEF SaveText
<1>2. /\ req[c].op = "save" /\ req[c].step = "write" /\ SaveInv(c)
      /\ rows' = rows /\ published' = published
  BY DEF SaveText, At, ArtifactsInv
<1> DEFINE f == [state |-> state, who |-> req[c].who, seen |-> req[c].seen]
           r == Saving(c, "insert", v)
<1>3. f.state = state /\ f.who = req[c].who /\ f.seen = req[c].seen
  OBVIOUS
<1>4. /\ r.op = "save" /\ r.step = "insert" /\ r.artifact = a /\ r.version = v
      /\ r.who = req[c].who /\ r.seen = req[c].seen
  BY <1>0 DEF Saving
<1>5. Committing(c) /\ Mine(c) \in Tickets /\ Mine(c) \notin Used
  BY <1>2, TicketUnseen DEF Committing
<1>6. /\ req[c].who = Mine(c) /\ req[c].seen \subseteq Used
      /\ v \in 1 .. (Count + 1) /\ \A x \in rows[a] : x.who \in f.seen => x.version < v
  BY <1>0, <1>2, <1>3 DEF SaveInv
<1>7. v \in Versions
  <2>1. Count + 1 <= Cardinality(Tickets) /\ Cardinality(Tickets) \in Nat
    BY <1>5, TicketRoom, TicketsFinite, FS_CardinalityType
  <2>2. QED
    BY <1>6, <2>1, UsedCounts DEF Versions
<1> HIDE DEF f, r
<1>8. /\ RequestsInv' /\ StepOf(c) /\ sent' = sent
      /\ (req'[c] = r /\ state = "whole") \/ req'[c].op = "none"
  <2>1. CASE state = "whole"
    <3>1. Goto(c, r)
      BY <1>1, <2>1 DEF r
    <3>2. QED
      BY <1>2, <1>4, <1>5, <2>1, <3>1, Continued
  <2>2. CASE state # "whole"
    <3>1. Finish(c)
      BY <1>1, <2>2
    <3>2. QED
      BY <1>2, <3>1, Finished
  <2>3. QED
    BY <2>1, <2>2
<1>9. /\ file' = [x \in Artifacts |-> file'[x]]
      /\ file'[a] = [i \in Versions |-> file'[a][i]]
      /\ file'[a][v] = f
      /\ \A i \in Versions \ {v} : file'[a][i] = file[a][i]
      /\ \A x \in Artifacts \ {a} : file'[x] = file[x]
  <2>1. file = [x \in Artifacts |-> file[x]] /\ file[a] = [i \in Versions |-> file[a][i]]
    BY DEF ArtifactsInv, ArtifactInv
  <2>2. file' = [file EXCEPT ![a] = [file[a] EXCEPT ![v] = f]]
    BY <1>1, <2>1 DEF f
  <2> DEFINE g == [file[a] EXCEPT ![v] = f]
  <2>3. g = [i \in Versions |-> g[i]] /\ g[v] = f /\ \A i \in Versions \ {v} : g[i] = file[a][i]
    BY <1>7, <2>1
  <2>4. file' = [x \in Artifacts |-> file'[x]] /\ file'[a] = g
        /\ \A x \in Artifacts \ {a} : file'[x] = file[x]
    BY <2>1, <2>2
  <2> HIDE DEF g
  <2>5. QED
    BY <2>3, <2>4
<1>10. /\ Used \subseteq Used' /\ Count \in Nat /\ Count' \in Nat /\ Count <= Count'
  BY <1>8, UsedCounts DEF StepOf
<1>11. ASSUME NEW b \in Artifacts PROVE ArtifactInv(b)'
  <2>1. ArtifactInv(b)
    BY DEF ArtifactsInv
  <2>2. rows[b] \subseteq [version : 1 .. Count', who : Used']
    BY <1>10, <2>1, RowsKept DEF ArtifactInv
  <2>3. \A x \in rows[b] : x.version \in Versions /\ x.who \in Used
    BY RowVersions
  <2>4. file'[b] = [i \in Versions |-> file'[b][i]]
    BY <1>9, <2>1 DEF ArtifactInv
  <2>5. \A i \in Versions :
          /\ file'[b][i].state \in {"missing", "whole", "torn"}
          /\ file'[b][i].state # "missing" => file'[b][i].seen \subseteq Used'
    BY <1>3, <1>6, <1>9, <1>10, <2>1 DEF ArtifactInv
  <2>6. ASSUME NEW x \in rows[b]
        PROVE  /\ file'[b][x.version].state \in {"whole", "torn"}
               /\ file'[b][x.version].who = x.who => file'[b][x.version].state = "whole"
               /\ x.who \notin file'[b][x.version].seen
    <3>1. x.version \in Versions /\ x.who # Mine(c)
      BY <1>5, <2>3
    <3>2. CASE b = a /\ x.version = v
      <4>1. x.who \notin f.seen
        <5>1. x.version \in Nat
          BY <3>1 DEF Versions
        <5>2. QED
          BY <1>6, <3>2, <5>1
      <4>2. QED
        BY <1>3, <1>6, <1>9, <3>1, <3>2, <4>1
    <3>3. CASE ~(b = a /\ x.version = v)
      <4>1. file'[b][x.version] = file[b][x.version]
        BY <1>9, <3>1, <3>3
      <4>2. QED
        BY <2>1, <4>1 DEF ArtifactInv
    <3>4. QED
      BY <3>2, <3>3
  <2>7. QED
    BY <1>2, <2>2, <2>4, <2>5, <2>6 DEF ArtifactInv
<1>12. ASSUME NEW x \in Clients PROVE SaveInv(x)'
  <2>1. CASE x = c
    <3>1. CASE req'[c].op = "none"
      BY <2>1, <3>1 DEF SaveInv
    <3>2. CASE req'[c] = r /\ state = "whole"
      <4>1. v \in 1 .. (Count' + 1) /\ Mine(c)' = Mine(c)
        <5>1. 1 .. (Count + 1) \subseteq 1 .. (Count' + 1)
          BY <1>10, Wider
        <5>2. QED
          BY <1>6, <1>8, <5>1 DEF Mine
      <4>2. file'[r.artifact][r.version].state = "whole"
        BY <1>3, <1>4, <1>9, <3>2
      <4>3. r.seen \subseteq Used' /\ \A y \in rows[a] : y.who \in r.seen => y.version < v
        BY <1>3, <1>4, <1>6, <1>10
      <4>4. QED
        BY <1>2, <1>4, <1>6, <2>1, <3>2, <4>1, <4>2, <4>3 DEF SaveInv
    <3>3. QED
      BY <1>8, <3>1, <3>2
  <2>2. CASE x # c
    <3>1. SaveInv(x) /\ req'[x] = req[x] /\ sent'[x] = sent[x]
      BY <1>8, <2>2 DEF ArtifactsInv, StepOf
    <3> SUFFICES ASSUME req[x].op = "save", NEW b, b = req[x].artifact,
                        NEW i, i = req[x].version
                 PROVE  SaveInv(x)'
      BY <3>1 DEF SaveInv
    <3>2. b \in Artifacts /\ req[x].seen \subseteq Used'
      BY <1>10, <3>1 DEF SaveInv
    <3>3. 1 .. (Count + 1) \subseteq 1 .. (Count' + 1)
      BY <1>10, Wider
    <3>4. req[x].step = "insert" =>
            /\ file'[b][i].state \in {"whole", "torn"}
            /\ file'[b][i].who = Mine(x) => file'[b][i].state = "whole"
      <4> SUFFICES ASSUME req[x].step = "insert"
                   PROVE  /\ file'[b][i].state \in {"whole", "torn"}
                          /\ file'[b][i].who = Mine(x) => file'[b][i].state = "whole"
        OBVIOUS
      <4>1. /\ file[b][i].state \in {"whole", "torn"}
            /\ file[b][i].who = Mine(x) => file[b][i].state = "whole"
        BY <3>1 DEF SaveInv
      <4>2. Mine(x) # Mine(c)
        BY <2>2 DEF Mine
      <4>3. i \in Versions
        <5>1. Committing(x) /\ i \in 1 .. (Count + 1)
          BY <3>1 DEF SaveInv, Committing
        <5>2. Count + 1 <= Cardinality(Tickets) /\ Cardinality(Tickets) \in Nat
          BY <5>1, TicketRoom, TicketsFinite, FS_CardinalityType
        <5>3. QED
          BY <5>1, <5>2, UsedCounts DEF Versions
      <4>4. CASE b = a /\ i = v
        BY <1>3, <1>6, <1>9, <4>2, <4>4
      <4>5. CASE ~(b = a /\ i = v)
        BY <1>9, <3>2, <4>1, <4>3, <4>5
      <4>6. QED
        BY <4>4, <4>5
    <3>5. Mine(x)' = Mine(x)
      BY <3>1 DEF Mine
    <3>6. QED
      BY <1>2, <3>1, <3>2, <3>3, <3>4, <3>5 DEF SaveInv
  <2>3. QED
    BY <2>1, <2>2
<1>13. ArtifactsInv'
  BY <1>2, <1>9, <1>11, <1>12 DEF ArtifactsInv
<1>14. QED
  BY <1>4, <1>8, <1>13

\* The row joins those of the artifact; its file is there, and nobody who wrote
\* the file since has seen it.
LEMMA NextInsertArtifact ==
  ASSUME RequestsInv, ArtifactsInv, NEW c \in Clients, InsertArtifact(c)
  PROVE  RequestsInv' /\ StepOf(c) /\ ArtifactsInv' /\ req'[c].op = "save"
<1>0. PICK a, v : a \in Artifacts /\ a = req[c].artifact /\ v = req[c].version
  BY DEF InsertArtifact, At, ArtifactsInv, SaveInv
<1> a \in Artifacts
  BY <1>0
<1> DEFINE o == [version |-> v, who |-> req[c].who]
           r == Saving(c, "emit", v)
<1>1. /\ req[c].op = "save" /\ req[c].step = "insert" /\ SaveInv(c) /\ Goto(c, r)
      /\ rows' = [rows EXCEPT ![a] = @ \cup {o}]
      /\ file' = file /\ published' = published
  BY <1>0 DEF InsertArtifact, At, ArtifactsInv
<1>2. /\ r.op = "save" /\ r.step = "emit" /\ r.artifact = a /\ r.version = v
      /\ r.who = req[c].who /\ r.seen = req[c].seen
      /\ o.version = v /\ o.who = req[c].who
  BY <1>0 DEF Saving
<1>3. Committing(c)
  BY <1>1 DEF Committing
<1>4. /\ req[c].who = Mine(c) /\ req[c].seen \subseteq Used
      /\ v \in 1 .. (Count + 1)
      /\ file[a][v].state \in {"whole", "torn"}
      /\ file[a][v].who = Mine(c) => file[a][v].state = "whole"
  BY <1>0, <1>1 DEF SaveInv
<1> HIDE DEF r
<1>5. RequestsInv' /\ StepOf(c) /\ req'[c] = r /\ sent' = sent
  BY <1>1, <1>2, <1>3, Continued
<1>6. /\ Used \subseteq Used' /\ Count \in Nat /\ Count' \in Nat /\ Count <= Count'
  BY <1>5, UsedCounts DEF StepOf
<1>7. Mine(c) \notin Used /\ Mine(c) \in Used' /\ Mine(c)' = Mine(c) /\ Count + 1 <= Count'
  <2>1. ~Committing(c)'
    BY <1>2, <1>5 DEF Committing
  <2>2. QED
    BY <1>3, <1>5, <2>1, TicketUnseen, TicketStored
<1>8. v \in Versions /\ v \in 1 .. Count'
  <2>1. Count + 1 <= Cardinality(Tickets) /\ Cardinality(Tickets) \in Nat
    BY <1>3, TicketRoom, TicketsFinite, FS_CardinalityType
  <2>2. 1 .. (Count + 1) \subseteq 1 .. Count'
    BY <1>6, <1>7
  <2>3. QED
    BY <1>4, <1>6, <2>1, <2>2 DEF Versions
<1>9. /\ rows' = [x \in Artifacts |-> rows'[x]]
      /\ rows'[a] = rows[a] \cup {o}
      /\ \A x \in Artifacts \ {a} : rows'[x] = rows[x]
  BY <1>1 DEF ArtifactsInv
<1>10. ASSUME NEW b \in Artifacts PROVE ArtifactInv(b)'
  <2>1. ArtifactInv(b)
    BY DEF ArtifactsInv
  <2>2. rows[b] \subseteq [version : 1 .. Count', who : Used']
    BY <1>6, <2>1, RowsKept DEF ArtifactInv
  <2>3. o \in [version : 1 .. Count', who : Used']
    BY <1>4, <1>7, <1>8
  <2>4. rows'[b] \subseteq [version : 1 .. Count', who : Used']
    BY <1>9, <2>2, <2>3
  <2>5. \A i \in Versions : file[b][i].state # "missing" => file[b][i].seen \subseteq Used
    BY <2>1 DEF ArtifactInv
  <2>6. ASSUME NEW x \in rows'[b]
        PROVE  /\ file[b][x.version].state \in {"whole", "torn"}
               /\ file[b][x.version].who = x.who => file[b][x.version].state = "whole"
               /\ x.who \notin file[b][x.version].seen
    <3>1. CASE x \in rows[b]
      BY <2>1, <3>1 DEF ArtifactInv
    <3>2. CASE b = a /\ x = o
      <4>1. file[a][v].state # "missing"
        BY <1>4
      <4>2. Mine(c) \notin file[a][v].seen
        BY <1>7, <1>8, <2>5, <3>2, <4>1
      <4>3. QED
        BY <1>2, <1>4, <3>2, <4>2
    <3>3. QED
      BY <1>9, <3>1, <3>2
  <2>7. \A i \in Versions : file[b][i].state # "missing" => file[b][i].seen \subseteq Used'
    BY <1>6, <2>5
  <2>8. QED
    BY <1>1, <2>1, <2>4, <2>6, <2>7 DEF ArtifactInv
<1>11. ASSUME NEW x \in Clients, x # c PROVE SaveInv(x)'
  <2>1. SaveInv(x) /\ req'[x] = req[x] /\ sent'[x] = sent[x]
    BY <1>5, <1>11 DEF ArtifactsInv, StepOf
  <2> SUFFICES ASSUME req[x].op = "save", NEW b, b = req[x].artifact
               PROVE  SaveInv(x)'
    BY <2>1 DEF SaveInv
  <2>2. b \in Artifacts /\ req[x].seen \subseteq Used
    BY <2>1 DEF SaveInv
  <2>3. 1 .. (Count + 1) \subseteq 1 .. (Count' + 1)
    BY <1>6, Wider
  <2>4. req[x].step \in {"write", "insert"} =>
          \A y \in rows'[b] : y.who \in req[x].seen => y.version < req[x].version
    <3>1. o.who \notin req[x].seen
      BY <1>2, <1>4, <1>7, <2>2
    <3>2. QED
      BY <1>9, <2>1, <2>2, <3>1 DEF SaveInv
  <2>5. Mine(x)' = Mine(x)
    BY <2>1 DEF Mine
  <2>6. QED
    BY <1>1, <1>6, <2>1, <2>2, <2>3, <2>4, <2>5 DEF SaveInv
<1>12. SaveInv(c)'
  BY <1>2, <1>4, <1>5, <1>6, <1>7 DEF SaveInv
<1>13. ArtifactsInv'
  BY <1>1, <1>9, <1>10, <1>11, <1>12 DEF ArtifactsInv
<1>14. QED
  BY <1>2, <1>5, <1>13

LEMMA NextArtifacts ==
  ASSUME RequestsInv, ArtifactsInv, NEW c \in Clients, ArtifactsNext(c)
  PROVE  /\ RequestsInv' /\ StepOf(c) /\ ArtifactsInv'
         /\ req'[c].op \in {"none", "save"}
<1>1. ASSUME NEW a \in Artifacts, CreateArtifact(c, a)
      PROVE  /\ RequestsInv' /\ StepOf(c) /\ ArtifactsInv'
             /\ req'[c].op \in {"none", "save"}
  BY <1>1, NextCreateArtifact
<1>2. CASE ReadMaxVersion(c) \/ SaveText(c) \/ InsertArtifact(c) \/ EmitCreated(c)
  BY <1>2, NextReadMaxVersion, NextSaveText, NextInsertArtifact, NextEmitCreated
<1>3. QED
  BY <1>1, <1>2 DEF ArtifactsNext

----------------------------------------------------------------------------
(* Prompt templates                                                         *)

LEMMA TemplateKept ==
  ASSUME NEW R, NEW U, NEW V, U \subseteq V, NEW n \in Nat, NEW k \in Nat, n <= k,
         R \subseteq [version : 1 .. n, who : U, text : Tickets, seen : SUBSET U]
  PROVE  R \subseteq [version : 1 .. k, who : V, text : Tickets, seen : SUBSET V]
<1>1. 1 .. n \subseteq 1 .. k /\ SUBSET U \subseteq SUBSET V
  OBVIOUS
<1>2. QED
  BY <1>1

LEMMA TemplateRows ==
  ASSUME PromptsInv, NEW t \in Templates
  PROVE  \A r \in prompts[t] : /\ r.version \in 1 .. Count /\ r.who \in Used
                               /\ r.text \in Tickets /\ r.seen \subseteq Used
  BY DEF PromptsInv, TemplateInv

\* A step of c after which a template has no version that was seen but is new.
LEMMA PromptsStep ==
  ASSUME RequestsInv, PromptsInv, NEW c \in Clients, StepOf(c),
         prompts' = [t \in Templates |-> prompts'[t]],
         \A t \in Templates : \A r \in prompts'[t] : r \in prompts[t] \/ r.who \notin Used,
         \A t \in Templates : prompts'[t] \subseteq prompts[t] \/ TemplateInv(t)',
         PromptInv(c)'
  PROVE  PromptsInv'
<1>1. /\ Used \subseteq Used' /\ Count \in Nat /\ Count' \in Nat /\ Count <= Count'
  BY UsedCounts DEF StepOf
<1>2. ASSUME NEW t \in Templates PROVE TemplateInv(t)'
  <2>1. CASE prompts'[t] \subseteq prompts[t]
    <3>1. TemplateInv(t)
      BY DEF PromptsInv
    <3>2. prompts[t] \subseteq [version : 1 .. Count', who : Used', text : Tickets,
                                seen : SUBSET Used']
      BY <1>1, <3>1, TemplateKept DEF TemplateInv
    <3>3. \A r, q \in prompts'[t] : r.who \in q.seen => r.version < q.version
      BY <2>1, <3>1 DEF TemplateInv
    <3>4. QED
      BY <2>1, <3>2, <3>3 DEF TemplateInv
  <2>2. QED
    BY <2>1
<1>3. ASSUME NEW x \in Clients, x # c PROVE PromptInv(x)'
  <2>1. PromptInv(x) /\ req'[x] = req[x] /\ sent'[x] = sent[x]
    BY <1>3 DEF PromptsInv, StepOf
  <2> SUFFICES ASSUME req[x].op = "prompt", NEW t, t = req[x].template
               PROVE  PromptInv(x)'
    BY <2>1 DEF PromptInv
  <2>2. t \in Templates /\ req[x] \in PromptRequest /\ req[x].seen \subseteq Used
    BY <2>1 DEF PromptInv, PromptRequest
  <2>3. 1 .. (Count + 1) \subseteq 1 .. (Count' + 1)
    BY <1>1, Wider
  <2>4. req[x].step = "insert" =>
          \A r \in prompts'[t] : r.who \in req[x].seen => r.version < req[x].version
    BY <2>1, <2>2 DEF PromptInv
  <2>5. Mine(x)' = Mine(x)
    BY <2>1 DEF Mine
  <2>6. QED
    BY <1>1, <2>1, <2>2, <2>3, <2>4, <2>5 DEF PromptInv
<1>4. QED
  BY <1>2, <1>3 DEF PromptsInv

LEMMA PromptsUntouched ==
  ASSUME RequestsInv, PromptsInv, NEW c \in Clients, StepOf(c),
         prompts' = prompts, PromptInv(c)'
  PROVE  PromptsInv'
<1>1. prompts' = [t \in Templates |-> prompts'[t]]
  BY DEF PromptsInv
<1>2. \A t \in Templates : prompts'[t] = prompts[t]
  OBVIOUS
<1>3. QED
  BY <1>1, <1>2, PromptsStep

LEMMA NextPrepare ==
  ASSUME RequestsInv, PromptsInv, NEW c \in Clients, NEW t \in Templates,
         NEW step, NEW text, NEW from \in Nat,
         step \in {"latest", "source"},
         text = IF step = "latest" THEN NextTicket(c) ELSE <<>>,
         Start(c, Preparing(c, t, step, text, from)), prompts' = prompts
  PROVE  RequestsInv' /\ StepOf(c) /\ PromptsInv' /\ req'[c].op = "prompt"
<1> DEFINE S == {r.who : r \in prompts[t]}
           w == NextTicket(c)
           r == [op |-> "prompt", step |-> step, template |-> t, who |-> w,
                 seen |-> S, text |-> text, from |-> from, version |-> 0]
<1>1. Start(c, r)
  BY DEF Preparing
<1>2. /\ r.op = "prompt" /\ r.step = step /\ r.template = t /\ r.who = w
      /\ r.seen = S /\ r.text = text
  OBVIOUS
<1>3. S \subseteq Used
  BY TemplateRows
<1>4. w \in Tickets /\ S \subseteq Tickets => r \in PromptRequest
  BY DEF PromptRequest
<1> HIDE DEF r, S, w
<1>5. /\ RequestsInv' /\ StepOf(c) /\ req'[c] = r
      /\ NextTicket(c) = <<c, sent'[c]>> /\ NextTicket(c) \in Tickets
  BY <1>1, <1>2, Started
<1>6. PromptInv(c)'
  <2>1. S \subseteq Used' /\ w = Mine(c)'
    BY <1>3, <1>5 DEF StepOf, Mine, w
  <2>2. r \in PromptRequest
    BY <1>3, <1>4, <1>5, UsedCounts DEF w
  <2>3. r.step # "source" => r.text \in Tickets
    BY <1>2, <1>5
  <2>4. QED
    BY <1>2, <1>5, <2>1, <2>2, <2>3 DEF PromptInv
<1>7. QED
  BY <1>2, <1>5, <1>6, PromptsUntouched

LEMMA NextLoadSource ==
  ASSUME RequestsInv, PromptsInv, NEW c \in Clients, LoadSource(c)
  PROVE  RequestsInv' /\ StepOf(c) /\ PromptsInv' /\ req'[c].op \in {"none", "prompt"}
<1>1. /\ req[c].op = "prompt" /\ req[c].step = "source" /\ PromptInv(c)
      /\ prompts' = prompts /\ req[c] \in PromptRequest
  BY DEF LoadSource, At, PromptsInv, PromptInv
<1>2. CASE Finish(c)
  <2>1. RequestsInv' /\ StepOf(c) /\ req'[c].op = "none"
    BY <1>1, <1>2, Finished
  <2>2. PromptInv(c)'
    BY <2>1 DEF PromptInv
  <2>3. QED
    BY <1>1, <2>1, <2>2, PromptsUntouched
<1>3. ASSUME NEW o \in prompts[req[c].template],
             Goto(c, [req[c] EXCEPT !.step = "latest", !.text = o.text])
      PROVE  RequestsInv' /\ StepOf(c) /\ PromptsInv' /\ req'[c].op = "prompt"
  <2> DEFINE r == [req[c] EXCEPT !.step = "latest", !.text = o.text]
  <2>1. o.text \in Tickets
    BY <1>1, TemplateRows DEF PromptRequest
  <2>2. /\ r \in PromptRequest /\ r.op = "prompt" /\ r.step = "latest"
        /\ r.who = req[c].who /\ r.seen = req[c].seen /\ r.text \in Tickets
    BY <1>1, <2>1 DEF PromptRequest
  <2>3. Committing(c) /\ Goto(c, r)
    BY <1>1, <1>3 DEF Committing
  <2> HIDE DEF r
  <2>4. RequestsInv' /\ StepOf(c) /\ req'[c] = r /\ sent' = sent
    BY <1>1, <2>2, <2>3, Continued
  <2>5. PromptInv(c)'
    BY <1>1, <2>2, <2>4 DEF PromptInv, StepOf, Mine
  <2>6. QED
    BY <1>1, <2>2, <2>4, <2>5, PromptsUntouched
<1>4. QED
  BY <1>2, <1>3 DEF LoadSource

LEMMA NextReadLatest ==
  ASSUME RequestsInv, PromptsInv, NEW c \in Clients, ReadLatest(c)
  PROVE  RequestsInv' /\ StepOf(c) /\ PromptsInv' /\ req'[c].op = "prompt"
<1>1. /\ req[c].op = "prompt" /\ req[c].step = "latest" /\ PromptInv(c)
      /\ prompts' = prompts /\ req[c] \in PromptRequest
  BY DEF ReadLatest, At, PromptsInv, PromptInv
<1>2. PICK t \in Templates : t = req[c].template
  BY <1>1 DEF PromptRequest
<1> DEFINE N == {x.version : x \in prompts[t]}
           v == Max({0} \cup N) + 1
           r == [req[c] EXCEPT !.step = "insert", !.version = v]
<1>3. Goto(c, r) /\ Committing(c)
  BY <1>1, <1>2 DEF ReadLatest, NextPromptVersion, Committing
<1>4. v \in 1 .. (Count + 1) /\ \A x \in prompts[t] : x.version < v
  <2>1. N \in SUBSET (1 .. Count) /\ \A x \in prompts[t] : x.version \in N
    BY TemplateRows
  <2> HIDE DEF N
  <2>2. QED
    BY <2>1, UsedCounts, MaxPlusOne
<1> HIDE DEF v
<1>5. /\ r \in PromptRequest /\ r.op = "prompt" /\ r.step = "insert" /\ r.template = t
      /\ r.who = req[c].who /\ r.seen = req[c].seen /\ r.text = req[c].text
      /\ r.version = v
  <2>1. v \in Nat
    BY <1>4
  <2>2. QED
    BY <1>1, <1>2, <2>1 DEF PromptRequest
<1> HIDE DEF r
<1>6. RequestsInv' /\ StepOf(c) /\ req'[c] = r /\ sent' = sent
  BY <1>1, <1>3, <1>5, Continued
<1>7. PromptInv(c)'
  <2>1. 1 .. (Count + 1) \subseteq 1 .. (Count' + 1)
    BY <1>6, UsedCounts, Wider DEF StepOf
  <2>2. v \in 1 .. (Count' + 1) /\ Used \subseteq Used' /\ Mine(c)' = Mine(c)
    BY <1>4, <1>6, <2>1 DEF StepOf, Mine
  <2>3. r.text \in Tickets
    BY <1>1, <1>5 DEF PromptInv
  <2>4. QED
    BY <1>1, <1>4, <1>5, <1>6, <2>2, <2>3 DEF PromptInv
<1>8. QED
  BY <1>1, <1>5, <1>6, <1>7, PromptsUntouched

LEMMA NextInsertTemplate ==
  ASSUME RequestsInv, PromptsInv, NEW c \in Clients, InsertTemplate(c)
  PROVE  RequestsInv' /\ StepOf(c) /\ PromptsInv' /\ req'[c].op = "none"
<1>1. /\ req[c].op = "prompt" /\ req[c].step = "insert" /\ PromptInv(c)
      /\ Finish(c) /\ req[c] \in PromptRequest
  BY DEF InsertTemplate, At, PromptsInv, PromptInv
<1>2. PICK t \in Templates : t = req[c].template
  BY <1>1 DEF PromptRequest
<1> DEFINE o == [version |-> req[c].version, who |-> req[c].who,
                 text |-> req[c].text, seen |-> req[c].seen]
<1>3. prompts' = [prompts EXCEPT ![t] = @ \cup {o}]
  BY <1>2 DEF InsertTemplate
<1>4. RequestsInv' /\ StepOf(c) /\ req'[c].op = "none" /\ sent' = sent /\ Committing(c)
  BY <1>1, Finished DEF Committing
<1>5. /\ Used \subseteq Used' /\ Count \in Nat /\ Count' \in Nat /\ Count <= Count'
  BY <1>4, UsedCounts DEF StepOf
<1>6. Mine(c) \notin Used /\ Mine(c) \in Used' /\ Count + 1 <= Count'
  <2>1. ~Committing(c)'
    BY <1>4 DEF Committing
  <2>2. QED
    BY <1>4, <2>1, TicketUnseen, TicketStored
<1>7. /\ req[c].who = Mine(c) /\ req[c].seen \subseteq Used /\ req[c].text \in Tickets
      /\ req[c].version \in 1 .. (Count + 1)
      /\ \A x \in prompts[t] : x.who \in req[c].seen => x.version < req[c].version
  BY <1>1, <1>2 DEF PromptInv
<1>8. /\ o.version = req[c].version /\ o.who = Mine(c) /\ o.seen = req[c].seen
      /\ o \in [version : 1 .. Count', who : Used', text : Tickets, seen : SUBSET Used']
  <2>1. 1 .. (Count + 1) \subseteq 1 .. Count'
    BY <1>5, <1>6
  <2>2. req[c].version \in 1 .. Count' /\ req[c].seen \in SUBSET Used'
    BY <1>5, <1>7, <2>1
  <2>3. QED
    BY <1>6, <1>7, <2>2
<1> HIDE DEF o
<1>9. /\ prompts' = [x \in Templates |-> prompts'[x]]
      /\ prompts'[t] = prompts[t] \cup {o}
      /\ \A x \in Templates \ {t} : prompts'[x] = prompts[x]
  BY <1>3 DEF PromptsInv
<1>10. TemplateInv(t)'
  <2>1. TemplateInv(t)
    BY DEF PromptsInv
  <2>2. prompts[t] \subseteq [version : 1 .. Count', who : Used', text : Tickets,
                              seen : SUBSET Used']
    BY <1>5, <2>1, TemplateKept DEF TemplateInv
  <2>3. prompts'[t] \subseteq [version : 1 .. Count', who : Used', text : Tickets,
                               seen : SUBSET Used']
    BY <1>8, <1>9, <2>2
  <2>4. ASSUME NEW x \in prompts'[t], NEW y \in prompts'[t], x.who \in y.seen
        PROVE  x.version < y.version
    <3>1. CASE x \in prompts[t] /\ y \in prompts[t]
      BY <2>1, <2>4, <3>1 DEF TemplateInv
    <3>2. CASE x \in prompts[t] /\ y = o
      BY <1>7, <1>8, <2>4, <3>2
    <3>3. CASE x = o
      <4>1. y.seen \subseteq Used
        BY <1>7, <1>8, <1>9, TemplateRows
      <4>2. QED
        BY <1>6, <1>8, <2>4, <3>3, <4>1
    <3>4. QED
      BY <1>9, <3>1, <3>2, <3>3
  <2>5. QED
    BY <2>3, <2>4 DEF TemplateInv
<1>11. \A x \in Templates : \A q \in prompts'[x] : q \in prompts[x] \/ q.who \notin Used
  BY <1>6, <1>8, <1>9
<1>12. \A x \in Templates : prompts'[x] \subseteq prompts[x] \/ TemplateInv(x)'
  BY <1>9, <1>10
<1>13. PromptInv(c)'
  BY <1>4 DEF PromptInv
<1>14. QED
  BY <1>4, <1>9, <1>11, <1>12, <1>13, PromptsStep

LEMMA NextDeleteTemplate ==
  ASSUME RequestsInv, PromptsInv, NEW c \in Clients, NEW t \in Templates,
         DeleteTemplate(c, t)
  PROVE  RequestsInv' /\ StepOf(c) /\ PromptsInv' /\ req'[c].op = "none"
<1>1. RequestsInv' /\ StepOf(c) /\ req'[c].op = "none"
  BY Answered DEF DeleteTemplate
<1>2. PICK r \in prompts[t] : prompts' = [prompts EXCEPT ![t] = @ \ {r}]
  BY DEF DeleteTemplate
<1>3. /\ prompts' = [x \in Templates |-> prompts'[x]]
      /\ \A x \in Templates : prompts'[x] \subseteq prompts[x]
  BY <1>2 DEF PromptsInv
<1>4. PromptInv(c)'
  BY <1>1 DEF PromptInv
<1>5. QED
  BY <1>1, <1>3, <1>4, PromptsStep

LEMMA NextPrompts ==
  ASSUME RequestsInv, PromptsInv, NEW c \in Clients, PromptsNext(c)
  PROVE  /\ RequestsInv' /\ StepOf(c) /\ PromptsInv'
         /\ req'[c].op \in {"none", "prompt"}
<1>1. ASSUME NEW t \in Templates, CreateTemplate(c, t)
      PROVE  RequestsInv' /\ StepOf(c) /\ PromptsInv' /\ req'[c].op = "prompt"
  <2>1. PICK w : w = NextTicket(c)
    OBVIOUS
  <2>2. Start(c, Preparing(c, t, "latest", w, 0)) /\ prompts' = prompts
    BY <1>1, <2>1 DEF CreateTemplate
  <2>3. QED
    BY <2>1, <2>2, NextPrepare
<1>2. ASSUME NEW t \in Templates, NEW v \in Below, Rollback(c, t, v)
      PROVE  RequestsInv' /\ StepOf(c) /\ PromptsInv' /\ req'[c].op = "prompt"
  <2>1. v \in Nat
    BY DEF Below
  <2>2. Start(c, Preparing(c, t, "source", <<>>, v)) /\ prompts' = prompts
    BY <1>2 DEF Rollback
  <2>3. QED
    BY <2>1, <2>2, NextPrepare
<1>3. ASSUME NEW t \in Templates, DeleteTemplate(c, t)
      PROVE  RequestsInv' /\ StepOf(c) /\ PromptsInv' /\ req'[c].op = "none"
  BY <1>3, NextDeleteTemplate
<1>4. CASE LoadSource(c) \/ ReadLatest(c) \/ InsertTemplate(c)
  BY <1>4, NextLoadSource, NextReadLatest, NextInsertTemplate
<1>5. QED
  BY <1>1, <1>2, <1>3, <1>4 DEF PromptsNext

----------------------------------------------------------------------------
(* The services together                                                    *)

LEMMA StepOfFailure ==
  ASSUME RequestsInv, NEW c \in Clients, Fail(c)
  PROVE  RequestsInv' /\ StepOf(c) /\ req'[c].op = "none"
<1>1. CASE req[c].op = "none"
  <2> DEFINE r == NoRequest
  <2>1. r.op = "none"
    BY DEF NoRequest
  <2>2. req' = [req EXCEPT ![c] = r] /\ sent' = sent
    BY DEF Fail, Finish, Goto
  <2> HIDE DEF r
  <2>3. /\ req'[c] = r /\ \A x \in Clients \ {c} : req'[x] = req[x]
        /\ req' = [x \in Clients |-> req'[x]]
    BY <2>2 DEF RequestsInv
  <2>4. RequestsInv'
    BY <2>1, <2>2, <2>3 DEF RequestsInv
  <2>5. \A x \in Clients : Committing(x)' <=> Committing(x)
    BY <1>1, <2>1, <2>3 DEF Committing
  <2>6. Used \subseteq Used'
    BY <2>2, <2>5 DEF Used, Tickets
  <2>7. QED
    BY <2>1, <2>2, <2>3, <2>4, <2>6, UsedGrows DEF StepOf
<1>2. CASE req[c].op # "none"
  BY <1>2, Finished DEF Fail
<1>3. QED
  BY <1>1, <1>2

\* What the handlers of one service do leaves the invariants of the others.
LEMMA OthersKept ==
  ASSUME WorkspaceInv, NEW c \in Clients, StepOf(c)
  PROVE  /\ UNCHANGED sessionVars /\ req'[c].op \in {"none", "save", "prompt"}
              => SessionsInv'
         /\ UNCHANGED artifactVars /\ req'[c].op \in {"none", "post", "branch", "prompt"}
              => ArtifactsInv'
         /\ prompts' = prompts /\ req'[c].op \in {"none", "post", "branch", "save"}
              => PromptsInv'
<1>1. ASSUME UNCHANGED sessionVars, req'[c].op \in {"none", "save", "prompt"}
      PROVE  SessionsInv'
  <2>1. PostInv(c)' /\ BranchInv(c)'
    BY <1>1 DEF PostInv, BranchInv
  <2>2. QED
    BY <1>1, <2>1, SessionsUntouched DEF WorkspaceInv
<1>2. ASSUME UNCHANGED artifactVars, req'[c].op \in {"none", "post", "branch", "prompt"}
      PROVE  ArtifactsInv'
  <2>1. SaveInv(c)'
    BY <1>2 DEF SaveInv
  <2>2. UNCHANGED <<rows, file>> /\ published' \subseteq Artifacts \X Tickets
    BY <1>2 DEF artifactVars, WorkspaceInv, ArtifactsInv
  <2>3. QED
    BY <2>1, <2>2, ArtifactsUntouched DEF WorkspaceInv
<1>3. ASSUME prompts' = prompts, req'[c].op \in {"none", "post", "branch", "save"}
      PROVE  PromptsInv'
  <2>1. PromptInv(c)'
    BY <1>3 DEF PromptInv
  <2>2. QED
    BY <1>3, <2>1, PromptsUntouched DEF WorkspaceInv
<1>4. QED
  BY <1>1, <1>2, <1>3

LEMMA WorkspaceStutters == WorkspaceInv /\ UNCHANGED vars => WorkspaceInv'
<1> SUFFICES ASSUME WorkspaceInv, UNCHANGED vars PROVE WorkspaceInv'
  OBVIOUS
<1>1. /\ req' = req /\ sent' = sent /\ log' = log /\ origin' = origin
      /\ announced' = announced /\ rows' = rows /\ file' = file
      /\ published' = published /\ prompts' = prompts
  BY DEF vars, sessionVars, artifactVars
<1>2. /\ \A x \in Clients : (Committing(x)' <=> Committing(x)) /\ Mine(x)' = Mine(x)
      /\ \A s \in Sessions : Exists(s)' <=> Exists(s)
  BY <1>1 DEF Committing, Mine, Exists
<1>3. Used' = Used
  BY <1>1, <1>2 DEF Used, Tickets
<1>4. Count' = Count
  BY <1>3 DEF Count
<1>5. RequestsInv'
  BY <1>1 DEF WorkspaceInv, RequestsInv
<1>6. SessionsInv'
  <2>1. \A s \in Sessions : SessionInv(s)'
    BY <1>1, <1>3, <1>4 DEF WorkspaceInv, SessionsInv, SessionInv, GoodPoint, Exists
  <2>2. \A x \in Clients : PostInv(x)'
    BY <1>1, <1>2, <1>3, <1>4 DEF WorkspaceInv, SessionsInv, PostInv, Exists
  <2>3. \A x \in Clients : BranchInv(x)'
    BY <1>1, <1>3, <1>4 DEF WorkspaceInv, SessionsInv, BranchInv, GoodPoint, Exists
  <2>4. QED
    BY <1>1, <2>1, <2>2, <2>3 DEF WorkspaceInv, SessionsInv
<1>7. ArtifactsInv'
  <2>1. \A a \in Artifacts : ArtifactInv(a)'
    BY <1>1, <1>3, <1>4 DEF WorkspaceInv, ArtifactsInv, ArtifactInv
  <2>2. \A x \in Clients : SaveInv(x)'
    BY <1>1, <1>2, <1>3, <1>4 DEF WorkspaceInv, ArtifactsInv, SaveInv
  <2>3. QED
    BY <1>1, <2>1, <2>2 DEF WorkspaceInv, ArtifactsInv
<1>8. PromptsInv'
  BY <1>1, <1>2, <1>3, <1>4 DEF WorkspaceInv, PromptsInv, TemplateInv, PromptInv
<1>9. QED
  BY <1>5, <1>6, <1>7, <1>8 DEF WorkspaceInv

LEMMA NextWorkspace == WorkspaceInv /\ [Next]_vars => WorkspaceInv'
<1> SUFFICES ASSUME WorkspaceInv, Next PROVE WorkspaceInv'
  BY WorkspaceStutters
<1>1. PICK c \in Clients :
        \/ SessionsNext(c) /\ UNCHANGED <<artifactVars, prompts>>
        \/ ArtifactsNext(c) /\ UNCHANGED <<sessionVars, prompts>>
        \/ PromptsNext(c) /\ UNCHANGED <<sessionVars, artifactVars>>
        \/ Fail(c) /\ UNCHANGED <<sessionVars, artifactVars, prompts>>
  BY DEF Next
<1>2. RequestsInv /\ SessionsInv /\ ArtifactsInv /\ PromptsInv
  BY DEF WorkspaceInv
<1>3. CASE SessionsNext(c) /\ UNCHANGED <<artifactVars, prompts>>
  <2>1. /\ RequestsInv' /\ StepOf(c) /\ SessionsInv'
        /\ req'[c].op \in {"none", "post", "branch"}
    BY <1>2, <1>3, NextSessions
  <2>2. QED
    BY <1>3, <2>1, OthersKept DEF WorkspaceInv
<1>4. CASE ArtifactsNext(c) /\ UNCHANGED <<sessionVars, prompts>>
  <2>1. /\ RequestsInv' /\ StepOf(c) /\ ArtifactsInv'
        /\ req'[c].op \in {"none", "save"}
    BY <1>2, <1>4, NextArtifacts
  <2>2. QED
    BY <1>4, <2>1, OthersKept DEF WorkspaceInv
<1>5. CASE PromptsNext(c) /\ UNCHANGED <<sessionVars, artifactVars>>
  <2>1. /\ RequestsInv' /\ StepOf(c) /\ PromptsInv'
        /\ req'[c].op \in {"none", "prompt"}
    BY <1>2, <1>5, NextPrompts
  <2>2. QED
    BY <1>5, <2>1, OthersKept DEF WorkspaceInv
<1>6. CASE Fail(c) /\ UNCHANGED <<sessionVars, artifactVars, prompts>>
  <2>1. RequestsInv' /\ StepOf(c) /\ req'[c].op = "none"
    BY <1>2, <1>6, StepOfFailure
  <2>2. QED
    BY <1>6, <2>1, OthersKept DEF WorkspaceInv
<1>7. QED
  BY <1>1, <1>3, <1>4, <1>5, <1>6

LEMMA InitWorkspace == Init => WorkspaceInv
<1> SUFFICES ASSUME Init PROVE WorkspaceInv
  OBVIOUS
<1>1. /\ \A c \in Clients : req[c].op = "none" /\ sent[c] = 0
      /\ req = [c \in Clients |-> req[c]] /\ sent \in [Clients -> 0 .. MaxRequests]
  <2>1. NoRequest.op = "none" /\ 0 \in 0 .. MaxRequests
    BY RequestsAssumption DEF NoRequest
  <2> DEFINE r == NoRequest
  <2>2. req = [c \in Clients |-> r] /\ sent = [c \in Clients |-> 0]
    BY DEF Init, RequestsInit
  <2> HIDE DEF r
  <2>3. QED
    BY <2>1, <2>2 DEF r
<1>2. RequestsInv
  BY <1>1 DEF RequestsInv
<1>3. SessionsInv
  <2>1. /\ log = [s \in Sessions |-> {}] /\ announced = {}
        /\ origin = [s \in Sessions |-> IF s = Opened THEN Root ELSE Absent]
    BY DEF Init, SessionsInit
  <2>2. \A s \in Sessions : SessionInv(s)
    BY <2>1 DEF SessionInv, GoodLog, Exists, Root, Absent
  <2>3. QED
    BY <1>1, <2>1, <2>2 DEF SessionsInv, PostInv, BranchInv
<1>4. ArtifactsInv
  <2> DEFINE none == NoFile
  <2>1. /\ rows = [a \in Artifacts |-> {}] /\ published = {}
        /\ file = [a \in Artifacts |-> [v \in Versions |-> none]]
        /\ none.state = "missing"
    BY DEF Init, ArtifactsInit, NoFile
  <2> HIDE DEF none
  <2>2. \A a \in Artifacts : ArtifactInv(a)
    BY <2>1 DEF ArtifactInv
  <2>3. QED
    BY <1>1, <2>1, <2>2 DEF ArtifactsInv, SaveInv
<1>5. PromptsInv
  BY <1>1 DEF Init, PromptsInit, PromptsInv, TemplateInv, PromptInv
<1>6. QED
  BY <1>2, <1>3, <1>4, <1>5 DEF WorkspaceInv

\* The invariant of the record services, for any number of clients.
THEOREM WorkspaceInvariance == Spec => []WorkspaceInv
<1>1. QED
  BY InitWorkspace, NextWorkspace, PTL DEF Spec

----------------------------------------------------------------------------
\* Sessions, artifacts and templates hold values of their types; in particular no
\* number that a service gives is above the number of requests there are.
THEOREM WorkspaceTypes == Spec => []TypeOK
<1>1. WorkspaceInv => TypeOK
  <2> SUFFICES ASSUME WorkspaceInv PROVE TypeOK
    OBVIOUS
  <2>1. /\ 1 .. Count \subseteq 1 .. Cardinality(Tickets)
        /\ Used \subseteq Tickets /\ SUBSET Used \subseteq SUBSET Tickets
    <3>1. Cardinality(Tickets) \in Nat
      BY TicketsFinite, FS_CardinalityType
    <3>2. QED
      BY <3>1, CountRoom, UsedCounts, Wider
  <2>2. SessionsTypeOK
    <3>1. ASSUME NEW s \in Sessions PROVE log[s] \subseteq Message
      <4>1. log[s] \subseteq [seq : 1 .. Count, who : Used, seen : SUBSET Used,
                              copied : BOOLEAN]
        BY DEF WorkspaceInv, SessionsInv, SessionInv, GoodLog
      <4>2. QED
        BY <2>1, <4>1 DEF Message
    <3>2. QED
      BY <3>1 DEF WorkspaceInv, SessionsInv, SessionInv, SessionsTypeOK
  <2>3. ArtifactsTypeOK
    <3>1. ASSUME NEW a \in Artifacts PROVE rows[a] \subseteq [version : Versions, who : Tickets]
      <4>1. rows[a] \subseteq [version : 1 .. Count, who : Used]
        BY DEF WorkspaceInv, ArtifactsInv, ArtifactInv
      <4>2. QED
        BY <2>1, <4>1 DEF Versions
    <3>2. QED
      BY <3>1 DEF WorkspaceInv, ArtifactsInv, ArtifactInv, ArtifactsTypeOK
  <2>4. PromptsTypeOK
    <3>1. ASSUME NEW t \in Templates
          PROVE  prompts[t] \subseteq [version : Below, who : Tickets, text : Tickets,
                                       seen : SUBSET Tickets]
      <4>1. prompts[t] \subseteq [version : 1 .. Count, who : Used, text : Tickets,
                                  seen : SUBSET Used]
        BY DEF WorkspaceInv, PromptsInv, TemplateInv
      <4>2. QED
        BY <2>1, <4>1 DEF Below
    <3>2. QED
      BY <3>1 DEF PromptsTypeOK
  <2>5. QED
    BY <2>2, <2>3, <2>4 DEF TypeOK, WorkspaceInv, RequestsInv
<1>2. QED
  BY WorkspaceInvariance, <1>1, PTL

\* A message that was stored when another was sent comes before it in the log of
\* its session, and in every branch: only overlapping requests can share a number
\* (SessionService.add_message).
THEOREM MessagesKeepTheirOrder == Spec => []SentLaterComesLater
<1>1. WorkspaceInv => SentLaterComesLater
  BY DEF WorkspaceInv, SessionsInv, SessionInv, GoodLog, SentLaterComesLater, Posted
<1>2. QED
  BY WorkspaceInvariance, <1>1, PTL

\* A branch keeps the messages of its session up to the point it was taken at,
\* unless overlapping requests have numbered two of those alike
\* (SessionService.branch_session).
THEOREM BranchesKeepTheirPrefix == Spec => []BranchIsThePrefix
<1>1. WorkspaceInv => BranchIsThePrefix
  BY DEF WorkspaceInv, SessionsInv, SessionInv, GoodPoint, IsPrefixOf, BranchIsThePrefix
<1>2. QED
  BY WorkspaceInvariance, <1>1, PTL

\* Every committed version of an artifact has its file, which only saves that
\* overlapped its own can have torn or replaced, however many saves die
\* (ArtifactVersioningService.save_version, ArtifactStorage.save_text).
THEOREM ArtifactsKeepTheirFiles == Spec => []RowsKeepTheirFiles
<1>1. WorkspaceInv => RowsKeepTheirFiles
  <2> SUFFICES ASSUME WorkspaceInv, NEW a \in Artifacts, NEW r \in rows[a]
               PROVE  /\ file[a][r.version] # NoFile
                      /\ file[a][r.version].who = r.who =>
                            file[a][r.version].state = "whole"
                      /\ r.who \notin file[a][r.version].seen
    BY DEF RowsKeepTheirFiles, RowsHaveFiles, LaterSavesLeaveFilesAlone
  <2>1. /\ file[a][r.version].state \in {"whole", "torn"}
        /\ file[a][r.version].who = r.who => file[a][r.version].state = "whole"
        /\ r.who \notin file[a][r.version].seen
    BY DEF WorkspaceInv, ArtifactsInv, ArtifactInv
  <2>2. NoFile.state = "missing"
    BY DEF NoFile
  <2>3. QED
    BY <2>1, <2>2
<1>2. QED
  BY WorkspaceInvariance, <1>1, PTL

\* A text that was published, or rolled back to, after another was stored outranks
\* it as long as both exist, whatever is deleted in between
\* (PromptService._next_version, rollback, delete_template).
THEOREM LatestTextOutranks == Spec => []LatestIsNewest
<1>1. WorkspaceInv => LatestIsNewest
  BY DEF WorkspaceInv, PromptsInv, TemplateInv, LatestIsNewest
<1>2. QED
  BY WorkspaceInvariance, <1>1, PTL

=============================================================================
