----------------------------- MODULE CliProofs -----------------------------
(***************************************************************************)
(* What the clients guarantee for any number of terminals and directories, *)
(* however many commands are typed: the contexts of the state file and the *)
(* projects they name, the way back that /undo keeps, and the prompt that  *)
(* is read from a terminal.                                                *)
(***************************************************************************)
EXTENDS AgentLoop, PackagedCli, PromptReader, NumberFacts, SequenceTheorems

(* Contexts                                                                *)
Contexts == [project : Nat, session : Nat, local : BOOLEAN]

\* P and O are the projects and the sessions of the server.  H tells of each
\* project the directory it was made for, which nothing in the system remembers.
World(P, O, H) ==
    /\ P \in Seq(BOOLEAN)
    /\ O \in Seq(Nat)
    /\ \A s \in 1 .. Len(O) : O[s] \in 1 .. Len(P)
    /\ H \in Seq(Directories)
    /\ Len(H) = Len(P)

\* The context of a directory names a project that was made for it, in its mode,
\* and a session of a project that was made for it: not always the same one.
GoodContext(P, O, H, d, x) ==
    /\ x \in Contexts
    /\ x.project \in 1 .. Len(P)
    /\ x.session \in 1 .. Len(O)
    /\ x.local <=> P[x.project]
    /\ H[x.project] = d
    /\ H[O[x.session]] = d

GoodFile(P, O, H, f) ==
    /\ f = [d \in Directories |-> f[d]]
    /\ \A d \in Directories : f[d] = None \/ GoodContext(P, O, H, d, f[d])

IdleSteps == {"prompt", "welcome", "once", "reload"}
LoopSteps == {"question", "think", "touch", "review"}
ClientSteps == IdleSteps \cup LoopSteps

Clients ==
    [step : IdleSteps, dir : Directories, ctx : Contexts, want : BOOLEAN]
    \cup
    [step : LoopSteps, dir : Directories, ctx : Contexts, want : BOOLEAN,
     mode : {"read", "write", "once"}, calls : Nat, again : BOOLEAN, generic : BOOLEAN]

GoodClient(P, O, H, r) ==
    r = Off \/ (r \in Clients /\ GoodContext(P, O, H, r.dir, r.ctx))

Saves(r) ==
    r.step = "save" /\ r = [step |-> "save", write |-> r.write, then |-> r.then]

Ensures(r) ==
    /\ r.step = "ensure"
    /\ r = [step |-> "ensure", dir |-> r.dir, want |-> r.want, copy |-> r.copy,
            next |-> r.next]
    /\ r.dir \in Directories /\ r.want \in BOOLEAN
    /\ r.next \in {"prompt", "welcome", "once"}

Branched ==
    [step : {"branched"}, dir : Directories, want : BOOLEAN, session : Nat]

GoodTerm(P, O, H, r) ==
    \/ GoodClient(P, O, H, r)
    \/ Saves(r) /\ GoodFile(P, O, H, r.write) /\ GoodClient(P, O, H, r.then)
    \/ Ensures(r) /\ GoodFile(P, O, H, r.copy)
    \/ /\ r \in Branched
       /\ r.session \in 1 .. Len(O)
       /\ H[O[r.session]] = r.dir

ContextsInv(H) ==
    /\ World(project, owner, H)
    /\ file = Torn \/ GoodFile(project, owner, H, file)
    /\ term = [t \in Terminals |-> term[t]]
    /\ \A t \in Terminals : GoodTerm(project, owner, H, term[t])

HostContextsInv == \E H \in Seq(Directories) : ContextsInv(H)

-------------------------------------------------------------------------------
(* The server only adds: what was good stays good.                          *)
Longer(S, T) ==
    /\ Len(S) <= Len(T)
    /\ \A i \in 1 .. Len(S) : T[i] = S[i]

LEMMA ContextStaysGood ==
  ASSUME NEW P, NEW O, NEW H, World(P, O, H),
         NEW P2, NEW O2, NEW H2, World(P2, O2, H2),
         Longer(P, P2), Longer(O, O2), Longer(H, H2),
         NEW d, NEW x, GoodContext(P, O, H, d, x)
  PROVE  GoodContext(P2, O2, H2, d, x)
<1>1. /\ Len(P) \in Nat /\ Len(O) \in Nat /\ Len(P2) \in Nat /\ Len(O2) \in Nat
      /\ Len(H) = Len(P)
  BY DEF World
<1>2. x.project \in 1 .. Len(P) /\ x.session \in 1 .. Len(O)
  BY DEF GoodContext
<1>3. O[x.session] \in 1 .. Len(P)
  BY <1>2 DEF World
<1>4. /\ P2[x.project] = P[x.project] /\ O2[x.session] = O[x.session]
      /\ H2[x.project] = H[x.project] /\ H2[O[x.session]] = H[O[x.session]]
  BY <1>1, <1>2, <1>3 DEF Longer
<1>5. x.project \in 1 .. Len(P2) /\ x.session \in 1 .. Len(O2)
  BY <1>1, <1>2 DEF Longer
<1>6. QED
  BY <1>4, <1>5 DEF GoodContext

LEMMA TermStaysGood ==
  ASSUME NEW P, NEW O, NEW H, World(P, O, H),
         NEW P2, NEW O2, NEW H2, World(P2, O2, H2),
         Longer(P, P2), Longer(O, O2), Longer(H, H2)
  PROVE  /\ \A f : GoodFile(P, O, H, f) => GoodFile(P2, O2, H2, f)
         /\ \A r : GoodTerm(P, O, H, r) => GoodTerm(P2, O2, H2, r)
<1>1. \A d, x : GoodContext(P, O, H, d, x) => GoodContext(P2, O2, H2, d, x)
  BY ContextStaysGood
<1>2. \A f : GoodFile(P, O, H, f) => GoodFile(P2, O2, H2, f)
  BY <1>1 DEF GoodFile
<1>3. \A r : GoodClient(P, O, H, r) => GoodClient(P2, O2, H2, r)
  BY <1>1 DEF GoodClient
<1>4. ASSUME NEW s \in 1 .. Len(O)
      PROVE  s \in 1 .. Len(O2) /\ H2[O2[s]] = H[O[s]]
  <2>1. /\ Len(O) \in Nat /\ Len(O2) \in Nat
        /\ O2[s] = O[s] /\ O[s] \in 1 .. Len(H)
    BY DEF World, Longer
  <2>2. QED
    BY <2>1 DEF Longer
<1>5. QED
  BY <1>2, <1>3, <1>4 DEF GoodTerm

LEMMA LongerItself ==
  ASSUME NEW S, Len(S) \in Nat
  PROVE  Longer(S, S)
BY DEF Longer

LEMMA LongerByOne ==
  ASSUME NEW S, NEW T \in Seq(S), NEW e \in S
  PROVE  /\ Append(T, e) \in Seq(S) /\ Longer(T, Append(T, e))
         /\ Len(T) \in Nat /\ Len(Append(T, e)) = Len(T) + 1
         /\ Append(T, e)[Len(T) + 1] = e
BY DEF Longer

\* A step of one terminal that adds nothing to the server.
LEMMA TerminalSteps ==
  ASSUME NEW H, ContextsInv(H), UNCHANGED <<project, owner>>,
         NEW t \in Terminals, NEW r, term' = [term EXCEPT ![t] = r],
         GoodTerm(project, owner, H, r),
         file' = file \/ file' = Torn \/ GoodFile(project, owner, H, file')
  PROVE  ContextsInv(H)'
<1>1. /\ term' = [u \in Terminals |-> term'[u]]
      /\ \A u \in Terminals : GoodTerm(project, owner, H, term'[u])
  BY DEF ContextsInv
<1>2. file' = Torn \/ GoodFile(project, owner, H, file')
  BY DEF ContextsInv
<1>3. QED
  BY <1>1, <1>2 DEF ContextsInv

-------------------------------------------------------------------------------
(* What terminals are about to do                                           *)

\* A client with a context of its own, and what it becomes.
LEMMA ReadyIsGood ==
  ASSUME NEW P, NEW O, NEW H, NEW d \in Directories, NEW x, NEW w \in BOOLEAN,
         GoodContext(P, O, H, d, x)
  PROVE  GoodClient(P, O, H, Ready(d, x, w))
<1>1. x \in Contexts
  BY DEF GoodContext
<1>2. Ready(d, x, w) \in Clients
  BY <1>1 DEF Ready, Clients, IdleSteps
<1>3. Ready(d, x, w).dir = d /\ Ready(d, x, w).ctx = x
  BY DEF Ready
<1>4. QED
  BY <1>2, <1>3 DEF GoodClient

LEMMA ClientMovesOn ==
  ASSUME NEW P, NEW O, NEW H, NEW r, GoodClient(P, O, H, r), r # Off,
         NEW S \in {IdleSteps, LoopSteps}, r.step \in S, NEW s \in S
  PROVE  GoodClient(P, O, H, [r EXCEPT !.step = s])
<1>1. r \in Clients /\ GoodContext(P, O, H, r.dir, r.ctx)
  BY DEF GoodClient
<1> DEFINE q == [r EXCEPT !.step = s]
<1>2. q \in Clients /\ q.dir = r.dir /\ q.ctx = r.ctx
  BY <1>1 DEF Clients, IdleSteps, LoopSteps
<1>3. QED
  BY <1>1, <1>2 DEF GoodClient

\* Which shape the record of a terminal has is told by its step.
LEMMA TermShapes ==
  ASSUME NEW P, NEW O, NEW H, NEW r, GoodTerm(P, O, H, r)
  PROVE  /\ r.step \in ClientSteps =>
               /\ r \in Clients /\ GoodContext(P, O, H, r.dir, r.ctx)
               /\ GoodClient(P, O, H, r) /\ r # Off
         /\ r.step = "save" =>
               Saves(r) /\ GoodFile(P, O, H, r.write) /\ GoodClient(P, O, H, r.then)
         /\ r.step = "ensure" => Ensures(r) /\ GoodFile(P, O, H, r.copy)
         /\ r.step = "branched" =>
               r \in Branched /\ r.session \in 1 .. Len(O) /\ H[O[r.session]] = r.dir
<1>1. CASE r = Off
  BY <1>1 DEF Off, ClientSteps, IdleSteps, LoopSteps
<1>2. CASE r \in Clients /\ GoodContext(P, O, H, r.dir, r.ctx)
  <2>1. r.step \in ClientSteps
    BY <1>2 DEF Clients, ClientSteps
  <2>2. r # Off
    BY <2>1 DEF Off, ClientSteps, IdleSteps, LoopSteps
  <2>3. QED
    BY <1>2, <2>1, <2>2 DEF GoodClient, ClientSteps, IdleSteps, LoopSteps
<1>3. CASE Saves(r) /\ GoodFile(P, O, H, r.write) /\ GoodClient(P, O, H, r.then)
  BY <1>3 DEF Saves, ClientSteps, IdleSteps, LoopSteps
<1>4. CASE Ensures(r) /\ GoodFile(P, O, H, r.copy)
  BY <1>4 DEF Ensures, ClientSteps, IdleSteps, LoopSteps
<1>5. CASE r \in Branched /\ r.session \in 1 .. Len(O) /\ H[O[r.session]] = r.dir
  BY <1>5 DEF Branched, ClientSteps, IdleSteps, LoopSteps
<1>6. QED
  BY <1>1, <1>2, <1>3, <1>4, <1>5 DEF GoodTerm, GoodClient

LEMMA SavingIsGood ==
  ASSUME NEW P, NEW O, NEW H, NEW f, GoodFile(P, O, H, f),
         NEW r, GoodClient(P, O, H, r)
  PROVE  GoodTerm(P, O, H, Saving(f, r))
BY DEF Saving, GoodTerm, Saves

LEMMA EnsuringIsGood ==
  ASSUME NEW H, GoodFile(project, owner, H, file), NEW d \in Directories,
         NEW w \in BOOLEAN, NEW next \in {"prompt", "welcome", "once"}
  PROVE  GoodTerm(project, owner, H, Ensuring(d, w, next))
BY DEF Ensuring, GoodTerm, Ensures

LEMMA ForgettingIsGood ==
  ASSUME NEW H, GoodFile(project, owner, H, file), NEW d \in Directories
  PROVE  GoodFile(project, owner, H, Forgetting(d))
BY DEF Forgetting, GoodFile

\* A session of a project that was made for the directory is put into its context.
LEMMA MovingIsGood ==
  ASSUME NEW H, GoodFile(project, owner, H, file), NEW r, r.dir \in Directories,
         r.want \in BOOLEAN, file[r.dir] # None, NEW s \in 1 .. Len(owner), s \in Nat,
         H[owner[s]] = r.dir
  PROVE  GoodTerm(project, owner, H, Moving(r, s))
<1> DEFINE d == r.dir
           x == [file[d] EXCEPT !.session = s]
           f == [file EXCEPT ![d] = x]
<1>1. GoodContext(project, owner, H, d, file[d])
  BY DEF GoodFile
<1>2. file[d] \in Contexts
  BY <1>1 DEF GoodContext
<1>3. x \in Contexts /\ x.project = file[d].project /\ x.session = s
      /\ x.local = file[d].local
  BY <1>2 DEF Contexts
<1>4. GoodContext(project, owner, H, d, x)
  BY <1>1, <1>3 DEF GoodContext
<1>5. Moving(r, s) = Saving(f, Ready(d, x, r.want))
  BY DEF Moving
<1>6. GoodFile(project, owner, H, f)
  <2> HIDE DEF x
  <2>1. QED
    BY <1>4 DEF GoodFile
<1> HIDE DEF x, f
<1>7. QED
  BY <1>4, <1>5, <1>6, ReadyIsGood, SavingIsGood

-------------------------------------------------------------------------------
(* ensure_cli_context                                                       *)

\* What the context lacks is made for its directory, and everything else is left
\* as it is.
LEMMA EnsuredContext ==
  ASSUME NEW H, World(project, owner, H), NEW d \in Directories, NEW want \in BOOLEAN,
         NEW old, old = None \/ GoodContext(project, owner, H, d, old),
         EnsureRows(old, want)
  PROVE  \E K \in Seq(Directories) :
            /\ World(project', owner', K)
            /\ Longer(project, project') /\ Longer(owner, owner') /\ Longer(H, K)
            /\ GoodContext(project', owner', K, d,
                           [project |-> ProjectOf(old), session |-> SessionOf(old),
                            local |-> AnswerLocal(ProjectOf(old), want)])
<1> DEFINE p == ProjectOf(old)
           s == SessionOf(old)
           K == IF HasProject(old) THEN H ELSE Append(H, d)
<1>1. /\ project \in Seq(BOOLEAN) /\ owner \in Seq(Nat) /\ H \in Seq(Directories)
      /\ Len(H) = Len(project) /\ \A x \in 1 .. Len(owner) : owner[x] \in 1 .. Len(project)
  BY DEF World
<1>2. /\ project' \in Seq(BOOLEAN) /\ K \in Seq(Directories) /\ Len(K) = Len(project')
      /\ Longer(project, project') /\ Longer(H, K)
      /\ p \in 1 .. Len(project') /\ K[p] = d
  <2>1. CASE HasProject(old)
    <3>1. project' = project /\ K = H /\ p = old.project
      BY <2>1 DEF EnsureRows, KeepsProject, ProjectOf
    <3>2. GoodContext(project, owner, H, d, old)
      BY <2>1 DEF HasProject
    <3>3. p \in 1 .. Len(project') /\ K[p] = d
      BY <3>1, <3>2 DEF GoodContext
    <3>4. Len(project) \in Nat /\ Len(H) \in Nat
      BY <1>1
    <3>5. QED
      BY <1>1, <3>1, <3>3, <3>4, LongerItself
  <2>2. CASE ~HasProject(old)
    <3>1. /\ project' = Append(project, want) /\ K = Append(H, d)
          /\ p = Len(project) + 1
      BY <2>2 DEF EnsureRows, KeepsProject, ProjectOf
    <3> HIDE DEF p, K
    <3>2. /\ project' \in Seq(BOOLEAN) /\ Longer(project, project')
          /\ Len(project) \in Nat /\ Len(project') = Len(project) + 1
      BY <1>1, <3>1, LongerByOne
    <3>3. /\ K \in Seq(Directories) /\ Longer(H, K) /\ Len(K) = Len(H) + 1
          /\ K[Len(H) + 1] = d
      BY <1>1, <3>1, LongerByOne
    <3>4. QED
      BY <1>1, <3>1, <3>2, <3>3
  <2>3. QED
    BY <2>1, <2>2
<1> HIDE DEF K
<1>3. p \in Nat /\ Len(project) \in Nat /\ Len(project') \in Nat /\ Len(project) <= Len(project')
  BY <1>1, <1>2 DEF Longer
<1>4. /\ owner' \in Seq(Nat) /\ Longer(owner, owner')
      /\ \A x \in 1 .. Len(owner') : owner'[x] \in 1 .. Len(project')
      /\ s \in 1 .. Len(owner') /\ s \in Nat /\ K[owner'[s]] = d
  <2>1. CASE KeepsSession(old, p)
    <3>1. owner' = owner /\ s = old.session /\ owner[old.session] = p /\ old # None
      BY <2>1 DEF EnsureRows, SessionOf, KeepsSession
    <3>2. s \in 1 .. Len(owner)
      BY <3>1 DEF GoodContext
    <3>3. Len(owner) \in Nat
      BY <1>1
    <3>4. Longer(owner, owner')
      BY <3>1, <3>3, LongerItself
    <3>5. QED
      BY <1>1, <1>2, <1>3, <3>1, <3>2, <3>3, <3>4
  <2>2. CASE ~KeepsSession(old, p)
    <3>1. owner' = Append(owner, p) /\ s = Len(owner) + 1
      BY <2>2 DEF EnsureRows, SessionOf
    <3> HIDE DEF p, s
    <3>2. /\ Len(owner') = Len(owner) + 1 /\ owner'[s] = p /\ Len(owner) \in Nat
          /\ owner' \in Seq(Nat) /\ \A x \in 1 .. Len(owner) : owner'[x] = owner[x]
      BY <1>1, <1>3, <3>1
    <3>3. \A x \in 1 .. Len(owner') : owner'[x] \in 1 .. Len(project')
      <4>1. TAKE x \in 1 .. Len(owner')
      <4>2. x \in 1 .. Len(owner) \/ x = s
        BY <3>1, <3>2
      <4>3. CASE x \in 1 .. Len(owner)
        <5>1. owner'[x] = owner[x] /\ owner[x] \in 1 .. Len(project)
          BY <1>1, <3>2, <4>3
        <5>2. QED
          BY <1>3, <5>1
      <4>4. QED
        BY <1>2, <3>2, <4>2, <4>3
    <3>4. QED
      BY <1>2, <3>1, <3>2, <3>3 DEF Longer
  <2>3. QED
    BY <2>1, <2>2
<1>5. World(project', owner', K)
  BY <1>2, <1>4 DEF World
<1>6. project'[p] \in BOOLEAN
  BY <1>2
<1> DEFINE x == [project |-> p, session |-> s, local |-> AnswerLocal(p, want)]
<1>7. /\ x.project = p /\ x.session = s /\ x.local = project'[p]
  BY DEF AnswerLocal
<1>8. x \in Contexts
  BY <1>3, <1>4, <1>6 DEF Contexts, AnswerLocal
<1>9. GoodContext(project', owner', K, d, x)
  <2> HIDE DEF x, p, s
  <2>1. QED
    BY <1>2, <1>4, <1>7, <1>8 DEF GoodContext
<1>10. QED
  BY <1>2, <1>4, <1>5, <1>9

LEMMA NextEnsure ==
  ASSUME HostContextsInv, NEW t \in Terminals, EnsureCliContext(t)
  PROVE  HostContextsInv'
<1>1. PICK H \in Seq(Directories) : ContextsInv(H)
  BY DEF HostContextsInv
<1>2. PICK r : r = term[t]
  OBVIOUS
<1>3. GoodTerm(project, owner, H, r) /\ r.step = "ensure" /\ file' = file
  BY <1>1, <1>2 DEF ContextsInv, EnsureCliContext
<1>4. Ensures(r) /\ GoodFile(project, owner, H, r.copy)
  BY <1>3, TermShapes
<1>5. PICK old : old = r.copy[r.dir]
  OBVIOUS
<1> DEFINE x == [project |-> ProjectOf(old), session |-> SessionOf(old),
                 local |-> AnswerLocal(ProjectOf(old), r.want)]
           f == [r.copy EXCEPT ![r.dir] = x]
           q == [Ready(r.dir, x, r.want) EXCEPT !.step = r.next]
<1>6. EnsureRows(old, r.want) /\ term' = [term EXCEPT ![t] = Saving(f, q)]
  BY <1>2, <1>5 DEF EnsureCliContext, Become
<1>7. /\ r.dir \in Directories /\ r.want \in BOOLEAN /\ World(project, owner, H)
      /\ r.next \in {"prompt", "welcome", "once"}
      /\ old = None \/ GoodContext(project, owner, H, r.dir, old)
  BY <1>1, <1>4, <1>5 DEF Ensures, GoodFile, ContextsInv
<1>8. PICK K \in Seq(Directories) :
            /\ World(project', owner', K)
            /\ Longer(project, project') /\ Longer(owner, owner') /\ Longer(H, K)
            /\ GoodContext(project', owner', K, r.dir, x)
  BY <1>6, <1>7, EnsuredContext
<1> HIDE DEF x
<1>9. /\ \A g : GoodFile(project, owner, H, g) => GoodFile(project', owner', K, g)
      /\ \A y : GoodTerm(project, owner, H, y) => GoodTerm(project', owner', K, y)
  BY <1>7, <1>8, TermStaysGood
<1>10. GoodFile(project', owner', K, f)
  <2>1. GoodFile(project', owner', K, r.copy)
    BY <1>4, <1>9
  <2>2. QED
    BY <1>8, <2>1 DEF GoodFile
<1>11. GoodClient(project', owner', K, q)
  <2>1. GoodClient(project', owner', K, Ready(r.dir, x, r.want))
    BY <1>7, <1>8, ReadyIsGood
  <2>2. /\ r.next \in IdleSteps /\ Ready(r.dir, x, r.want).step \in IdleSteps
        /\ Ready(r.dir, x, r.want) # Off
    BY <1>7 DEF IdleSteps, Ready, Off
  <2>3. QED
    BY <2>1, <2>2, ClientMovesOn
<1> HIDE DEF f, q
<1>12. GoodTerm(project', owner', K, Saving(f, q))
  BY <1>10, <1>11, SavingIsGood
<1>13. /\ term' = [u \in Terminals |-> term'[u]]
       /\ \A u \in Terminals : term'[u] = term[u] \/ term'[u] = Saving(f, q)
  BY <1>1, <1>6 DEF ContextsInv
<1>14. ContextsInv(K)'
  BY <1>1, <1>3, <1>8, <1>9, <1>12, <1>13 DEF ContextsInv
<1>15. QED
  BY <1>14 DEF HostContextsInv

-------------------------------------------------------------------------------
(* The commands that use contexts                                           *)
LEMMA TermIsGood ==
  ASSUME NEW H, ContextsInv(H), NEW t \in Terminals
  PROVE  /\ GoodTerm(project, owner, H, term[t]) /\ World(project, owner, H)
         /\ Loaded => GoodFile(project, owner, H, file)
BY DEF ContextsInv, Loaded

\* A client that goes on to use or to write what it has.
LEMMA BecomesGood ==
  ASSUME NEW H, ContextsInv(H), NEW t \in Terminals, NEW r, Become(t, r),
         UNCHANGED <<file, project, owner>>, GoodTerm(project, owner, H, r)
  PROVE  ContextsInv(H)'
BY TerminalSteps DEF Become

\* A client that has just been started, or has loaded the file to ask anew.
LEMMA NextEnsuring ==
  ASSUME NEW H, ContextsInv(H), NEW t \in Terminals, Loaded, NEW d \in Directories,
         NEW w \in BOOLEAN, NEW next \in {"prompt", "welcome", "once"},
         Become(t, Ensuring(d, w, next)), UNCHANGED <<file, project, owner>>
  PROVE  ContextsInv(H)'
<1>1. PICK r : r = Ensuring(d, w, next)
  OBVIOUS
<1>2. GoodTerm(project, owner, H, r)
  BY <1>1, TermIsGood, EnsuringIsGood
<1>3. QED
  BY <1>1, <1>2, BecomesGood

\* A client that writes the file as it loaded it, or with a context less.
LEMMA NextSaving ==
  ASSUME NEW H, ContextsInv(H), NEW t \in Terminals, NEW f,
         GoodFile(project, owner, H, f), NEW q, GoodClient(project, owner, H, q),
         Become(t, Saving(f, q)), UNCHANGED <<file, project, owner>>
  PROVE  ContextsInv(H)'
<1>1. PICK r : r = Saving(f, q)
  OBVIOUS
<1>2. GoodTerm(project, owner, H, r)
  BY <1>1, SavingIsGood
<1>3. QED
  BY <1>1, <1>2, BecomesGood

LEMMA NextClient ==
  ASSUME NEW H, ContextsInv(H), NEW t \in Terminals,
         NEW q, GoodClient(project, owner, H, q),
         \/ Become(t, q)
         \/ Loaded /\ Become(t, SaveOther(q)),
         UNCHANGED <<file, project, owner>>
  PROVE  ContextsInv(H)'
<1>1. CASE Become(t, q)
  BY <1>1, BecomesGood DEF GoodTerm
<1>2. CASE Loaded /\ Become(t, SaveOther(q))
  <2>1. PICK f : f = file
    OBVIOUS
  <2>2. GoodFile(project, owner, H, f) /\ Become(t, Saving(f, q))
    BY <1>2, <2>1, TermIsGood DEF SaveOther
  <2>3. QED
    BY <2>2, NextSaving
<1>3. QED
  BY <1>1, <1>2

LEMMA OffIsGood ==
  ASSUME NEW P, NEW O, NEW H
  PROVE  GoodClient(P, O, H, Off)
BY DEF GoodClient

LEMMA NextSaveState ==
  ASSUME NEW H, ContextsInv(H), NEW t \in Terminals, SaveState(t)
  PROVE  ContextsInv(H)'
<1>1. PICK r : r = term[t]
  OBVIOUS
<1>2. GoodTerm(project, owner, H, r) /\ r.step = "save"
  BY <1>1, TermIsGood DEF SaveState
<1>3. GoodFile(project, owner, H, r.write) /\ GoodClient(project, owner, H, r.then)
  BY <1>2, TermShapes
<1>4. /\ file' = r.write /\ term' = [term EXCEPT ![t] = r.then]
      /\ UNCHANGED <<project, owner>>
  BY <1>1 DEF SaveState, Become, server
<1>5. GoodTerm(project, owner, H, r.then)
  BY <1>3 DEF GoodTerm
<1>6. QED
  BY <1>3, <1>4, <1>5, TerminalSteps

LEMMA NextStartClient ==
  ASSUME NEW H, ContextsInv(H), NEW t \in Terminals, NEW d \in Directories,
         NEW w \in BOOLEAN, NEW next \in {"welcome", "once"}, StartClient(t, d, w, next)
  PROVE  ContextsInv(H)'
BY NextEnsuring DEF StartClient, server

\* A client at a step of its own, and the directory and the mode it was started in.
LEMMA ClientAt ==
  ASSUME NEW H, ContextsInv(H), NEW t \in Terminals, NEW r, r = term[t],
         r.step \in ClientSteps
  PROVE  /\ r \in Clients /\ r.dir \in Directories /\ r.want \in BOOLEAN
         /\ GoodContext(project, owner, H, r.dir, r.ctx)
         /\ GoodClient(project, owner, H, r) /\ r # Off
<1>1. r \in Clients /\ GoodClient(project, owner, H, r) /\ r # Off
      /\ GoodContext(project, owner, H, r.dir, r.ctx)
  BY TermIsGood, TermShapes
<1>2. QED
  BY <1>1 DEF Clients

LEMMA NextWelcome ==
  ASSUME NEW H, ContextsInv(H), NEW t \in Terminals, Welcome(t)
  PROVE  ContextsInv(H)'
<1>1. PICK r : r = term[t]
  OBVIOUS
<1>2. PICK q : q = [r EXCEPT !.step = "prompt"]
  OBVIOUS
<1>3. r.step \in IdleSteps /\ "prompt" \in IdleSteps /\ r.step \in ClientSteps
  BY <1>1 DEF Welcome, ClientSteps, IdleSteps
<1>4. GoodClient(project, owner, H, q)
  BY <1>1, <1>2, <1>3, ClientAt, ClientMovesOn
<1>5. /\ Become(t, q) \/ Become(t, SaveOther(q))
      /\ Loaded
      /\ UNCHANGED <<file, project, owner>>
  BY <1>1, <1>2 DEF Welcome, server
<1>6. QED
  BY <1>4, <1>5, NextClient

LEMMA NextToggle ==
  ASSUME NEW H, ContextsInv(H), NEW t \in Terminals, NEW w \in BOOLEAN, ToggleLocal(t, w)
  PROVE  ContextsInv(H)'
<1>1. PICK d : d = term[t].dir
  OBVIOUS
<1>2. term[t].step \in ClientSteps
  BY DEF ToggleLocal, AtPrompt, ClientSteps, IdleSteps
<1>3. d \in Directories
  BY <1>1, <1>2, ClientAt
<1>4. /\ Loaded /\ Become(t, Ensuring(d, w, "prompt")) /\ UNCHANGED <<file, project, owner>>
  BY <1>1 DEF ToggleLocal, server
<1>5. QED
  BY <1>3, <1>4, NextEnsuring

LEMMA NextForget ==
  ASSUME NEW H, ContextsInv(H), NEW t \in Terminals,
         Reset(t) \/ \E d \in Directories : ResetCommand(t, d)
  PROVE  ContextsInv(H)'
<1>1. ASSUME NEW d \in Directories, NEW q, GoodClient(project, owner, H, q), Loaded,
             Become(t, Saving(Forgetting(d), q)), UNCHANGED <<file, project, owner>>
      PROVE  ContextsInv(H)'
  <2>1. PICK f : f = Forgetting(d)
    OBVIOUS
  <2>2. GoodFile(project, owner, H, f)
    BY <1>1, <2>1, TermIsGood, ForgettingIsGood
  <2>3. QED
    BY <1>1, <2>1, <2>2, NextSaving
<1>2. CASE Reset(t)
  <2>1. PICK r : r = term[t]
    OBVIOUS
  <2>2. PICK q : q = [r EXCEPT !.step = "reload"]
    OBVIOUS
  <2>3. r.step \in IdleSteps /\ "reload" \in IdleSteps /\ r.step \in ClientSteps
    BY <1>2, <2>1 DEF Reset, AtPrompt, ClientSteps, IdleSteps
  <2>4. GoodClient(project, owner, H, q) /\ r.dir \in Directories
    BY <2>1, <2>2, <2>3, ClientAt, ClientMovesOn
  <2>5. Become(t, Saving(Forgetting(r.dir), q)) /\ UNCHANGED <<file, project, owner>>
        /\ Loaded
    BY <1>2, <2>1, <2>2 DEF Reset, server
  <2>6. QED
    BY <1>1, <2>4, <2>5
<1>3. ASSUME NEW d \in Directories, ResetCommand(t, d)
      PROVE  ContextsInv(H)'
  <2>1. Become(t, Saving(Forgetting(d), Off)) /\ UNCHANGED <<file, project, owner>> /\ Loaded
    BY <1>3 DEF ResetCommand, server
  <2>2. QED
    BY <1>1, <2>1, OffIsGood
<1>4. QED
  BY <1>2, <1>3

LEMMA NextReload ==
  ASSUME NEW H, ContextsInv(H), NEW t \in Terminals, Reload(t)
  PROVE  ContextsInv(H)'
<1>1. PICK d, w : d = term[t].dir /\ w = term[t].want
  OBVIOUS
<1>2. term[t].step \in ClientSteps
  BY DEF Reload, ClientSteps, IdleSteps
<1>3. d \in Directories /\ w \in BOOLEAN
  BY <1>1, <1>2, ClientAt
<1>4. /\ Loaded /\ Become(t, Ensuring(d, w, "prompt")) /\ UNCHANGED <<file, project, owner>>
  BY <1>1 DEF Reload, server
<1>5. QED
  BY <1>3, <1>4, NextEnsuring

LEMMA NextSwitch ==
  ASSUME NEW H, ContextsInv(H), NEW t \in Terminals, SwitchSession(t)
  PROVE  ContextsInv(H)'
<1>1. PICK r : r = term[t]
  OBVIOUS
<1>2. PICK s \in DOMAIN owner : owner[s] = r.ctx.project /\ Become(t, Moving(r, s))
  BY <1>1 DEF SwitchSession
<1>3. /\ r.step \in ClientSteps /\ Loaded /\ file[r.dir] # None
      /\ UNCHANGED <<file, project, owner>>
  BY <1>1 DEF SwitchSession, AtPrompt, ClientSteps, IdleSteps, server
<1>4. /\ r.dir \in Directories /\ r.want \in BOOLEAN
      /\ GoodContext(project, owner, H, r.dir, r.ctx)
  BY <1>1, <1>3, ClientAt
<1>5. s \in 1 .. Len(owner) /\ s \in Nat
  BY TermIsGood DEF World
<1>6. H[owner[s]] = r.dir
  BY <1>2, <1>4 DEF GoodContext
<1>7. PICK q : q = Moving(r, s)
  OBVIOUS
<1>8. GoodTerm(project, owner, H, q)
  BY <1>3, <1>4, <1>5, <1>6, <1>7, TermIsGood, MovingIsGood
<1>9. QED
  BY <1>2, <1>3, <1>7, <1>8, BecomesGood

LEMMA NextSaveBranch ==
  ASSUME NEW H, ContextsInv(H), NEW t \in Terminals, SaveBranch(t)
  PROVE  ContextsInv(H)'
<1>1. PICK r : r = term[t]
  OBVIOUS
<1>2. /\ r.step = "branched" /\ Loaded /\ file[r.dir] # None
      /\ UNCHANGED <<file, project, owner>> /\ Become(t, Moving(r, r.session))
  BY <1>1 DEF SaveBranch, server
<1>3. r \in Branched /\ r.session \in 1 .. Len(owner) /\ H[owner[r.session]] = r.dir
  BY <1>1, <1>2, TermIsGood, TermShapes
<1>4. r.dir \in Directories /\ r.want \in BOOLEAN /\ r.session \in Nat
  BY <1>3 DEF Branched
<1>5. PICK q : q = Moving(r, r.session)
  OBVIOUS
<1>6. GoodTerm(project, owner, H, q)
  BY <1>2, <1>3, <1>4, <1>5, TermIsGood, MovingIsGood
<1>7. QED
  BY <1>2, <1>5, <1>6, BecomesGood

LEMMA NextBranch ==
  ASSUME NEW H \in Seq(Directories), ContextsInv(H), NEW t \in Terminals, BranchSession(t)
  PROVE  ContextsInv(H)'
<1>1. PICK r : r = term[t]
  OBVIOUS
<1>2. PICK p : p = r.ctx.project
  OBVIOUS
<1> DEFINE s == Len(owner')
           q == [step |-> "branched", dir |-> r.dir, want |-> r.want, session |-> s]
<1>3. /\ r.step \in ClientSteps /\ owner[r.ctx.session] = p /\ owner' = Append(owner, p)
      /\ file' = file /\ project' = project /\ term' = [term EXCEPT ![t] = q]
  BY <1>1, <1>2 DEF BranchSession, AtPrompt, Whole, Become, ClientSteps, IdleSteps
<1>4. /\ r.dir \in Directories /\ r.want \in BOOLEAN
      /\ GoodContext(project, owner, H, r.dir, r.ctx)
  BY <1>1, <1>3, ClientAt
<1>5. p \in Nat /\ p \in 1 .. Len(project) /\ H[p] = r.dir
  BY <1>2, <1>4 DEF GoodContext, Contexts
<1>6. World(project, owner, H)
  BY TermIsGood
<1>7. /\ owner' \in Seq(Nat) /\ Longer(owner, owner') /\ Len(owner) \in Nat
      /\ s = Len(owner) + 1 /\ owner'[s] = p
  BY <1>3, <1>5, <1>6, LongerByOne DEF World
<1>8. s \in Nat /\ s \in 1 .. Len(owner')
  BY <1>7
<1> HIDE DEF s
<1>9. World(project', owner', H)
  <2>1. ASSUME NEW x \in 1 .. Len(owner')
        PROVE  owner'[x] \in 1 .. Len(project')
    <3>1. x \in 1 .. Len(owner) \/ x = s
      BY <1>7 DEF s
    <3>2. CASE x \in 1 .. Len(owner)
      BY <1>3, <1>6, <1>7, <3>2 DEF World, Longer
    <3>3. QED
      BY <1>3, <1>5, <1>7, <3>1, <3>2
  <2>2. QED
    BY <1>3, <1>6, <1>7, <2>1 DEF World
<1>10. Longer(project, project') /\ Longer(H, H)
  BY <1>3, <1>6, LongerItself DEF World
<1>11. /\ \A f : GoodFile(project, owner, H, f) => GoodFile(project', owner', H, f)
       /\ \A y : GoodTerm(project, owner, H, y) => GoodTerm(project', owner', H, y)
  BY <1>6, <1>7, <1>9, <1>10, TermStaysGood
<1>12. q \in Branched /\ q.session = s /\ q.dir = r.dir
  BY <1>4, <1>8 DEF Branched
<1> HIDE DEF q
<1>13. GoodTerm(project', owner', H, q)
  BY <1>5, <1>7, <1>8, <1>12 DEF GoodTerm
<1>14. /\ term' = [u \in Terminals |-> term'[u]]
       /\ \A u \in Terminals : term'[u] = term[u] \/ term'[u] = q
  BY <1>3 DEF ContextsInv
<1>15. QED
  BY <1>3, <1>9, <1>11, <1>13, <1>14 DEF ContextsInv

LEMMA NextRemember ==
  ASSUME NEW H, ContextsInv(H), NEW t \in Terminals, Remember(t)
  PROVE  ContextsInv(H)'
<1>1. PICK r : r = term[t]
  OBVIOUS
<1>2. /\ r.step \in ClientSteps /\ Loaded /\ Become(t, SaveOther(r))
      /\ UNCHANGED <<file, project, owner>>
  BY <1>1 DEF Remember, AtPrompt, ClientSteps, IdleSteps, server
<1>3. GoodClient(project, owner, H, r)
  BY <1>1, <1>2, ClientAt
<1>4. QED
  BY <1>2, <1>3, NextClient

LEMMA NextCli ==
  ASSUME HostContextsInv, NEW t \in Terminals, CliNext(t)
  PROVE  HostContextsInv'
<1>1. CASE EnsureCliContext(t)
  BY <1>1, NextEnsure
<1>2. CASE ~EnsureCliContext(t)
  <2>1. PICK H \in Seq(Directories) : ContextsInv(H)
    BY DEF HostContextsInv
  <2>2. ContextsInv(H)'
    BY <1>2, <2>1, NextSaveState, NextStartClient, NextWelcome, NextToggle, NextForget,
       NextReload, NextSwitch, NextBranch, NextSaveBranch, NextRemember DEF CliNext
  <2>3. QED
    BY <2>2 DEF HostContextsInv
<1>3. QED
  BY <1>1, <1>2

-------------------------------------------------------------------------------
(* The agent and its prompts                                                *)
LEMMA AskingIsGood ==
  ASSUME NEW H, NEW r \in Clients, GoodContext(project, owner, H, r.dir, r.ctx),
         NEW mode \in {"read", "write", "once"}, NEW again \in BOOLEAN
  PROVE  GoodClient(project, owner, H, Asking(r, mode, again))
<1> DEFINE q == Asking(r, mode, again)
<1>1. r.dir \in Directories /\ r.ctx \in Contexts /\ r.want \in BOOLEAN
  BY DEF Clients
<1>2. q \in Clients /\ q.dir = r.dir /\ q.ctx = r.ctx
  BY <1>1 DEF Asking, Clients, LoopSteps
<1>3. QED
  BY <1>2 DEF GoodClient

LEMMA DoneIsGood ==
  ASSUME NEW H, NEW r \in Clients, GoodContext(project, owner, H, r.dir, r.ctx)
  PROVE  GoodClient(project, owner, H, Done(r))
<1>1. r.dir \in Directories /\ r.want \in BOOLEAN
  BY DEF Clients
<1>2. GoodClient(project, owner, H, Ready(r.dir, r.ctx, r.want))
  BY <1>1, ReadyIsGood
<1>3. QED
  BY <1>2, OffIsGood DEF Done

LEMMA NextStepIsGood ==
  ASSUME NEW H, NEW r \in Clients, GoodContext(project, owner, H, r.dir, r.ctx),
         r.step \in LoopSteps
  PROVE  GoodClient(project, owner, H, NextStep(r))
<1> DEFINE q == [r EXCEPT !.calls = @ + 1]
<1>1. q \in Clients /\ q.dir = r.dir /\ q.ctx = r.ctx
  BY DEF Clients, IdleSteps, LoopSteps
<1>2. GoodClient(project, owner, H, q)
  BY <1>1 DEF GoodClient
<1>3. QED
  BY <1>2, DoneIsGood DEF NextStep

\* The agent and /undo leave the contexts alone, and keep them with the client.
LEMMA NextAgent ==
  ASSUME NEW H, ContextsInv(H), NEW t \in Terminals, AgentNext(t)
  PROVE  ContextsInv(H)'
<1>1. PICK r : r = term[t]
  OBVIOUS
<1>2. r.step \in ClientSteps =>
         /\ r \in Clients /\ GoodContext(project, owner, H, r.dir, r.ctx)
         /\ GoodClient(project, owner, H, r) /\ r # Off
  BY <1>1, ClientAt
<1>3. ASSUME NEW q, GoodClient(project, owner, H, q),
             \/ Become(t, q)
             \/ Loaded /\ Become(t, SaveOther(q)),
             UNCHANGED <<file, project, owner>>
      PROVE  ContextsInv(H)'
  BY <1>3, NextClient
<1>4. ASSUME NEW mode \in Agentic, RunAgent(t, mode) PROVE ContextsInv(H)'
  <2>1. PICK q : q = Asking(r, mode, FALSE)
    OBVIOUS
  <2>2. r.step \in ClientSteps /\ Become(t, q) /\ UNCHANGED <<file, project, owner>>
    BY <1>1, <1>4, <2>1 DEF RunAgent, server, ClientSteps, IdleSteps
  <2>3. GoodClient(project, owner, H, q)
    BY <1>2, <2>1, <2>2, AskingIsGood DEF Agentic
  <2>4. QED
    BY <1>3, <2>2, <2>3
<1>5. CASE ChatOnce(t)
  <2>1. PICK q : q = Asking(r, "once", FALSE)
    OBVIOUS
  <2>2. r.step \in ClientSteps /\ Become(t, q) /\ UNCHANGED <<file, project, owner>>
    BY <1>1, <1>5, <2>1 DEF ChatOnce, server, ClientSteps, IdleSteps
  <2>3. GoodClient(project, owner, H, q)
    BY <1>2, <2>1, <2>2, AskingIsGood
  <2>4. QED
    BY <1>3, <2>2, <2>3
<1>6. CASE SaveQuestion(t)
  <2>1. PICK q : q = [r EXCEPT !.step = "think"]
    OBVIOUS
  <2>2. r.step \in LoopSteps /\ Become(t, q) /\ UNCHANGED <<file, project, owner>>
    BY <1>1, <1>6, <2>1 DEF SaveQuestion, LoopSteps
  <2>3. r.step \in ClientSteps /\ "think" \in LoopSteps
    BY <2>2 DEF ClientSteps, LoopSteps
  <2>4. GoodClient(project, owner, H, q)
    BY <1>2, <2>1, <2>2, <2>3, ClientMovesOn
  <2>5. QED
    BY <1>3, <2>2, <2>4
<1>7. CASE Exec(t) \/ Undo(t)
  <2>1. UNCHANGED <<file, project, owner>> /\ (term' = term \/ Become(t, Off))
    BY <1>7 DEF Exec, Undo, server
  <2>2. ASSUME term' = term PROVE ContextsInv(H)'
    BY <2>1, <2>2 DEF ContextsInv
  <2>3. QED
    BY <1>3, <2>1, <2>2, OffIsGood
<1>8. CASE CallTool(t) \/ SendBack(t)
  <2>1. PICK q : q = NextStep(r)
    OBVIOUS
  <2>2. r.step \in LoopSteps /\ Become(t, q) /\ UNCHANGED <<file, project, owner>>
    BY <1>1, <1>8, <2>1 DEF CallTool, SendBack, Thinking, LoopSteps, server
  <2>3. GoodClient(project, owner, H, q)
    BY <1>2, <2>1, <2>2, NextStepIsGood DEF ClientSteps
  <2>4. QED
    BY <1>3, <2>2, <2>3
<1>9. CASE GiveUp(t) \/ WriteOutCode(t)
  <2>1. PICK q : q = Done(r)
    OBVIOUS
  <2>2. r.step \in ClientSteps /\ Become(t, q) /\ UNCHANGED <<file, project, owner>>
    BY <1>1, <1>9, <2>1 DEF GiveUp, WriteOutCode, Thinking, ClientSteps, LoopSteps, server
  <2>3. GoodClient(project, owner, H, q)
    BY <1>2, <2>1, <2>2, DoneIsGood
  <2>4. QED
    BY <1>3, <2>2, <2>3
<1>10. ASSUME NEW generic \in BOOLEAN, Answer(t, generic) PROVE ContextsInv(H)'
  <2>1. PICK q : q = [r EXCEPT !.step = "touch", !.generic = generic]
    OBVIOUS
  <2>2. r.step = "think" /\ Become(t, q) /\ UNCHANGED <<file, project, owner>>
    BY <1>1, <1>10, <2>1 DEF Answer, Thinking
  <2>3. r \in Clients /\ GoodContext(project, owner, H, r.dir, r.ctx)
    BY <1>2, <2>2 DEF ClientSteps, LoopSteps
  <2>4. q \in Clients /\ q.dir = r.dir /\ q.ctx = r.ctx
    BY <2>1, <2>2, <2>3 DEF Clients, IdleSteps, LoopSteps
  <2>5. GoodClient(project, owner, H, q)
    BY <2>3, <2>4 DEF GoodClient
  <2>6. QED
    BY <1>3, <2>2, <2>5
<1>11. CASE NoteModel(t)
  <2>1. PICK q : q = IF r.generic /\ ~r.again THEN [r EXCEPT !.step = "review"] ELSE Done(r)
    OBVIOUS
  <2>2. /\ r.step = "touch" /\ Loaded
        /\ Become(t, q) \/ Become(t, SaveOther(q))
        /\ UNCHANGED <<file, project, owner>>
    BY <1>1, <1>11, <2>1 DEF NoteModel, server
  <2>3. r.step \in ClientSteps /\ r.step \in LoopSteps /\ "review" \in LoopSteps
    BY <2>2 DEF ClientSteps, LoopSteps
  <2>4. PICK q1, q2 : q1 = [r EXCEPT !.step = "review"] /\ q2 = Done(r)
    OBVIOUS
  <2>5. GoodClient(project, owner, H, q1) /\ GoodClient(project, owner, H, q2)
    BY <1>2, <2>3, <2>4, ClientMovesOn, DoneIsGood
  <2>6. GoodClient(project, owner, H, q)
    BY <2>1, <2>4, <2>5
  <2>7. QED
    BY <1>3, <2>2, <2>6
<1>12. CASE Review(t)
  <2>1. PICK q : q = Asking(r, r.mode, TRUE)
    OBVIOUS
  <2>2. /\ r.step = "review" /\ Loaded /\ Become(t, SaveOther(q))
        /\ UNCHANGED <<file, project, owner>>
    BY <1>1, <1>12, <2>1 DEF Review, server
  <2>3. r \in Clients /\ GoodContext(project, owner, H, r.dir, r.ctx)
    BY <1>2, <2>2 DEF ClientSteps, LoopSteps
  <2>4. r.mode \in {"read", "write", "once"}
    BY <2>2, <2>3 DEF Clients, IdleSteps
  <2>5. GoodClient(project, owner, H, q)
    BY <2>1, <2>3, <2>4, AskingIsGood
  <2>6. QED
    BY <1>3, <2>2, <2>5
<1>13. CASE Quit(t)
  <2>1. /\ term' = [term EXCEPT ![t] = Off] /\ UNCHANGED <<project, owner>>
        /\ file' = file \/ file' = Torn
    BY <1>13 DEF Quit, Become, server
  <2>2. GoodTerm(project, owner, H, Off)
    BY OffIsGood DEF GoodTerm
  <2>3. PICK q : q = Off
    OBVIOUS
  <2>4. QED
    BY <2>1, <2>2, <2>3, TerminalSteps
<1>14. QED
  BY <1>4, <1>5, <1>6, <1>7, <1>8, <1>9, <1>10, <1>11, <1>12, <1>13 DEF AgentNext

\* At first there is neither a project nor a context.
LEMMA HostContextsAtFirst ==
  ASSUME Init
  PROVE  HostContextsInv
<1>0. PICK H : H = <<>>
  OBVIOUS
<1>5. H \in Seq(Directories)
  BY <1>0
<1>1. World(project, owner, H)
  BY <1>0 DEF Init, CliInit, World
<1>2. GoodFile(project, owner, H, file)
  BY DEF Init, CliInit, Empty, GoodFile
<1>3. \A t \in Terminals : GoodTerm(project, owner, H, term[t])
  BY OffIsGood DEF Init, CliInit, GoodTerm
<1>4. ContextsInv(H)
  BY <1>1, <1>2, <1>3 DEF ContextsInv, Init, CliInit
<1>6. QED
  BY <1>4, <1>5 DEF HostContextsInv

\* However the terminals of the host client overwrite each other's copies of the
\* file, a context names a project that was made for its directory, in the mode
\* that project was made with.
THEOREM HostContextsInvariance == Spec => []HostContextsInv
<1>1. Init => HostContextsInv
  BY HostContextsAtFirst
<1>2. HostContextsInv /\ [Next]_vars => HostContextsInv'
  <2>1. SUFFICES ASSUME HostContextsInv, [Next]_vars PROVE HostContextsInv'
    OBVIOUS
  <2>2. CASE UNCHANGED vars
    BY <2>1, <2>2 DEF HostContextsInv, ContextsInv, vars, cliVars, server
  <2>3. ASSUME NEW t \in Terminals, CliNext(t) PROVE HostContextsInv'
    BY <2>1, <2>3, NextCli
  <2>4. ASSUME NEW t \in Terminals, AgentNext(t) PROVE HostContextsInv'
    BY <2>1, <2>4, NextAgent DEF HostContextsInv
  <2>5. QED
    BY <2>1, <2>2, <2>3, <2>4 DEF Next
<1>3. QED
  BY <1>1, <1>2, PTL DEF Spec

-------------------------------------------------------------------------------
(* What the contexts say                                                    *)
LEMMA GoodFilesHoldGoodContexts ==
  ASSUME NEW P, NEW O, NEW H, NEW f, f = Torn \/ GoodFile(P, O, H, f),
         NEW h \in FileContexts(f)
  PROVE  GoodContext(P, O, H, h[1], h[2])
<1>1. f # Torn
  BY DEF FileContexts
<1>2. PICK d \in {x \in Directories : f[x] # None} : h = <<d, f[d]>>
  BY <1>1 DEF FileContexts
<1>3. QED
  BY <1>1, <1>2 DEF GoodFile

LEMMA GoodClientsHoldGoodContexts ==
  ASSUME NEW P, NEW O, NEW H, NEW r, GoodClient(P, O, H, r),
         NEW h \in ClientContexts(r)
  PROVE  GoodContext(P, O, H, h[1], h[2])
<1>1. HasContext(r) /\ h = <<r.dir, r.ctx>>
  BY DEF ClientContexts
<1>2. r # Off
  BY <1>1 DEF HasContext, Off
<1>3. QED
  BY <1>1, <1>2 DEF GoodClient

LEMMA HeldContextsAreGood ==
  ASSUME NEW H, ContextsInv(H), NEW h \in Held
  PROVE  GoodContext(project, owner, H, h[1], h[2])
<1>1. CASE h \in FileContexts(file)
  BY <1>1, GoodFilesHoldGoodContexts DEF ContextsInv
<1>2. ASSUME NEW t \in Terminals,
             h \in CASE term[t].step = "save" ->
                          FileContexts(term[t].write) \cup ClientContexts(term[t].then)
                     [] term[t].step = "ensure" -> FileContexts(term[t].copy)
                     [] OTHER -> ClientContexts(term[t])
      PROVE  GoodContext(project, owner, H, h[1], h[2])
  <2>1. PICK r : r = term[t]
    OBVIOUS
  <2>2. GoodTerm(project, owner, H, r)
    BY <2>1, TermIsGood
  <2>3. CASE r.step = "save"
    <3>1. GoodFile(project, owner, H, r.write) /\ GoodClient(project, owner, H, r.then)
      BY <2>2, <2>3, TermShapes
    <3>2. h \in FileContexts(r.write) \cup ClientContexts(r.then)
      BY <1>2, <2>1, <2>3
    <3>3. QED
      BY <3>1, <3>2, GoodFilesHoldGoodContexts, GoodClientsHoldGoodContexts
  <2>4. CASE r.step = "ensure"
    <3>1. GoodFile(project, owner, H, r.copy)
      BY <2>2, <2>4, TermShapes
    <3>2. h \in FileContexts(r.copy)
      BY <1>2, <2>1, <2>4
    <3>3. QED
      BY <3>1, <3>2, GoodFilesHoldGoodContexts
  <2>5. CASE r.step \notin {"save", "ensure"}
    <3>1. h \in ClientContexts(r)
      BY <1>2, <2>1, <2>5
    <3>2. r \notin Branched
      BY <3>1 DEF ClientContexts, HasContext, Branched
    <3>3. GoodClient(project, owner, H, r)
      BY <2>2, <2>5, <3>2 DEF GoodTerm, Saves, Ensures
    <3>4. QED
      BY <3>1, <3>3, GoodClientsHoldGoodContexts
  <2>6. QED
    BY <2>3, <2>4, <2>5
<1>3. QED
  BY <1>1, <1>2 DEF Held

\* A prompt carries the local_only of its context, and the chat endpoint does not
\* look at the project: what a context says is what the server says, whatever
\* clients overwrite, reset or toggle.
THEOREM LocalContextsStayLocal == Spec => []ContextsTellTheMode
<1>1. HostContextsInv => ContextsTellTheMode
  <2>1. SUFFICES ASSUME HostContextsInv, NEW h \in Held
                 PROVE  h[2].local = project[h[2].project]
    BY DEF ContextsTellTheMode
  <2>2. PICK H \in Seq(Directories) : ContextsInv(H)
    BY <2>1 DEF HostContextsInv
  <2>3. GoodContext(project, owner, H, h[1], h[2]) /\ project \in Seq(BOOLEAN)
    BY <2>1, <2>2, HeldContextsAreGood DEF ContextsInv, World
  <2>4. h[2].local \in BOOLEAN /\ project[h[2].project] \in BOOLEAN
    BY <2>3 DEF GoodContext, Contexts
  <2>5. QED
    BY <2>3, <2>4 DEF GoodContext
<1>2. QED
  BY <1>1, HostContextsInvariance, PTL

\* Directories share neither projects nor sessions, although every client writes
\* back the contexts of all directories as it once read them.
THEOREM DirectoriesStayApart == Spec => []DirectoriesKeepApart
<1>1. HostContextsInv => DirectoriesKeepApart
  <2>1. SUFFICES ASSUME HostContextsInv, NEW g \in Held, NEW h \in Held, g[1] # h[1]
                 PROVE  g[2].project # h[2].project /\ g[2].session # h[2].session
    BY DEF DirectoriesKeepApart
  <2>2. PICK H \in Seq(Directories) : ContextsInv(H)
    BY <2>1 DEF HostContextsInv
  <2>3. /\ GoodContext(project, owner, H, g[1], g[2])
        /\ GoodContext(project, owner, H, h[1], h[2])
    BY <2>1, <2>2, HeldContextsAreGood
  <2>4. QED
    BY <2>1, <2>3 DEF GoodContext
<1>2. QED
  BY <1>1, HostContextsInvariance, PTL

-------------------------------------------------------------------------------
(* /undo                                                                    *)
Entries == [path : Paths, version : Nat]

\* The versions of a path in a stack lie in order, and none above top.
Ordered(S, p, top) ==
    \A i \in 1 .. Len(S) : S[i].path = p =>
        /\ S[i].version <= top
        /\ \A j \in 1 .. Len(S) : (S[j].path = p /\ i <= j) => S[i].version <= S[j].version

\* Besides the order itself: who has kept a version of a file has written it, so
\* that /undo of anybody else leaves a file with one writer alone.
UndoInv ==
    /\ disk \in [Paths -> Nat]
    /\ writers \in [Paths -> SUBSET Terminals]
    /\ undo \in [Terminals -> Seq(Entries)]
    /\ \A t \in Terminals : \A i \in 1 .. Len(undo[t]) : t \in writers[undo[t][i].path]
    /\ \A t \in Terminals, p \in Paths :
          writers[p] \subseteq {t} => Ordered(undo[t], p, disk[p])

LEMMA EntryOf ==
  ASSUME NEW s \in Seq(Entries)
  PROVE  /\ Len(s) \in Nat /\ DOMAIN s = 1 .. Len(s)
         /\ \A i \in 1 .. Len(s) : s[i].path \in Paths /\ s[i].version \in Nat
<1>1. Len(s) \in Nat /\ DOMAIN s = 1 .. Len(s) /\ \A i \in 1 .. Len(s) : s[i] \in Entries
  OBVIOUS
<1>2. QED
  BY <1>1 DEF Entries

\* What is still to be had of a file has a highest version.
LEMMA ReachableHasMax ==
  ASSUME UndoInv, NEW p \in Paths, Terminals # {}
  PROVE  /\ Max(Reachable(p)) \in Nat
         /\ \A v \in Reachable(p) : v <= Max(Reachable(p))
<1> DEFINE R == Reachable(p)
           g == [t \in Terminals |->
                    CHOOSE b \in Nat : \A i \in 1 .. Len(undo[t]) : undo[t][i].version <= b]
<1>1. \A t \in Terminals :
         g[t] \in Nat /\ \A i \in 1 .. Len(undo[t]) : undo[t][i].version <= g[t]
  <2>1. ASSUME NEW t \in Terminals
        PROVE  \E b \in Nat : \A i \in 1 .. Len(undo[t]) : undo[t][i].version <= b
    <3>1. PICK s \in Seq(Entries) : s = undo[t]
      BY DEF UndoInv
    <3> DEFINE f == [i \in 1 .. Len(s) |-> s[i].version]
    <3>2. Len(s) \in Nat /\ \A i \in 1 .. Len(s) : f[i] \in Nat
      BY EntryOf
    <3> HIDE DEF f
    <3>3. PICK b \in Nat : \A i \in 1 .. Len(s) : f[i] <= b
      BY <3>2, ValuesBounded
    <3>4. QED
      BY <3>1, <3>3 DEF f
  <2>2. QED
    BY <2>1
<1> HIDE DEF g
<1>2. PICK m \in Terminals : \A t \in Terminals : g[t] <= g[m]
  BY <1>1, CliContextAssumption, GreatestOfFinite
<1>3. disk[p] \in Nat /\ g[m] \in Nat
  BY <1>1 DEF UndoInv
<1>4. PICK b \in Nat : disk[p] <= b /\ g[m] <= b
  BY <1>3
<1>5. \A v \in R : v \in Nat /\ v <= b
  <2>1. TAKE v \in R
  <2>2. CASE v = disk[p]
    BY <1>4, <2>2, <1>3
  <2>3. ASSUME NEW t \in Terminals, NEW i \in DOMAIN undo[t], v = undo[t][i].version
        PROVE  v \in Nat /\ v <= b
    <3>1. undo[t] \in Seq(Entries) /\ i \in 1 .. Len(undo[t])
      BY DEF UndoInv
    <3>2. v \in Nat
      BY <2>3, <3>1, EntryOf
    <3>3. v <= g[t] /\ g[t] <= g[m] /\ g[t] \in Nat
      BY <1>1, <1>2, <2>3, <3>1
    <3>4. QED
      BY <1>3, <1>4, <3>2, <3>3
  <2>4. QED
    BY <2>2, <2>3 DEF Reachable
<1>6. R # {}
  BY DEF Reachable
<1>7. R \in SUBSET Nat
  BY <1>5
<1> HIDE DEF R
<1>8. PICK x \in R : \A v \in R : v <= x
  BY <1>5, <1>6, <1>7, GreatestNatural
<1>9. Max(R) \in R /\ \A v \in R : Max(R) >= v
  BY <1>7, <1>8 DEF Max
<1>10. QED
  BY <1>7, <1>9 DEF R

\* _record_undo puts the version on disk on top; the oldest entry may go.
LEMMA RecordedInOrder ==
  ASSUME NEW S \in Seq(Entries), NEW e \in Entries,
         NEW T, T = Append(S, e) \/ T = Tail(Append(S, e))
  PROVE  /\ T \in Seq(Entries)
         /\ \A i \in 1 .. Len(T) : T[i] = e \/ \E j \in 1 .. Len(S) : T[i] = S[j]
         /\ \A p, top : (Ordered(S, p, top) /\ (e.path = p => e.version = top) /\ top \in Nat)
                          => Ordered(T, p, top)
<1> DEFINE A == Append(S, e)
<1>1. /\ A \in Seq(Entries) /\ Len(A) = Len(S) + 1 /\ Len(S) \in Nat
      /\ A[Len(A)] = e /\ \A i \in 1 .. Len(S) : A[i] = S[i] /\ S[i] \in Entries
  OBVIOUS
<1>2. \A i \in 1 .. Len(A) : A[i] = e \/ \E j \in 1 .. Len(S) : A[i] = S[j]
  <2>1. TAKE i \in 1 .. Len(A)
  <2>2. i = Len(A) \/ i \in 1 .. Len(S)
    BY <1>1
  <2>3. QED
    BY <1>1, <2>2
<1>3. ASSUME NEW p, NEW top \in Nat, Ordered(S, p, top), e.path = p => e.version = top
      PROVE  Ordered(A, p, top)
  <2>1. ASSUME NEW i \in 1 .. Len(A), A[i].path = p
        PROVE  A[i].version <= top
    <3>1. i = Len(A) \/ i \in 1 .. Len(S)
      BY <1>1
    <3>2. QED
      BY <1>1, <1>3, <2>1, <3>1 DEF Ordered
  <2>2. ASSUME NEW i \in 1 .. Len(A), A[i].path = p,
               NEW j \in 1 .. Len(A), A[j].path = p, i <= j
        PROVE  A[i].version <= A[j].version
    <3>1. CASE j = Len(A)
      BY <1>1, <1>3, <2>1, <2>2, <3>1
    <3>2. CASE j # Len(A)
      <4>1. i \in 1 .. Len(S) /\ j \in 1 .. Len(S)
        BY <1>1, <2>2, <3>2
      <4>2. QED
        BY <1>1, <1>3, <2>2, <4>1 DEF Ordered
    <3>3. QED
      BY <3>1, <3>2
  <2>3. QED
    BY <2>1, <2>2 DEF Ordered
<1>4. CASE T = A
  BY <1>1, <1>2, <1>3, <1>4
<1>5. CASE T = Tail(A)
  <2> HIDE DEF A
  <2>1. /\ T \in Seq(Entries) /\ Len(T) = Len(A) - 1
        /\ \A i \in 1 .. Len(T) : T[i] = A[i + 1] /\ i + 1 \in 1 .. Len(A)
    BY <1>1, <1>5
  <2>2. ASSUME NEW p, NEW top, Ordered(A, p, top)
        PROVE  Ordered(T, p, top)
    <3>1. Len(T) \in Nat /\ Len(A) \in Nat
      BY <1>1, <2>1
    <3>2. ASSUME NEW i \in 1 .. Len(T), T[i].path = p
          PROVE  T[i].version <= top
      BY <2>1, <2>2, <3>2 DEF Ordered
    <3>3. ASSUME NEW i \in 1 .. Len(T), T[i].path = p,
                 NEW j \in 1 .. Len(T), T[j].path = p, i <= j
          PROVE  T[i].version <= T[j].version
      <4>1. T[i] = A[i + 1] /\ T[j] = A[j + 1] /\ i + 1 <= j + 1
            /\ i + 1 \in 1 .. Len(A) /\ j + 1 \in 1 .. Len(A)
        BY <2>1, <3>1, <3>3
      <4>2. QED
        BY <2>2, <3>3, <4>1 DEF Ordered
    <3>4. QED
      BY <3>2, <3>3 DEF Ordered
  <2>3. QED
    BY <1>2, <1>3, <2>1, <2>2
<1>6. QED
  BY <1>4, <1>5

\* A file that is there is kept; writing it may fail, and then nothing but the
\* stack has changed.
LEMMA NextWriteFile ==
  ASSUME UndoInv, NEW t \in Terminals, NEW p \in Paths, WriteFile(t, p)
  PROVE  UndoInv'
<1>1. /\ writers' = [writers EXCEPT ![p] = @ \cup {t}]
      /\ disk' = [disk EXCEPT ![p] = Max(Reachable(p)) + 1] \/ disk' = disk
  BY DEF WriteFile
<1>2. PICK top : top = Max(Reachable(p))
  OBVIOUS
<1>3. /\ top \in Nat /\ \A v \in Reachable(p) : v <= top
  BY <1>2, ReachableHasMax
<1>4. disk \in [Paths -> Nat] /\ disk[p] <= top
  BY <1>3 DEF UndoInv, Reachable
<1>5. /\ disk' \in [Paths -> Nat] /\ disk[p] <= disk'[p]
      /\ \A x \in Paths : x # p => disk'[x] = disk[x]
  BY <1>1, <1>2, <1>3, <1>4
<1>6. /\ writers' \in [Paths -> SUBSET Terminals] /\ t \in writers'[p]
      /\ \A x \in Paths : writers[x] \subseteq writers'[x]
  BY <1>1 DEF UndoInv
<1>7. PICK e : e = [path |-> p, version |-> disk[p]]
  OBVIOUS
<1>8. e \in Entries /\ e.path = p /\ e.version = disk[p]
  BY <1>4, <1>7 DEF Entries
<1>9. PICK S \in Seq(Entries) : S = undo[t]
  BY DEF UndoInv
<1>10. /\ undo' \in [Terminals -> Seq(Entries)]
       /\ \A u \in Terminals : u # t => undo'[u] = undo[u]
       /\ \A i \in 1 .. Len(undo'[t]) :
             undo'[t][i] = e \/ \E j \in 1 .. Len(S) : undo'[t][i] = S[j]
       /\ \A x, v : (Ordered(S, x, v) /\ (e.path = x => e.version = v) /\ v \in Nat)
                        => Ordered(undo'[t], x, v)
  <2>1. CASE undo' = undo
    BY <1>9, <2>1 DEF UndoInv
  <2>2. CASE RecordUndo(t, p)
    <3>1. undo' = [undo EXCEPT ![t] = IF Len(Append(S, e)) > UndoDepth
                                      THEN Tail(Append(S, e)) ELSE Append(S, e)]
      BY <1>7, <1>9, <2>2 DEF RecordUndo
    <3>2. PICK T : T = IF Len(Append(S, e)) > UndoDepth
                       THEN Tail(Append(S, e)) ELSE Append(S, e)
      OBVIOUS
    <3>3. T = Append(S, e) \/ T = Tail(Append(S, e))
      BY <3>2
    <3>4. /\ T \in Seq(Entries)
          /\ \A i \in 1 .. Len(T) : T[i] = e \/ \E j \in 1 .. Len(S) : T[i] = S[j]
          /\ \A x, v : (Ordered(S, x, v) /\ (e.path = x => e.version = v) /\ v \in Nat)
                          => Ordered(T, x, v)
      BY <1>8, <3>3, RecordedInOrder
    <3>5. undo' = [undo EXCEPT ![t] = T] /\ undo \in [Terminals -> Seq(Entries)]
      BY <3>1, <3>2 DEF UndoInv
    <3>6. QED
      BY <3>4, <3>5
  <2>3. QED
    BY <2>1, <2>2 DEF WriteFile, BackUp
<1>11. ASSUME NEW u \in Terminals, NEW i \in 1 .. Len(undo'[u])
       PROVE  u \in writers'[undo'[u][i].path]
  <2>1. CASE u = t
    <3>1. CASE undo'[u][i] = e
      BY <1>6, <1>8, <2>1, <3>1
    <3>2. CASE undo'[u][i] # e
      <4>1. PICK j \in 1 .. Len(S) : undo'[u][i] = S[j]
        BY <1>10, <2>1, <3>2
      <4>2. u \in writers[S[j].path] /\ S[j].path \in Paths
        BY <1>9, <2>1, EntryOf DEF UndoInv
      <4>3. QED
        BY <1>6, <4>1, <4>2
    <3>3. QED
      BY <3>1, <3>2
  <2>2. CASE u # t
    <3>1. undo'[u] = undo[u] /\ undo[u] \in Seq(Entries)
      BY <1>10, <2>2 DEF UndoInv
    <3>2. undo[u][i].path \in Paths /\ u \in writers[undo[u][i].path]
      BY <3>1, EntryOf DEF UndoInv
    <3>3. QED
      BY <1>6, <3>1, <3>2
  <2>3. QED
    BY <2>1, <2>2
<1>12. ASSUME NEW u \in Terminals, NEW x \in Paths, writers'[x] \subseteq {u}
       PROVE  Ordered(undo'[u], x, disk'[x])
  <2>1. writers[x] \subseteq {u}
    BY <1>6, <1>12
  <2>2. Ordered(undo[u], x, disk[x])
    BY <2>1 DEF UndoInv
  <2>3. disk[x] \in Nat
    BY <1>4
  <2>4. Ordered(undo'[u], x, disk[x])
    <3>1. CASE u = t
      BY <1>8, <1>9, <1>10, <2>2, <2>3, <3>1
    <3>2. CASE u # t
      BY <1>10, <2>2, <3>2
    <3>3. QED
      BY <3>1, <3>2
  <2>5. disk[x] <= disk'[x] /\ disk'[x] \in Nat
    BY <1>5, <2>3
  <2>6. undo'[u] \in Seq(Entries)
    BY <1>10
  <2>7. PICK T \in Seq(Entries), a \in Nat, b \in Nat :
            T = undo'[u] /\ a = disk[x] /\ b = disk'[x]
    BY <2>3, <2>5, <2>6
  <2>8. Ordered(T, x, a) /\ a <= b
    BY <2>4, <2>5, <2>7
  <2>9. Ordered(T, x, b)
    BY <2>8, EntryOf DEF Ordered
  <2>10. QED
    BY <2>7, <2>9
<1>13. QED
  BY <1>5, <1>6, <1>10, <1>11, <1>12 DEF UndoInv

\* /undo takes the entry on top, and the stack stays in order below it.
LEMMA NextUndo ==
  ASSUME UndoInv, NEW t \in Terminals, Undo(t)
  PROVE  UndoInv'
<1>1. PICK S \in Seq(Entries) : S = undo[t]
  BY DEF UndoInv
<1>2. S # <<>>
  BY <1>1 DEF Undo
<1> DEFINE n == Len(S)
           T == SubSeq(S, 1, n - 1)
<1>3. /\ n \in Nat \ {0} /\ n \in 1 .. n /\ T \in Seq(Entries) /\ Len(T) = n - 1
      /\ \A i \in 1 .. n - 1 : T[i] = S[i] /\ i \in 1 .. n /\ i <= n
  <2>1. n \in Nat \ {0}
    BY <1>2
  <2> HIDE DEF n
  <2>2. n \in 1 .. n /\ n - 1 \in 0 .. n /\ \A i \in 1 .. n - 1 : i \in 1 .. n /\ i <= n
    BY <2>1
  <2>3. \A i \in 1 .. n - 1 : S[i] \in Entries
    BY <2>2 DEF n
  <2>4. T = [i \in 1 .. n - 1 |-> S[i]]
    BY <2>1, <2>2
  <2> HIDE DEF T
  <2>5. T \in Seq(Entries) /\ Len(T) = n - 1
    BY <2>1, <2>3, <2>4
  <2>6. QED
    BY <2>1, <2>2, <2>4, <2>5
<1>4. PICK p, v : p = S[n].path /\ v = S[n].version
  OBVIOUS
<1>5. p \in Paths /\ v \in Nat
  BY <1>3, <1>4, EntryOf
<1>6. /\ disk' = [disk EXCEPT ![p] = v] /\ undo' = [undo EXCEPT ![t] = T]
      /\ writers' = writers
  BY <1>1, <1>4 DEF Undo, LastOf
<1> HIDE DEF n, T
<1>7. /\ undo' \in [Terminals -> Seq(Entries)] /\ undo'[t] = T
      /\ \A u \in Terminals : u # t => undo'[u] = undo[u]
  BY <1>3, <1>6 DEF UndoInv
<1>8. disk' \in [Paths -> Nat] /\ disk'[p] = v /\ \A x \in Paths : x # p => disk'[x] = disk[x]
  BY <1>5, <1>6 DEF UndoInv
<1>9. ASSUME NEW u \in Terminals, NEW i \in 1 .. Len(undo'[u])
      PROVE  u \in writers[undo'[u][i].path]
  <2>1. CASE u = t
    BY <1>1, <1>3, <1>7, <1>9, <2>1 DEF UndoInv, n
  <2>2. CASE u # t
    BY <1>7, <1>9, <2>2 DEF UndoInv
  <2>3. QED
    BY <2>1, <2>2
<1>10. ASSUME NEW u \in Terminals, NEW x \in Paths, writers[x] \subseteq {u}
       PROVE  Ordered(undo'[u], x, disk'[x])
  <2>1. Ordered(undo[u], x, disk[x])
    BY <1>10 DEF UndoInv
  <2>2. CASE u = t
    <3>1. Ordered(S, x, disk[x])
      BY <1>1, <2>1, <2>2
    <3>2. ASSUME NEW i \in 1 .. Len(T), T[i].path = x
          PROVE  /\ T[i].version <= disk'[x]
                 /\ \A j \in 1 .. Len(T) :
                       (T[j].path = x /\ i <= j) => T[i].version <= T[j].version
      <4>1. T[i] = S[i] /\ i \in 1 .. Len(S) /\ i <= n
        BY <1>3, <3>2 DEF n
      <4>2. \A j \in 1 .. Len(T) : T[j] = S[j] /\ j \in 1 .. Len(S)
        BY <1>3 DEF n
      <4>3. S[i].version <= disk'[x]
        <5>1. CASE x = p
          BY <1>3, <1>4, <1>8, <3>1, <3>2, <4>1, <5>1 DEF Ordered, n
        <5>2. CASE x # p
          BY <1>8, <3>1, <3>2, <4>1, <5>2 DEF Ordered
        <5>3. QED
          BY <5>1, <5>2
      <4>4. QED
        BY <3>1, <3>2, <4>1, <4>2, <4>3 DEF Ordered
    <3>3. Ordered(T, x, disk'[x])
      BY <3>2 DEF Ordered
    <3>4. QED
      BY <1>7, <2>2, <3>3
  <2>3. CASE u # t
    <3>1. t \in writers[p]
      BY <1>1, <1>3, <1>4 DEF UndoInv, n
    <3>2. x # p
      BY <1>10, <2>3, <3>1
    <3>3. QED
      BY <1>7, <1>8, <2>1, <2>3, <3>2
  <2>4. QED
    BY <2>2, <2>3
<1>11. QED
  BY <1>6, <1>7, <1>8, <1>9, <1>10 DEF UndoInv

\* The client ends and its stack with it.
LEMMA NextQuit ==
  ASSUME UndoInv, NEW t \in Terminals, Quit(t)
  PROVE  UndoInv'
<1>1. /\ undo' = [undo EXCEPT ![t] = <<>>] /\ UNCHANGED <<disk, writers>>
  BY DEF Quit
<1>2. PICK T : T = <<>>
  OBVIOUS
<1>3. T \in Seq(Entries) /\ Len(T) = 0
  BY <1>2
<1>4. /\ undo' \in [Terminals -> Seq(Entries)] /\ undo'[t] = T
      /\ \A u \in Terminals : u # t => undo'[u] = undo[u]
  BY <1>1, <1>2, <1>3 DEF UndoInv
<1>5. \A x, v : Ordered(T, x, v)
  BY <1>3 DEF Ordered
<1>6. ASSUME NEW u \in Terminals, NEW i \in 1 .. Len(undo'[u])
      PROVE  u \in writers[undo'[u][i].path]
  <2>1. u # t
    BY <1>3, <1>4, <1>6
  <2>2. undo'[u] = undo[u]
    BY <1>4, <2>1
  <2>3. QED
    BY <1>6, <2>2 DEF UndoInv
<1>7. \A u \in Terminals, x \in Paths :
         writers[x] \subseteq {u} => Ordered(undo'[u], x, disk[x])
  BY <1>4, <1>5 DEF UndoInv
<1>8. QED
  BY <1>1, <1>4, <1>6, <1>7 DEF UndoInv

\* What is on disk, and the stacks, change by these three alone.
THEOREM UndoInvariance == Spec => []UndoInv
<1>1. Init => UndoInv
  <2>1. SUFFICES ASSUME Init PROVE UndoInv
    OBVIOUS
  <2>2. PICK T : T = <<>>
    OBVIOUS
  <2>3. T \in Seq(Entries) /\ Len(T) = 0 /\ undo = [t \in Terminals |-> T]
    BY <2>1, <2>2 DEF Init, AgentInit
  <2>4. \A x, v : Ordered(T, x, v)
    BY <2>3 DEF Ordered
  <2>5. QED
    BY <2>1, <2>3, <2>4 DEF Init, AgentInit, UndoInv
<1>2. UndoInv /\ [Next]_vars => UndoInv'
  <2>1. SUFFICES ASSUME UndoInv, [Next]_vars PROVE UndoInv'
    OBVIOUS
  <2>2. CASE UNCHANGED files
    BY <2>1, <2>2 DEF UndoInv, files
  <2>3. ASSUME NEW t \in Terminals, AgentNext(t) PROVE UndoInv'
    <3>1. CASE \E p \in Paths : WriteFile(t, p)
      BY <2>1, <3>1, NextWriteFile
    <3>2. CASE Undo(t)
      BY <2>1, <3>2, NextUndo
    <3>3. CASE Quit(t)
      BY <2>1, <3>3, NextQuit
    <3>4. QED
      BY <2>2, <2>3, <3>1, <3>2, <3>3 DEF AgentNext, RunAgent, ChatOnce, SaveQuestion, Exec,
         CallTool, SendBack, GiveUp, WriteOutCode, Answer, NoteModel, Review
  <2>4. QED
    BY <2>1, <2>2, <2>3 DEF Next, vars
<1>3. QED
  BY <1>1, <1>2, PTL DEF Spec

\* As long as one client alone writes a file, /undo leads back through its
\* versions in order, whatever was written, failed, or fell off the stack.
THEOREM UndoNeverGoesForward == Spec => []UndoGoesBack
<1>1. UndoInv => UndoGoesBack
  <2>1. SUFFICES ASSUME UndoInv, NEW t \in Terminals, NEW p \in Paths,
                        writers[p] \subseteq {t}, NEW i \in Kept(t, p)
                 PROVE  /\ undo[t][i].version <= disk[p]
                        /\ \A j \in Kept(t, p) :
                              i <= j => undo[t][i].version <= undo[t][j].version
    BY DEF UndoGoesBack
  <2>2. PICK S \in Seq(Entries) : S = undo[t]
    BY <2>1 DEF UndoInv
  <2>3. /\ i \in 1 .. Len(S) /\ S[i].path = p
        /\ \A j \in Kept(t, p) : j \in 1 .. Len(S) /\ S[j].path = p
    BY <2>1, <2>2 DEF Kept
  <2>4. Ordered(S, p, disk[p])
    BY <2>1, <2>2 DEF UndoInv
  <2>5. QED
    BY <2>2, <2>3, <2>4 DEF Ordered
<1>2. QED
  BY <1>1, UndoInvariance, PTL

-------------------------------------------------------------------------------
(* The packaged client                                                      *)

\* Next to the packaged client a context may lack its project or contradict the
\* mode of it, but it lets prompts leave the machine only where --hosted was said:
\* when the project was made, or by a client that has stamped the directory.
LooseContext(P, St, d, x) ==
    /\ x = [project |-> x.project, session |-> x.session, local |-> x.local]
    /\ x.local \in BOOLEAN
    /\ x.project # None => x.project \in 1 .. Len(P)
    /\ \/ x.local
       \/ d \in St
       \/ x.project # None /\ ~P[x.project]

LooseFile(P, St, f) ==
    /\ f = [d \in Directories |-> f[d]]
    /\ \A d \in Directories : f[d] = None \/ LooseContext(P, St, d, f[d])

HostClient(r) ==
    /\ r.step \in IdleSteps
    /\ r = [step |-> r.step, dir |-> r.dir, ctx |-> r.ctx, want |-> r.want]
    /\ r.dir \in Directories /\ r.want \in BOOLEAN

Shell(r) ==
    /\ r.step \in {"greet", "shell", "reset", "ask", "stamp"}
    /\ r = [step |-> r.step, dir |-> r.dir, want |-> r.want, shell |-> r.shell,
            session |-> r.session]
    /\ r.dir \in Directories /\ r.want \in BOOLEAN

LooseClient(P, St, r) ==
    \/ r = Off
    \/ Shell(r)
    \/ HostClient(r) /\ LooseContext(P, St, r.dir, r.ctx)

Contacts(r) ==
    /\ r.step = "contact"
    /\ r = [step |-> "contact", dir |-> r.dir, want |-> r.want, shell |-> r.shell,
            copy |-> r.copy, next |-> r.next]
    /\ r.dir \in Directories /\ r.want \in BOOLEAN
    /\ r.next \in {"greet", "ask", "shell"}

Branching(r) ==
    /\ r.step = "branched"
    /\ r = [step |-> "branched", dir |-> r.dir, want |-> r.want, session |-> r.session]
    /\ r.dir \in Directories /\ r.want \in BOOLEAN

LooseTerm(P, St, r) ==
    \/ LooseClient(P, St, r)
    \/ Branching(r)
    \/ Saves(r) /\ LooseFile(P, St, r.write) /\ LooseClient(P, St, r.then)
    \/ (Ensures(r) \/ Contacts(r)) /\ LooseFile(P, St, r.copy)

PackagedInv ==
    /\ project \in Seq(BOOLEAN)
    /\ file = Torn \/ LooseFile(project, stamped, file)
    /\ term = [t \in Terminals |-> term[t]]
    /\ \A t \in Terminals : LooseTerm(project, stamped, term[t])

LEMMA LooseStaysLoose ==
  ASSUME NEW P \in Seq(BOOLEAN), NEW Q \in Seq(BOOLEAN), Longer(P, Q),
         NEW St, NEW Tt, St \subseteq Tt
  PROVE  /\ \A d, x : LooseContext(P, St, d, x) => LooseContext(Q, Tt, d, x)
         /\ \A f : LooseFile(P, St, f) => LooseFile(Q, Tt, f)
         /\ \A r : LooseTerm(P, St, r) => LooseTerm(Q, Tt, r)
<1>1. ASSUME NEW d, NEW x, LooseContext(P, St, d, x)
      PROVE  LooseContext(Q, Tt, d, x)
  <2>1. Len(P) \in Nat /\ Len(Q) \in Nat
    OBVIOUS
  <2>2. CASE x.project # None
    <3>1. x.project \in 1 .. Len(P)
      BY <1>1, <2>2 DEF LooseContext
    <3>2. x.project \in 1 .. Len(Q) /\ Q[x.project] = P[x.project]
      BY <2>1, <3>1 DEF Longer
    <3>3. QED
      BY <1>1, <3>2 DEF LooseContext
  <2>3. CASE x.project = None
    BY <1>1, <2>3 DEF LooseContext
  <2>4. QED
    BY <2>2, <2>3
<1>2. \A f : LooseFile(P, St, f) => LooseFile(Q, Tt, f)
  BY <1>1 DEF LooseFile
<1>3. \A r : LooseClient(P, St, r) => LooseClient(Q, Tt, r)
  BY <1>1 DEF LooseClient
<1>4. \A r : LooseTerm(P, St, r) => LooseTerm(Q, Tt, r)
  BY <1>2, <1>3 DEF LooseTerm
<1>5. QED
  BY <1>1, <1>2, <1>4

\* Which shape the record of a terminal has is told by its step.
LEMMA LooseShapes ==
  ASSUME NEW P, NEW St, NEW r, LooseTerm(P, St, r)
  PROVE  /\ r.step \in IdleSteps =>
               /\ HostClient(r) /\ LooseContext(P, St, r.dir, r.ctx)
               /\ LooseClient(P, St, r)
         /\ r.step \in {"greet", "shell", "reset", "ask", "stamp"} => Shell(r)
         /\ r.step = "save" =>
               LooseFile(P, St, r.write) /\ LooseClient(P, St, r.then)
         /\ r.step = "ensure" => Ensures(r) /\ LooseFile(P, St, r.copy)
         /\ r.step = "contact" => Contacts(r) /\ LooseFile(P, St, r.copy)
         /\ r.step = "branched" => Branching(r)
<1>1. CASE r = Off
  BY <1>1 DEF Off, IdleSteps
<1>2. CASE Shell(r)
  BY <1>2 DEF Shell, IdleSteps
<1>3. CASE HostClient(r) /\ LooseContext(P, St, r.dir, r.ctx)
  BY <1>3 DEF HostClient, LooseClient, IdleSteps
<1>4. CASE Branching(r)
  BY <1>4 DEF Branching, IdleSteps
<1>5. CASE Saves(r) /\ LooseFile(P, St, r.write) /\ LooseClient(P, St, r.then)
  BY <1>5 DEF Saves, IdleSteps
<1>6. CASE (Ensures(r) \/ Contacts(r)) /\ LooseFile(P, St, r.copy)
  BY <1>6 DEF Ensures, Contacts, IdleSteps
<1>7. QED
  BY <1>1, <1>2, <1>3, <1>4, <1>5, <1>6 DEF LooseTerm, LooseClient

\* A step of one terminal.
LEMMA PackagedSteps ==
  ASSUME PackagedInv, project' \in Seq(BOOLEAN), Longer(project, project'),
         stamped \subseteq stamped',
         NEW t \in Terminals, NEW r, Become(t, r), LooseTerm(project', stamped', r),
         \/ file' = file
         \/ file' = Torn
         \/ LooseFile(project', stamped', file')
  PROVE  PackagedInv'
<1>1. project \in Seq(BOOLEAN)
  BY DEF PackagedInv
<1>2. /\ \A f : LooseFile(project, stamped, f) => LooseFile(project', stamped', f)
      /\ \A x : LooseTerm(project, stamped, x) => LooseTerm(project', stamped', x)
  BY <1>1, LooseStaysLoose
<1>3. /\ term' = [u \in Terminals |-> term'[u]]
      /\ \A u \in Terminals : term'[u] = term[u] \/ term'[u] = r
  BY DEF PackagedInv, Become
<1>4. file' = Torn \/ LooseFile(project', stamped', file')
  BY <1>2 DEF PackagedInv
<1>5. \A u \in Terminals : LooseTerm(project', stamped', term'[u])
  BY <1>2, <1>3 DEF PackagedInv
<1>6. QED
  BY <1>3, <1>4, <1>5 DEF PackagedInv

\* Most steps change nothing but what the terminal is about to do.
LEMMA PackagedMoves ==
  ASSUME PackagedInv, UNCHANGED <<file, project, stamped>>,
         NEW t \in Terminals, NEW r, Become(t, r), LooseTerm(project, stamped, r)
  PROVE  PackagedInv'
<1>1. project' \in Seq(BOOLEAN) /\ Longer(project, project')
  BY LongerItself DEF PackagedInv
<1>2. LooseTerm(project', stamped', r) /\ stamped \subseteq stamped'
  OBVIOUS
<1>3. QED
  BY <1>1, <1>2, PackagedSteps

LEMMA LooseNow ==
  ASSUME PackagedInv, NEW t \in Terminals
  PROVE  /\ project \in Seq(BOOLEAN) /\ LooseTerm(project, stamped, term[t])
         /\ Loaded => LooseFile(project, stamped, file)
BY DEF PackagedInv, Loaded

LEMMA PackagedSaves ==
  ASSUME PackagedInv, UNCHANGED <<file, project, stamped>>,
         NEW t \in Terminals, NEW q, LooseClient(project, stamped, q),
         \/ Become(t, q)
         \/ Loaded /\ Become(t, SaveOther(q))
         \/ Loaded /\ \E d \in Directories : Become(t, Saving(Forgetting(d), q))
  PROVE  PackagedInv'
<1>1. ASSUME NEW f, LooseFile(project, stamped, f), Become(t, Saving(f, q))
      PROVE  PackagedInv'
  <2>1. PICK r : r = Saving(f, q)
    OBVIOUS
  <2>2. LooseTerm(project, stamped, r)
    BY <1>1, <2>1 DEF Saving, LooseTerm, Saves
  <2>3. QED
    BY <1>1, <2>1, <2>2, PackagedMoves
<1>2. CASE Become(t, q)
  BY <1>2, PackagedMoves DEF LooseTerm
<1>3. CASE Loaded /\ Become(t, SaveOther(q))
  <2>1. PICK f : f = file
    OBVIOUS
  <2>2. LooseFile(project, stamped, f) /\ Become(t, Saving(f, q))
    BY <1>3, <2>1, LooseNow DEF SaveOther
  <2>3. QED
    BY <1>1, <2>2
<1>4. ASSUME NEW d \in Directories, Loaded, Become(t, Saving(Forgetting(d), q))
      PROVE  PackagedInv'
  <2>1. PICK f : f = Forgetting(d)
    OBVIOUS
  <2>2. LooseFile(project, stamped, f)
    BY <1>4, <2>1, LooseNow DEF Forgetting, LooseFile
  <2>3. QED
    BY <1>1, <1>4, <2>1, <2>2
<1>5. QED
  BY <1>2, <1>3, <1>4

\* Both clients load the file and ask the server.
LEMMA PackagedAsks ==
  ASSUME PackagedInv, UNCHANGED <<file, project, stamped>>, Loaded,
         NEW t \in Terminals, NEW d \in Directories, NEW w \in BOOLEAN,
         \/ \E next \in {"prompt", "welcome", "once"} : Become(t, Ensuring(d, w, next))
         \/ \E shell \in BOOLEAN, next \in {"greet", "ask", "shell"} :
               Become(t, Contacting(d, w, shell, next))
  PROVE  PackagedInv'
<1>1. LooseFile(project, stamped, file)
  BY LooseNow
<1>2. ASSUME NEW next \in {"prompt", "welcome", "once"}, Become(t, Ensuring(d, w, next))
      PROVE  PackagedInv'
  <2>1. PICK r : r = Ensuring(d, w, next)
    OBVIOUS
  <2>2. LooseTerm(project, stamped, r)
    BY <1>1, <2>1 DEF Ensuring, LooseTerm, Ensures
  <2>3. QED
    BY <1>2, <2>1, <2>2, PackagedMoves
<1>3. ASSUME NEW shell \in BOOLEAN, NEW next \in {"greet", "ask", "shell"},
             Become(t, Contacting(d, w, shell, next))
      PROVE  PackagedInv'
  <2>1. PICK r : r = Contacting(d, w, shell, next)
    OBVIOUS
  <2>2. LooseTerm(project, stamped, r)
    BY <1>1, <2>1 DEF Contacting, LooseTerm, Contacts
  <2>3. QED
    BY <1>3, <2>1, <2>2, PackagedMoves
<1>4. QED
  BY <1>2, <1>3

LEMMA PackagedRows ==
  ASSUME NEW St, project \in Seq(BOOLEAN), NEW d, NEW want \in BOOLEAN,
         NEW old, old = None \/ LooseContext(project, St, d, old), EnsureRows(old, want)
  PROVE  /\ project' \in Seq(BOOLEAN) /\ Longer(project, project')
         /\ ProjectOf(old) \in 1 .. Len(project') /\ ProjectOf(old) # None
         /\ project'[ProjectOf(old)] \in BOOLEAN
<1>1. Len(project) \in Nat
  OBVIOUS
<1>2. CASE HasProject(old)
  <2>1. project' = project /\ ProjectOf(old) = old.project /\ old # None /\ old.project # None
    BY <1>2 DEF EnsureRows, KeepsProject, ProjectOf, HasProject
  <2>2. old.project \in 1 .. Len(project)
    BY <2>1 DEF LooseContext
  <2>3. QED
    BY <1>1, <2>1, <2>2, LongerItself
<1>3. CASE ~HasProject(old)
  <2>1. project' = Append(project, want) /\ ProjectOf(old) = Len(project) + 1
    BY <1>3 DEF EnsureRows, KeepsProject, ProjectOf
  <2>2. /\ project' \in Seq(BOOLEAN) /\ Longer(project, project')
        /\ Len(project') = Len(project) + 1 /\ project'[Len(project) + 1] = want
    BY <2>1, LongerByOne
  <2>3. Len(project) + 1 \in Nat
    BY <1>1
  <2>4. QED
    BY <1>1, <2>1, <2>2, <2>3, PackagedAssumption
<1>4. QED
  BY <1>2, <1>3

\* The copy of the file with the new context is what either client writes next.
LEMMA PackagedEnsures ==
  ASSUME PackagedInv, NEW t \in Terminals, UNCHANGED <<file, stamped>>,
         NEW f, LooseFile(project, stamped, f), NEW d \in Directories, NEW want \in BOOLEAN,
         EnsureRows(f[d], want), NEW s, NEW q, NEW local \in BOOLEAN,
         ~local => ~project'[ProjectOf(f[d])],
         Become(t, Saving([f EXCEPT ![d] = [project |-> ProjectOf(f[d]), session |-> s,
                                            local |-> local]], q)),
         \/ q = Off
         \/ Shell(q)
         \/ /\ HostClient(q) /\ q.dir = d
            /\ q.ctx = [project |-> ProjectOf(f[d]), session |-> s, local |-> local]
  PROVE  PackagedInv'
<1>1. PICK p : p = ProjectOf(f[d])
  OBVIOUS
<1>2. project \in Seq(BOOLEAN)
  BY DEF PackagedInv
<1>3. /\ project' \in Seq(BOOLEAN) /\ Longer(project, project')
      /\ p \in 1 .. Len(project') /\ p # None
  <2>1. PICK old : old = f[d]
    OBVIOUS
  <2>2. old = None \/ LooseContext(project, stamped, d, old)
    BY <2>1 DEF LooseFile
  <2>3. EnsureRows(old, want) /\ p = ProjectOf(old)
    BY <1>1, <2>1
  <2>4. QED
    BY <1>2, <2>2, <2>3, PackagedRows
<1> DEFINE x == [project |-> p, session |-> s, local |-> local]
           g == [f EXCEPT ![d] = x]
<1>4. LooseContext(project', stamped', d, x)
  BY <1>1, <1>3 DEF LooseContext
<1>5. Become(t, Saving(g, q))
  BY <1>1
<1>6. q = Off \/ Shell(q) \/ (HostClient(q) /\ q.dir = d /\ q.ctx = x)
  BY <1>1
<1> HIDE DEF x
<1>7. LooseFile(project', stamped', f)
  BY <1>2, <1>3, LooseStaysLoose
<1>8. LooseFile(project', stamped', g)
  BY <1>4, <1>7 DEF LooseFile
<1>9. LooseClient(project', stamped', q)
  BY <1>4, <1>6 DEF LooseClient
<1>10. PICK r : r = Saving(g, q)
  OBVIOUS
<1>11. LooseTerm(project', stamped', r)
  <2> HIDE DEF g
  <2>1. QED
    BY <1>8, <1>9, <1>10 DEF Saving, LooseTerm, Saves
<1>12. QED
  BY <1>3, <1>5, <1>10, <1>11, PackagedSteps

LEMMA PackagedEnsureCli ==
  ASSUME PackagedInv, NEW t \in Terminals, EnsureCliContext(t), stamped' = stamped
  PROVE  PackagedInv'
<1>1. PICK r : r = term[t]
  OBVIOUS
<1>2. LooseTerm(project, stamped, r) /\ r.step = "ensure" /\ file' = file
  BY <1>1, LooseNow DEF EnsureCliContext
<1>3. Ensures(r) /\ LooseFile(project, stamped, r.copy)
  BY <1>2, LooseShapes
<1>4. PICK f, d, w, p, s, local :
         /\ f = r.copy /\ d = r.dir /\ w = r.want /\ p = ProjectOf(f[d])
         /\ s = SessionOf(f[d]) /\ local = AnswerLocal(ProjectOf(f[d]), w)
  OBVIOUS
<1>5. d \in Directories /\ w \in BOOLEAN /\ r.next \in IdleSteps
  BY <1>3, <1>4 DEF Ensures, IdleSteps
<1> DEFINE x == [project |-> ProjectOf(f[d]), session |-> s, local |-> local]
           q == [Ready(d, x, w) EXCEPT !.step = r.next]
<1>6. EnsureRows(f[d], w) /\ Become(t, Saving([f EXCEPT ![d] = x], q))
  BY <1>1, <1>4 DEF EnsureCliContext
<1>7. local \in BOOLEAN /\ local = project'[ProjectOf(f[d])]
  <2>1. PICK old : old = f[d]
    OBVIOUS
  <2>2. /\ old = None \/ LooseContext(project, stamped, d, old)
        /\ project \in Seq(BOOLEAN)
    BY <1>3, <1>4, <1>5, <2>1, LooseNow DEF LooseFile
  <2>3. EnsureRows(old, w) /\ local = project'[ProjectOf(old)]
    BY <1>4, <1>6, <2>1 DEF AnswerLocal
  <2>4. project'[ProjectOf(old)] \in BOOLEAN
    BY <1>5, <2>2, <2>3, PackagedRows
  <2>5. QED
    BY <1>4, <2>1, <2>3, <2>4 DEF AnswerLocal
<1>8. HostClient(q) /\ q.dir = d /\ q.ctx = x
  BY <1>5 DEF Ready, HostClient, IdleSteps
<1>9. PICK y : y = q
  OBVIOUS
<1>10. HostClient(y) /\ y.dir = d /\ y.ctx = x /\ Become(t, Saving([f EXCEPT ![d] = x], y))
  BY <1>6, <1>8, <1>9
<1> HIDE DEF q
<1>11. QED
  BY <1>2, <1>3, <1>4, <1>5, <1>6, <1>7, <1>10, PackagedEnsures

LEMMA PackagedContact ==
  ASSUME PackagedInv, NEW t \in Terminals, Contact(t)
  PROVE  PackagedInv'
<1>1. PICK r : r = term[t]
  OBVIOUS
<1>2. LooseTerm(project, stamped, r) /\ r.step = "contact" /\ UNCHANGED <<file, stamped>>
  BY <1>1, LooseNow DEF Contact
<1>3. Contacts(r) /\ LooseFile(project, stamped, r.copy)
  BY <1>2, LooseShapes
<1>4. PICK f, d, s : f = r.copy /\ d = r.dir /\ s = SessionOf(f[d])
  OBVIOUS
<1> DEFINE x == [project |-> ProjectOf(f[d]), session |-> s, local |-> TRUE]
           q == [step |-> r.next, dir |-> d, want |-> r.want, shell |-> r.shell, session |-> s]
<1>5. EnsureRows(f[d], TRUE) /\ Become(t, Saving([f EXCEPT ![d] = x], q))
  BY <1>1, <1>4 DEF Contact
<1>6. Shell(q) /\ d \in Directories
  BY <1>3, <1>4 DEF Contacts, Shell
<1>7. PICK y : y = q
  OBVIOUS
<1>8. Shell(y) /\ Become(t, Saving([f EXCEPT ![d] = x], y))
  BY <1>5, <1>6, <1>7
<1> HIDE DEF q
<1>9. PICK yes \in BOOLEAN : yes = TRUE
  OBVIOUS
<1>10. Become(t, Saving([f EXCEPT ![d] = [project |-> ProjectOf(f[d]), session |-> s,
                                          local |-> yes]], y))
  BY <1>8, <1>9
<1>11. QED
  BY <1>2, <1>3, <1>4, <1>5, <1>6, <1>8, <1>9, <1>10, PackagedEnsures

\* The context that the file has keeps its project and its mode.
LEMMA PackagedMoving ==
  ASSUME PackagedInv, NEW t \in Terminals, UNCHANGED <<file, project, stamped>>, Loaded,
         NEW r, r.dir \in Directories, r.want \in BOOLEAN, file[r.dir] # None,
         NEW s, Become(t, Moving(r, s))
  PROVE  PackagedInv'
<1>1. LooseFile(project, stamped, file)
  BY LooseNow
<1> DEFINE d == r.dir
           x == [file[d] EXCEPT !.session = s]
           f == [file EXCEPT ![d] = x]
<1>2. LooseContext(project, stamped, d, file[d])
  BY <1>1 DEF LooseFile
<1>3. LooseContext(project, stamped, d, x)
  BY <1>2 DEF LooseContext
<1>4. PICK q : q = Ready(d, x, r.want)
  OBVIOUS
<1>5. HostClient(q) /\ q.dir = d /\ q.ctx = x
  BY <1>4 DEF HostClient, Ready, IdleSteps
<1>6. Moving(r, s) = Saving(f, q)
  BY <1>4 DEF Moving
<1> HIDE DEF x
<1>7. LooseFile(project, stamped, f) /\ LooseClient(project, stamped, q)
  BY <1>1, <1>3, <1>5 DEF LooseFile, LooseClient
<1> HIDE DEF f
<1>8. PICK y : y = Saving(f, q)
  OBVIOUS
<1>9. LooseTerm(project, stamped, y)
  BY <1>7, <1>8 DEF Saving, LooseTerm, Saves
<1>10. QED
  BY <1>6, <1>8, <1>9, PackagedMoves

LEMMA HostClientAt ==
  ASSUME PackagedInv, NEW t \in Terminals, NEW r, r = term[t], r.step \in IdleSteps
  PROVE  /\ HostClient(r) /\ r.dir \in Directories /\ r.want \in BOOLEAN
         /\ LooseContext(project, stamped, r.dir, r.ctx) /\ LooseClient(project, stamped, r)
<1>1. HostClient(r) /\ LooseContext(project, stamped, r.dir, r.ctx)
      /\ LooseClient(project, stamped, r)
  BY LooseNow, LooseShapes
<1>2. QED
  BY <1>1 DEF HostClient

LEMMA ShellAt ==
  ASSUME PackagedInv, NEW t \in Terminals, NEW r, r = term[t],
         r.step \in {"greet", "shell", "reset", "ask", "stamp"}
  PROVE  Shell(r) /\ r.dir \in Directories /\ r.want \in BOOLEAN
<1>1. Shell(r)
  BY LooseNow, LooseShapes
<1>2. QED
  BY <1>1 DEF Shell

LEMMA HostClientMovesOn ==
  ASSUME NEW r, HostClient(r), LooseContext(project, stamped, r.dir, r.ctx),
         NEW step \in IdleSteps
  PROVE  LooseClient(project, stamped, [r EXCEPT !.step = step])
<1> DEFINE q == [r EXCEPT !.step = step]
<1>1. HostClient(q) /\ q.dir = r.dir /\ q.ctx = r.ctx
  BY DEF HostClient, IdleSteps
<1>2. QED
  BY <1>1 DEF LooseClient

LEMMA ShellMovesOn ==
  ASSUME NEW r, Shell(r), NEW step \in {"greet", "shell", "reset", "ask", "stamp"}
  PROVE  LooseClient(project, stamped, [r EXCEPT !.step = step])
<1> DEFINE q == [r EXCEPT !.step = step]
<1>1. Shell(q)
  BY DEF Shell
<1>2. QED
  BY <1>1 DEF LooseClient

LEMMA PackagedSaveState ==
  ASSUME PackagedInv, NEW t \in Terminals, SaveState(t), stamped' = stamped
  PROVE  PackagedInv'
<1>1. PICK r : r = term[t]
  OBVIOUS
<1>2. LooseTerm(project, stamped, r) /\ r.step = "save"
  BY <1>1, LooseNow DEF SaveState
<1>3. LooseFile(project, stamped, r.write) /\ LooseClient(project, stamped, r.then)
  BY <1>2, LooseShapes
<1>4. file' = r.write /\ Become(t, r.then) /\ project' = project
  BY <1>1 DEF SaveState, server
<1>5. PICK q : q = r.then
  OBVIOUS
<1>6. LooseTerm(project', stamped', q) /\ LooseFile(project', stamped', file')
  BY <1>3, <1>4, <1>5 DEF LooseTerm
<1>7. project' \in Seq(BOOLEAN) /\ Longer(project, project')
  BY <1>4, LongerItself DEF PackagedInv
<1>8. QED
  BY <1>4, <1>5, <1>6, <1>7, PackagedSteps

\* The host client next to the packaged one.
LEMMA PackagedNextCli ==
  ASSUME PackagedInv, NEW t \in Terminals, CliNext(t), stamped' = stamped
  PROVE  PackagedInv'
<1>1. PICK r : r = term[t]
  OBVIOUS
<1>2. PICK d, w : d = r.dir /\ w = r.want
  OBVIOUS
<1>3. r.step \in IdleSteps =>
         /\ HostClient(r) /\ d \in Directories /\ w \in BOOLEAN
         /\ LooseContext(project, stamped, r.dir, r.ctx) /\ LooseClient(project, stamped, r)
  BY <1>1, <1>2, HostClientAt
<1>4. ASSUME NEW e \in Directories, NEW v \in BOOLEAN, NEW next \in {"welcome", "once"},
             StartClient(t, e, v, next)
      PROVE  PackagedInv'
  BY <1>4, PackagedAsks DEF StartClient, server
<1>5. CASE Welcome(t)
  <2>1. PICK q : q = [r EXCEPT !.step = "prompt"]
    OBVIOUS
  <2>2. /\ r.step \in IdleSteps /\ "prompt" \in IdleSteps /\ Loaded
        /\ Become(t, q) \/ Become(t, SaveOther(q))
        /\ UNCHANGED <<file, project>>
    BY <1>1, <1>5, <2>1 DEF Welcome, IdleSteps, server
  <2>3. LooseClient(project, stamped, q)
    BY <1>3, <2>1, <2>2, HostClientMovesOn
  <2>4. QED
    BY <2>2, <2>3, PackagedSaves
<1>6. ASSUME NEW v \in BOOLEAN, ToggleLocal(t, v) PROVE PackagedInv'
  <2>1. /\ r.step \in IdleSteps /\ Loaded /\ Become(t, Ensuring(d, v, "prompt"))
        /\ UNCHANGED <<file, project>>
    BY <1>1, <1>2, <1>6 DEF ToggleLocal, AtPrompt, IdleSteps, server
  <2>2. QED
    BY <1>3, <2>1, PackagedAsks
<1>7. CASE Reload(t)
  <2>1. /\ r.step \in IdleSteps /\ Loaded /\ Become(t, Ensuring(d, w, "prompt"))
        /\ UNCHANGED <<file, project>>
    BY <1>1, <1>2, <1>7 DEF Reload, IdleSteps, server
  <2>2. QED
    BY <1>3, <2>1, PackagedAsks
<1>8. CASE Reset(t)
  <2>1. PICK q : q = [r EXCEPT !.step = "reload"]
    OBVIOUS
  <2>2. /\ r.step \in IdleSteps /\ "reload" \in IdleSteps /\ Loaded
        /\ Become(t, Saving(Forgetting(d), q)) /\ UNCHANGED <<file, project>>
    BY <1>1, <1>2, <1>8, <2>1 DEF Reset, AtPrompt, IdleSteps, server
  <2>3. LooseClient(project, stamped, q)
    BY <1>3, <2>1, <2>2, HostClientMovesOn
  <2>4. QED
    BY <1>3, <2>2, <2>3, PackagedSaves
<1>9. ASSUME NEW e \in Directories, ResetCommand(t, e) PROVE PackagedInv'
  <2>1. PICK q : q = Off
    OBVIOUS
  <2>2. /\ Loaded /\ Become(t, Saving(Forgetting(e), q)) /\ UNCHANGED <<file, project>>
        /\ LooseClient(project, stamped, q)
    BY <1>9, <2>1 DEF ResetCommand, server, LooseClient
  <2>3. QED
    BY <2>2, PackagedSaves
<1>10. CASE SwitchSession(t)
  <2>1. PICK s : Become(t, Moving(r, s))
    BY <1>1, <1>10 DEF SwitchSession
  <2>2. /\ r.step \in IdleSteps /\ Loaded /\ file[r.dir] # None
        /\ UNCHANGED <<file, project>>
    BY <1>1, <1>10 DEF SwitchSession, AtPrompt, IdleSteps, server
  <2>3. QED
    BY <1>2, <1>3, <2>1, <2>2, PackagedMoving
<1>11. CASE SaveBranch(t)
  <2>1. PICK s : s = r.session
    OBVIOUS
  <2>2. /\ r.step = "branched" /\ Loaded /\ file[r.dir] # None
        /\ Become(t, Moving(r, s)) /\ UNCHANGED <<file, project>>
    BY <1>1, <1>11, <2>1 DEF SaveBranch, server
  <2>3. Branching(r)
    BY <1>1, <2>2, LooseNow, LooseShapes
  <2>4. r.dir \in Directories /\ r.want \in BOOLEAN
    BY <2>3 DEF Branching
  <2>5. QED
    BY <2>2, <2>4, PackagedMoving
<1>12. CASE BranchSession(t)
  <2>1. PICK q : q = [step |-> "branched", dir |-> r.dir, want |-> r.want,
                      session |-> Len(owner')]
    OBVIOUS
  <2>2. r.step \in IdleSteps /\ Become(t, q) /\ UNCHANGED <<file, project>>
    BY <1>1, <1>12, <2>1 DEF BranchSession, AtPrompt, IdleSteps
  <2>3. LooseTerm(project, stamped, q)
    BY <1>2, <1>3, <2>1, <2>2 DEF LooseTerm, Branching
  <2>4. QED
    BY <2>2, <2>3, PackagedMoves
<1>13. CASE Remember(t)
  <2>1. /\ r.step \in IdleSteps /\ Loaded /\ Become(t, SaveOther(r))
        /\ UNCHANGED <<file, project>>
    BY <1>1, <1>13 DEF Remember, AtPrompt, IdleSteps, server
  <2>2. QED
    BY <1>3, <2>1, PackagedSaves
<1>14. QED
  BY <1>4, <1>5, <1>6, <1>7, <1>8, <1>9, <1>10, <1>11, <1>12, <1>13, PackagedSaveState,
     PackagedEnsureCli DEF CliNext

\* The mode the packaged client was started in is put on the context the file has.
LEMMA PackagedStamp ==
  ASSUME PackagedInv, NEW t \in Terminals, Stamp(t)
  PROVE  PackagedInv'
<1>1. PICK r : r = term[t]
  OBVIOUS
<1>2. r.step = "stamp" /\ Loaded /\ UNCHANGED <<file, project>>
  BY <1>1 DEF Stamp, server
<1>3. Shell(r) /\ r.dir \in Directories /\ r.want \in BOOLEAN
  BY <1>1, <1>2, ShellAt
<1>4. PICK d : d = r.dir
  OBVIOUS
<1> DEFINE x == IF file[d] = None
                THEN [project |-> None, session |-> None, local |-> r.want]
                ELSE [file[d] EXCEPT !.local = r.want]
           q == IF r.shell THEN [r EXCEPT !.step = "shell"] ELSE Off
<1>5. /\ Become(t, Saving([file EXCEPT ![d] = x], q))
      /\ stamped' = IF r.want THEN stamped ELSE stamped \cup {d}
  BY <1>1, <1>4 DEF Stamp
<1>6. /\ project' \in Seq(BOOLEAN) /\ Longer(project, project') /\ stamped \subseteq stamped'
      /\ project \in Seq(BOOLEAN)
  BY <1>2, <1>5, LongerItself DEF PackagedInv
<1>7. LooseFile(project', stamped', file)
  BY <1>2, <1>6, LooseNow, LooseStaysLoose
<1>8. LooseContext(project', stamped', d, x)
  <2>1. CASE file[d] = None
    BY <1>3, <1>5, <2>1 DEF LooseContext
  <2>2. CASE file[d] # None
    <3>1. LooseContext(project', stamped', d, file[d])
      BY <1>3, <1>4, <1>7, <2>2 DEF LooseFile
    <3>2. x = [file[d] EXCEPT !.local = r.want]
      BY <2>2
    <3>3. x = [project |-> file[d].project, session |-> file[d].session, local |-> r.want]
      BY <3>1, <3>2 DEF LooseContext
    <3> HIDE DEF x
    <3>4. x.project = file[d].project /\ x.session = file[d].session /\ x.local = r.want
      BY <3>3
    <3>5. x.local \/ d \in stamped'
      BY <1>3, <1>5, <3>4
    <3>6. QED
      BY <1>3, <3>1, <3>3, <3>4, <3>5 DEF LooseContext
  <2>3. QED
    BY <2>1, <2>2
<1> HIDE DEF x
<1>9. LooseFile(project', stamped', [file EXCEPT ![d] = x])
  BY <1>7, <1>8 DEF LooseFile
<1>10. LooseClient(project', stamped', q)
  <2>1. LooseClient(project', stamped', Off)
    BY DEF LooseClient
  <2>2. LooseClient(project', stamped', [r EXCEPT !.step = "shell"])
    <3>1. Shell([r EXCEPT !.step = "shell"])
      BY <1>3 DEF Shell
    <3>2. QED
      BY <3>1 DEF LooseClient
  <2>3. QED
    BY <2>1, <2>2
<1> HIDE DEF q
<1>11. PICK y : y = Saving([file EXCEPT ![d] = x], q)
  OBVIOUS
<1>12. LooseTerm(project', stamped', y)
  BY <1>9, <1>10, <1>11 DEF Saving, LooseTerm, Saves
<1>13. QED
  BY <1>2, <1>5, <1>6, <1>11, <1>12, PackagedSteps

LEMMA PackagedNextShell ==
  ASSUME PackagedInv, NEW t \in Terminals,
         \/ Greet(t) \/ SetWelcomeMode(t) \/ ResetShell(t) \/ Recontact(t) \/ RunPrompt(t)
         \/ AppendMessages(t) \/ Leave(t)
         \/ \E d \in Directories, want, shell \in BOOLEAN : OpenShell(t, d, want, shell)
  PROVE  PackagedInv'
<1>1. PICK r : r = term[t]
  OBVIOUS
<1>2. PICK d, w : d = r.dir /\ w = r.want
  OBVIOUS
<1>3. r.step \in {"greet", "shell", "reset", "ask", "stamp"} =>
         Shell(r) /\ d \in Directories /\ w \in BOOLEAN
  BY <1>1, <1>2, ShellAt
<1>4. CASE Greet(t)
  <2>1. PICK q : q = [r EXCEPT !.step = "shell"]
    OBVIOUS
  <2>2. /\ r.step = "greet" /\ Loaded
        /\ Become(t, q) \/ Become(t, SaveOther(q))
        /\ UNCHANGED <<file, project, stamped>>
    BY <1>1, <1>4, <2>1 DEF Greet, server
  <2>3. LooseClient(project, stamped, q)
    BY <1>3, <2>1, <2>2, ShellMovesOn
  <2>4. QED
    BY <2>2, <2>3, PackagedSaves
<1>5. CASE SetWelcomeMode(t)
  <2>1. /\ r.step = "shell" /\ Loaded /\ Become(t, SaveOther(r))
        /\ UNCHANGED <<file, project, stamped>>
    BY <1>1, <1>5 DEF SetWelcomeMode, AtShell, server
  <2>2. LooseClient(project, stamped, r)
    BY <1>3, <2>1 DEF LooseClient
  <2>3. QED
    BY <2>1, <2>2, PackagedSaves
<1>6. CASE ResetShell(t)
  <2>1. PICK q : q = [r EXCEPT !.step = "reset"]
    OBVIOUS
  <2>2. /\ r.step = "shell" /\ Loaded /\ Become(t, Saving(Forgetting(d), q))
        /\ UNCHANGED <<file, project, stamped>>
    BY <1>1, <1>2, <1>6, <2>1 DEF ResetShell, AtShell, server
  <2>3. LooseClient(project, stamped, q)
    BY <1>3, <2>1, <2>2, ShellMovesOn
  <2>4. QED
    BY <1>3, <2>2, <2>3, PackagedSaves
<1>7. CASE Recontact(t) \/ RunPrompt(t)
  <2>1. PICK yes \in BOOLEAN : yes = TRUE
    OBVIOUS
  <2>2. /\ r.step \in {"reset", "shell"} /\ Loaded /\ UNCHANGED <<file, project, stamped>>
        /\ \E next \in {"greet", "ask", "shell"} : Become(t, Contacting(d, w, yes, next))
    BY <1>1, <1>2, <1>7, <2>1 DEF Recontact, RunPrompt, AtShell, server
  <2>3. QED
    BY <1>3, <2>2, PackagedAsks
<1>8. CASE AppendMessages(t)
  <2>1. PICK q : q = [r EXCEPT !.step = "stamp"]
    OBVIOUS
  <2>2. r.step = "ask" /\ Become(t, q) /\ UNCHANGED <<file, project, stamped>>
    BY <1>1, <1>8, <2>1 DEF AppendMessages
  <2>3. LooseClient(project, stamped, q)
    BY <1>3, <2>1, <2>2, ShellMovesOn
  <2>4. QED
    BY <2>2, <2>3, PackagedSaves
<1>9. CASE Leave(t)
  <2>1. PICK q : q = Off
    OBVIOUS
  <2>2. /\ Become(t, q) /\ UNCHANGED <<project, stamped>>
        /\ file' = file \/ file' = Torn
    BY <1>9, <2>1 DEF Leave, server
  <2>3. LooseTerm(project', stamped', q)
    BY <2>1 DEF LooseTerm, LooseClient
  <2>4. project' \in Seq(BOOLEAN) /\ Longer(project, project') /\ stamped \subseteq stamped'
    BY <2>2, LongerItself DEF PackagedInv
  <2>5. QED
    BY <2>2, <2>3, <2>4, PackagedSteps
<1>10. ASSUME NEW e \in Directories, NEW want \in BOOLEAN, NEW shell \in BOOLEAN,
              OpenShell(t, e, want, shell)
       PROVE  PackagedInv'
  <2>1. PICK next \in {"greet", "ask", "shell"} : next = IF shell THEN "greet" ELSE "ask"
    OBVIOUS
  <2>2. /\ Loaded /\ Become(t, Contacting(e, want, shell, next))
        /\ UNCHANGED <<file, project, stamped>>
    BY <1>10, <2>1 DEF OpenShell, server
  <2>3. QED
    BY <2>2, PackagedAsks
<1>11. QED
  BY <1>4, <1>5, <1>6, <1>7, <1>8, <1>9, <1>10

\* Host and packaged clients together keep the modes of all contexts accounted for.
THEOREM PackagedInvariance == PackagedSpec => []PackagedInv
<1>1. PackagedInit => PackagedInv
  <2>1. SUFFICES ASSUME PackagedInit PROVE PackagedInv
    OBVIOUS
  <2>2. project \in Seq(BOOLEAN)
    BY <2>1 DEF PackagedInit, CliInit
  <2>3. LooseFile(project, stamped, file)
    BY <2>1 DEF PackagedInit, CliInit, Empty, LooseFile
  <2>4. term = [t \in Terminals |-> Off] /\ LooseTerm(project, stamped, Off)
    BY <2>1 DEF PackagedInit, CliInit, LooseTerm, LooseClient
  <2>5. QED
    BY <2>2, <2>3, <2>4 DEF PackagedInv
<1>2. PackagedInv /\ [PackagedNext]_packagedVars => PackagedInv'
  <2>1. SUFFICES ASSUME PackagedInv, [PackagedNext]_packagedVars PROVE PackagedInv'
    OBVIOUS
  <2>2. CASE UNCHANGED packagedVars
    BY <2>1, <2>2 DEF PackagedInv, packagedVars, server
  <2>3. ASSUME NEW t \in Terminals, CliNext(t), stamped' = stamped
        PROVE  PackagedInv'
    BY <2>1, <2>3, PackagedNextCli
  <2>4. ASSUME NEW t \in Terminals, Contact(t) \/ Stamp(t)
        PROVE  PackagedInv'
    BY <2>1, <2>4, PackagedContact, PackagedStamp
  <2>5. QED
    BY <2>1, <2>2, <2>3, <2>4, PackagedNextShell DEF PackagedNext
<1>3. QED
  BY <1>1, <1>2, PTL DEF PackagedSpec

\* No overlap of clients, reset, switch, branch or /local off lets the prompts of a
\* directory leave the machine unless --hosted was said for it.
THEOREM HostedIsAlwaysAskedFor == PackagedSpec => []HostedOnlyWhenAsked
<1>1. ASSUME NEW f, f = Torn \/ LooseFile(project, stamped, f), NEW h \in FileContexts(f)
      PROVE  LooseContext(project, stamped, h[1], h[2])
  <2>1. f # Torn
    BY <1>1 DEF FileContexts
  <2>2. PICK d \in {x \in Directories : f[x] # None} : h = <<d, f[d]>>
    BY <1>1, <2>1 DEF FileContexts
  <2>3. QED
    BY <1>1, <2>1, <2>2 DEF LooseFile
<1>2. ASSUME NEW r, LooseClient(project, stamped, r), NEW h \in ClientContexts(r)
      PROVE  LooseContext(project, stamped, h[1], h[2])
  <2>1. HasContext(r) /\ h = <<r.dir, r.ctx>>
    BY <1>2 DEF ClientContexts
  <2>2. r # Off /\ ~Shell(r)
    BY <2>1 DEF HasContext, Off, Shell
  <2>3. QED
    BY <1>2, <2>1, <2>2 DEF LooseClient
<1>3. ASSUME PackagedInv, NEW h \in Held
      PROVE  LooseContext(project, stamped, h[1], h[2])
  <2>1. CASE h \in FileContexts(file)
    BY <1>1, <1>3, <2>1 DEF PackagedInv
  <2>2. ASSUME NEW t \in Terminals,
               h \in CASE term[t].step = "save" ->
                            FileContexts(term[t].write) \cup ClientContexts(term[t].then)
                       [] term[t].step = "ensure" -> FileContexts(term[t].copy)
                       [] OTHER -> ClientContexts(term[t])
        PROVE  LooseContext(project, stamped, h[1], h[2])
    <3>1. PICK r : r = term[t]
      OBVIOUS
    <3>2. LooseTerm(project, stamped, r)
      BY <1>3, <3>1, LooseNow
    <3>3. CASE r.step = "save"
      <4>1. LooseFile(project, stamped, r.write) /\ LooseClient(project, stamped, r.then)
        BY <3>2, <3>3, LooseShapes
      <4>2. h \in FileContexts(r.write) \cup ClientContexts(r.then)
        BY <2>2, <3>1, <3>3
      <4>3. QED
        BY <1>1, <1>2, <4>1, <4>2
    <3>4. CASE r.step = "ensure"
      <4>1. LooseFile(project, stamped, r.copy)
        BY <3>2, <3>4, LooseShapes
      <4>2. h \in FileContexts(r.copy)
        BY <2>2, <3>1, <3>4
      <4>3. QED
        BY <1>1, <4>1, <4>2
    <3>5. CASE r.step \notin {"save", "ensure"}
      <4>1. h \in ClientContexts(r)
        BY <2>2, <3>1, <3>5
      <4>2. ~Branching(r) /\ ~Contacts(r)
        BY <4>1 DEF ClientContexts, HasContext, Branching, Contacts
      <4>3. LooseClient(project, stamped, r)
        BY <3>2, <3>5, <4>2 DEF LooseTerm, Saves, Ensures
      <4>4. QED
        BY <1>2, <4>1, <4>3
    <3>6. QED
      BY <3>3, <3>4, <3>5
  <2>3. QED
    BY <2>1, <2>2 DEF Held
<1>4. PackagedInv => HostedOnlyWhenAsked
  BY <1>3 DEF HostedOnlyWhenAsked, LooseContext
<1>5. QED
  BY <1>4, PackagedInvariance, PTL

-------------------------------------------------------------------------------
(* Reading a prompt                                                        *)

Byte ==
    Characters \cup
    {"torn", "rest", "escape", "[", "2", "0", "1", "~", "A", "enter", "backspace", "end", "interrupt"}

Told ==
    [text : Seq(Byte), from : Nat, whole : BOOLEAN,
     how : {"reading", "submitted", "ended", "interrupted"}]

\* The bytes of an act of each kind.
BytesAre(u, B) ==
    /\ B \in Seq(Byte)
    /\ u.type = "key" => Len(B) = Len(u.text) /\ \A j \in 1 .. Len(B) : B[j] = u.text[j]
    /\ u.type = "arrow" => Len(B) = 3 /\ B[1] = "escape" /\ B[2] = "[" /\ B[3] = "A"
    /\ u.type = "paste" =>
          /\ Len(B) = Len(u.text) + 12
          /\ \A j \in 1 .. 6 : B[j] = PasteBegins[j]
          /\ \A j \in 1 .. Len(u.text) : B[6 + j] = u.text[j]
          /\ \A j \in 1 .. 6 : B[(Len(u.text) + 6) + j] = PasteEnds[j]
    /\ u.type \notin {"key", "arrow", "paste"} => Len(B) = 1 /\ B[1] = u.type

LEMMA Markers ==
  /\ PasteBegins \in Seq(Byte) /\ Len(PasteBegins) = 6
  /\ PasteBegins[1] = "escape" /\ PasteBegins[2] = "[" /\ PasteBegins[3] = "2"
  /\ PasteBegins[5] = "0"
  /\ PasteEnds \in Seq(Byte) /\ Len(PasteEnds) = 6
  /\ PasteEnds[1] = "escape" /\ PasteEnds[2] = "[" /\ PasteEnds[3] = "2"
  /\ PasteEnds[5] = "1"
BY DEF PasteBegins, PasteEnds, Byte

\* The sequence c is a with b behind it.
Joins(c, a, b) ==
    /\ Len(c) = Len(a) + Len(b)
    /\ \A j \in 1 .. Len(a) : c[j] = a[j]
    /\ \A j \in 1 .. Len(b) : c[Len(a) + j] = b[j]

LEMMA Joined ==
  ASSUME NEW T, NEW a \in Seq(T), NEW b \in Seq(T)
  PROVE  a \o b \in Seq(T) /\ Joins(a \o b, a, b)
<1>1. Len(a) \in Nat /\ Len(b) \in Nat
  OBVIOUS
<1>2. PICK c : c = a \o b
  OBVIOUS
<1>3. c \in Seq(T) /\ Len(c) = Len(a) + Len(b)
  BY <1>2
<1>4. \A j \in 1 .. Len(a) : c[j] = a[j]
  BY <1>1, <1>2
<1>5. \A j \in 1 .. Len(b) : c[Len(a) + j] = b[j]
  BY <1>1, <1>2
<1>6. QED
  BY <1>2, <1>3, <1>4, <1>5 DEF Joins

LEMMA BytesOfAct ==
  ASSUME NEW u \in Acts
  PROVE  BytesAre(u, BytesOf(u))
<1>1. u.text \in Seq(Decoded) /\ u.type \in {"key", "arrow", "paste", "enter", "backspace",
                                               "escape", "end", "interrupt"}
  BY DEF Acts
<1>2. Decoded \subseteq Byte
  BY DEF Decoded, Byte
<1>3. u.text \in Seq(Byte) /\ Len(u.text) \in Nat
  BY <1>1, <1>2
<1>4. CASE u.type = "key"
  <2>1. BytesOf(u) = u.text
    BY <1>4 DEF BytesOf
  <2>2. QED
    BY <1>3, <1>4, <2>1 DEF BytesAre
<1>5. CASE u.type = "arrow"
  <2>1. BytesOf(u) = <<"escape", "[", "A">>
    BY <1>5 DEF BytesOf
  <2>2. <<"escape", "[", "A">> \in Seq(Byte)
    BY DEF Byte
  <2>3. QED
    BY <1>5, <2>1, <2>2 DEF BytesAre
<1>6. CASE u.type = "paste"
  <2>1. PICK a : a = PasteBegins
    OBVIOUS
  <2>2. PICK b : b = PasteEnds
    OBVIOUS
  <2>3. PICK t : t = u.text
    OBVIOUS
  <2>4. a \in Seq(Byte) /\ b \in Seq(Byte) /\ t \in Seq(Byte) /\ Len(a) = 6 /\ Len(b) = 6
    BY <1>3, <2>1, <2>2, <2>3, Markers
  <2>5. BytesOf(u) = (a \o t) \o b
    BY <1>6, <2>1, <2>2, <2>3 DEF BytesOf
  <2>6. PICK B : B = BytesOf(u)
    OBVIOUS
  <2>7. PICK c : c = a \o t
    OBVIOUS
  <2>8. c \in Seq(Byte) /\ Joins(c, a, t)
    BY <2>4, <2>7, Joined
  <2>9. B = c \o b
    BY <2>5, <2>6, <2>7
  <2>10. B \in Seq(Byte) /\ Joins(B, c, b)
    BY <2>4, <2>8, <2>9, Joined
  <2>11. PICK l \in Nat : l = Len(t)
    BY <2>4
  <2>12. Len(c) = 6 + l /\ Len(B) = l + 12
    BY <2>4, <2>8, <2>10, <2>11 DEF Joins
  <2>14. \A j \in 1 .. 6 : B[(l + 6) + j] = b[j]
    BY <2>4, <2>10, <2>11, <2>12 DEF Joins
  <2>15. \A j \in 1 .. 6 + l : B[j] = c[j]
    BY <2>10, <2>12 DEF Joins
  <2>16. \A j \in 1 .. 6 : B[j] = a[j]
    BY <2>4, <2>8, <2>11, <2>15 DEF Joins
  <2>17. \A j \in 1 .. l : B[6 + j] = t[j]
    BY <2>4, <2>8, <2>11, <2>15 DEF Joins
  <2>18. QED
    BY <1>6, <2>1, <2>2, <2>3, <2>6, <2>10, <2>11, <2>12, <2>14, <2>16, <2>17 DEF BytesAre
<1>7. CASE u.type \notin {"key", "arrow", "paste"}
  <2>1. BytesOf(u) = <<u.type>>
    BY <1>1, <1>7 DEF BytesOf
  <2>2. u.type \in Byte
    BY <1>1, <1>7 DEF Byte
  <2>3. <<u.type>> \in Seq(Byte) /\ Len(<<u.type>>) = 1 /\ <<u.type>>[1] = u.type
    BY <2>2
  <2>4. QED
    BY <1>7, <2>1, <2>3 DEF BytesAre
<1>8. QED
  BY <1>4, <1>5, <1>6, <1>7

\* The recursive functions of the first n acts.
BytesIn(acts, n, f) ==
    f = [k \in 0 .. n |-> IF k = 0 THEN <<>> ELSE f[k - 1] \o BytesOf(acts[k])]

MeaningIn(acts, n, f) ==
    f = [k \in 0 .. n |->
            IF k = 0 THEN [text |-> <<>>, from |-> 0, whole |-> FALSE, how |-> "reading"]
            ELSE Understood(f[k - 1], acts[k])]

LEMMA BytesExist ==
  ASSUME NEW acts, NEW n \in Nat
  PROVE  \E f : BytesIn(acts, n, f)
<1>1. PICK G : G = {k \in 0 .. n : \E f : BytesIn(acts, k, f)}
  OBVIOUS
<1>2. 0 \in G
  <2>1. BytesIn(acts, 0, [k \in 0 .. 0 |-> <<>>])
    BY DEF BytesIn
  <2>2. QED
    BY <1>1, <2>1
<1>3. ASSUME NEW k \in 1 .. n, k - 1 \in G PROVE k \in G
  <2>1. PICK f : BytesIn(acts, k - 1, f)
    BY <1>1, <1>3
  <2>2. PICK g : g = [j \in 0 .. k |-> IF j = k THEN f[k - 1] \o BytesOf(acts[k]) ELSE f[j]]
    OBVIOUS
  <2>3. ASSUME NEW j \in 0 .. k
        PROVE  g[j] = IF j = 0 THEN <<>> ELSE g[j - 1] \o BytesOf(acts[j])
    <3>1. CASE j = k
      BY <2>2, <3>1
    <3>2. CASE j # k
      <4>1. j \in 0 .. (k - 1) /\ g[j] = f[j] /\ (j # 0 => g[j - 1] = f[j - 1])
        BY <2>2, <3>2
      <4>2. f[j] = IF j = 0 THEN <<>> ELSE f[j - 1] \o BytesOf(acts[j])
        BY <2>1, <4>1 DEF BytesIn
      <4>3. QED
        BY <4>1, <4>2
    <3>3. QED
      BY <3>1, <3>2
  <2>4. g = [j \in 0 .. k |-> IF j = 0 THEN <<>> ELSE g[j - 1] \o BytesOf(acts[j])]
    BY <2>2, <2>3
  <2>5. QED
    BY <1>1, <2>4 DEF BytesIn
<1>4. n \in G
  BY <1>2, <1>3, CountingUp
<1>5. QED
  BY <1>1, <1>4

LEMMA MeaningExists ==
  ASSUME NEW acts, NEW n \in Nat
  PROVE  \E f : MeaningIn(acts, n, f)
<1>1. PICK blank : blank = [text |-> <<>>, from |-> 0, whole |-> FALSE, how |-> "reading"]
  OBVIOUS
<1>2. \A k, f : MeaningIn(acts, k, f) <=>
        f = [j \in 0 .. k |-> IF j = 0 THEN blank ELSE Understood(f[j - 1], acts[j])]
  BY <1>1 DEF MeaningIn
<1>3. PICK G : G = {k \in 0 .. n : \E f : MeaningIn(acts, k, f)}
  OBVIOUS
<1>4. 0 \in G
  <2>1. PICK f : f = [j \in 0 .. 0 |-> blank]
    OBVIOUS
  <2>2. f = [j \in 0 .. 0 |-> IF j = 0 THEN blank ELSE Understood(f[j - 1], acts[j])]
    BY <2>1
  <2>3. MeaningIn(acts, 0, f)
    BY <1>2, <2>2
  <2>4. QED
    BY <1>3, <2>3
<1>5. ASSUME NEW k \in 1 .. n, k - 1 \in G PROVE k \in G
  <2>1. PICK f : MeaningIn(acts, k - 1, f)
    BY <1>3, <1>5
  <2>2. f = [j \in 0 .. (k - 1) |-> IF j = 0 THEN blank ELSE Understood(f[j - 1], acts[j])]
    BY <1>2, <2>1
  <2>3. PICK last : last = Understood(f[k - 1], acts[k])
    OBVIOUS
  <2>4. PICK g : g = [j \in 0 .. k |-> IF j = k THEN last ELSE f[j]]
    OBVIOUS
  <2>5. ASSUME NEW j \in 0 .. k
        PROVE  g[j] = IF j = 0 THEN blank ELSE Understood(g[j - 1], acts[j])
    <3>1. CASE j = k
      <4>1. g[j] = last /\ g[j - 1] = f[k - 1] /\ j # 0
        BY <2>4, <3>1
      <4>2. QED
        BY <2>3, <3>1, <4>1
    <3>2. CASE j # k
      <4>1. j \in 0 .. (k - 1) /\ g[j] = f[j] /\ (j # 0 => g[j - 1] = f[j - 1])
        BY <2>4, <3>2
      <4>2. f[j] = IF j = 0 THEN blank ELSE Understood(f[j - 1], acts[j])
        BY <2>2, <4>1
      <4>3. QED
        BY <4>1, <4>2
    <3>3. QED
      BY <3>1, <3>2
  <2>6. g = [j \in 0 .. k |-> IF j = 0 THEN blank ELSE Understood(g[j - 1], acts[j])]
    BY <2>4, <2>5
  <2>7. MeaningIn(acts, k, g)
    BY <1>2, <2>6
  <2>8. QED
    BY <1>3, <2>7
<1>6. n \in G
  BY <1>4, <1>5, CountingUp
<1>7. QED
  BY <1>3, <1>6

LEMMA BytesUnfold ==
  ASSUME NEW acts, Len(acts) \in Nat
  PROVE  BytesIn(acts, Len(acts), BytesUpTo(acts))
<1>1. BytesUpTo(acts) = CHOOSE f : BytesIn(acts, Len(acts), f)
  BY DEF BytesUpTo, BytesIn
<1>2. QED
  BY <1>1, BytesExist

LEMMA MeaningUnfold ==
  ASSUME NEW acts, Len(acts) \in Nat
  PROVE  MeaningIn(acts, Len(acts), MeaningUpTo(acts))
<1>1. MeaningUpTo(acts) = CHOOSE f : MeaningIn(acts, Len(acts), f)
  BY DEF MeaningUpTo, MeaningIn
<1>2. QED
  BY <1>1, MeaningExists

LEMMA NewText ==
  ASSUME NEW s \in Told, NEW t \in Seq(Byte)
  PROVE  /\ [s EXCEPT !.text = t] \in Told /\ [s EXCEPT !.text = t, !.whole = FALSE] \in Told
BY DEF Told

LEMMA NewPaste ==
  ASSUME NEW s \in Told, NEW t \in Seq(Byte), NEW f \in Nat
  PROVE  [s EXCEPT !.text = t, !.from = f, !.whole = TRUE] \in Told
BY DEF Told

LEMMA NewEnd ==
  ASSUME NEW s \in Told, NEW h \in {"reading", "submitted", "ended", "interrupted"}
  PROVE  [s EXCEPT !.how = h] \in Told
BY DEF Told

LEMMA ToldGoesOn ==
  ASSUME NEW s \in Told, NEW u \in Acts
  PROVE  Understood(s, u) \in Told
<1>1. /\ s.text \in Seq(Byte) /\ s.from \in Nat /\ s.whole \in BOOLEAN
      /\ s.how \in {"reading", "submitted", "ended", "interrupted"}
      /\ s = [text |-> s.text, from |-> s.from, whole |-> s.whole, how |-> s.how]
  BY DEF Told
<1>2. u.text \in Seq(Byte)
  BY DEF Acts, Decoded, Byte
<1>3. \A t \in Seq(Byte), f \in Nat, w \in BOOLEAN :
         \A h \in {"reading", "submitted", "ended", "interrupted"} :
            [text |-> t, from |-> f, whole |-> w, how |-> h] \in Told
  BY DEF Told
<1>4. /\ s.text \o u.text \in Seq(Byte) /\ Len(s.text) \in Nat
      /\ \A n \in Int : n <= Len(s.text) => SubSeq(s.text, 1, n) \in Seq(Byte)
  BY <1>1, <1>2
<1>5. s.text \o <<"[", "A">> \in Seq(Byte)
  <2>1. <<"[", "A">> \in Seq(Byte)
    BY DEF Byte
  <2>2. QED
    BY <1>1, <2>1
<1>6. CASE s.how # "reading"
  BY <1>6 DEF Understood
<1>7. CASE s.how = "reading" /\ u.type = "key"
  <2>1. Understood(s, u) = [s EXCEPT !.text = s.text \o u.text]
    BY <1>7 DEF Understood
  <2>2. QED
    BY <1>4, <2>1, NewText
<1>8. CASE s.how = "reading" /\ u.type = "arrow"
  <2>1. Understood(s, u) = [s EXCEPT !.text = s.text \o <<"[", "A">>]
    BY <1>8 DEF Understood
  <2>2. QED
    BY <1>5, <2>1, NewText
<1>9. CASE s.how = "reading" /\ u.type = "paste"
  <2>1. PICK f \in Nat : f = Len(s.text)
    BY <1>4
  <2>2. PICK t \in Seq(Byte) : t = s.text \o u.text
    BY <1>4
  <2>3. Understood(s, u) = [s EXCEPT !.text = t, !.from = f, !.whole = TRUE]
    BY <1>9, <2>1, <2>2 DEF Understood
  <2>4. [s EXCEPT !.text = t, !.from = f, !.whole = TRUE] \in Told
    BY NewPaste
  <2>5. QED
    BY <2>3, <2>4
<1>10. CASE s.how = "reading" /\ u.type \in {"enter", "end", "interrupt", "escape"}
  <2>1. CASE u.type = "escape"
    BY <1>10, <2>1 DEF Understood
  <2>2. CASE u.type # "escape"
    <3>1. PICK h : h = IF u.type = "interrupt" THEN "interrupted"
                       ELSE IF u.type = "end" /\ s.text = <<>> THEN "ended" ELSE "submitted"
      OBVIOUS
    <3>2. Understood(s, u) = [s EXCEPT !.how = h]
      BY <1>10, <2>2, <3>1 DEF Understood
    <3>3. h \in {"reading", "submitted", "ended", "interrupted"}
      BY <3>1
    <3>4. QED
      BY <3>2, <3>3, NewEnd
  <2>3. QED
    BY <2>1, <2>2
<1>11. CASE s.how = "reading" /\ u.type = "backspace"
  <2>1. CASE s.whole /\ Len(s.text) > s.from
    <3>1. Understood(s, u) = [s EXCEPT !.text = SubSeq(s.text, 1, s.from), !.whole = FALSE]
      BY <1>11, <2>1 DEF Understood
    <3>2. SubSeq(s.text, 1, s.from) \in Seq(Byte)
      BY <1>1, <1>4, <2>1
    <3>3. QED
      BY <3>1, <3>2, NewText
  <2>2. CASE ~(s.whole /\ Len(s.text) > s.from)
    <3>1. Understood(s, u) = [s EXCEPT !.text = SubSeq(s.text, 1, Len(s.text) - 1)]
      BY <1>11, <2>2 DEF Understood
    <3>2. SubSeq(s.text, 1, Len(s.text) - 1) \in Seq(Byte)
      BY <1>4
    <3>3. QED
      BY <3>1, <3>2, NewText
  <2>3. QED
    BY <2>1, <2>2
<1>12. QED
  BY <1>6, <1>7, <1>8, <1>9, <1>10, <1>11 DEF Acts

LEMMA NothingAfterTheEnd ==
  ASSUME NEW s, NEW u, s.how # "reading"
  PROVE  Understood(s, u) = s
BY DEF Understood

Extends(c, a) == Len(a) <= Len(c) /\ \A j \in 1 .. Len(a) : c[j] = a[j]

\* Of what a user does: the stream S of all bytes, the number E[i] of bytes of the first
\* i acts, and what they mean.
Stream(acts, S, E) ==
    /\ S \in Seq(Byte) /\ Len(acts) \in Nat
    /\ \A i \in 0 .. Len(acts) : E[i] \in Nat /\ E[i] <= Len(S)
    /\ E[0] = 0 /\ E[Len(acts)] = Len(S)
    /\ \A i \in 1 .. Len(acts) :
          /\ acts[i] \in Acts
          /\ E[i] = E[i - 1] + Len(BytesOf(acts[i]))
          /\ \A k \in 1 .. Len(BytesOf(acts[i])) : S[E[i - 1] + k] = BytesOf(acts[i])[k]

Story(acts, M) ==
    /\ \A i \in 0 .. Len(acts) : M[i] \in Told
    /\ M[0] = [text |-> <<>>, from |-> 0, whole |-> FALSE, how |-> "reading"]
    /\ \A i \in 1 .. Len(acts) : M[i] = Understood(M[i - 1], acts[i])
    /\ \A i \in 0 .. Len(acts) : M[i].how # "reading" => M[Len(acts)] = M[i]

Ends(acts) == [i \in 0 .. Len(acts) |-> Len(BytesUpTo(acts)[i])]

LEMMA InputIsAStream ==
  ASSUME NEW acts \in Seq(Acts)
  PROVE  Stream(acts, BytesUpTo(acts)[Len(acts)], Ends(acts))
<1>1. PICK F : F = BytesUpTo(acts)
  OBVIOUS
<1>2. PICK n \in Nat : n = Len(acts) /\ DOMAIN acts = 1 .. n
  OBVIOUS
<1>3. F = [k \in 0 .. n |-> IF k = 0 THEN <<>> ELSE F[k - 1] \o BytesOf(acts[k])]
  BY <1>1, <1>2, BytesUnfold DEF BytesIn
<1>4. F[0] = <<>> /\ \A k \in 1 .. n : F[k] = F[k - 1] \o BytesOf(acts[k])
  BY <1>3
<1>5. ASSUME NEW k \in 1 .. n PROVE acts[k] \in Acts /\ BytesOf(acts[k]) \in Seq(Byte)
  BY <1>2, BytesOfAct DEF BytesAre
<1>6. \A k \in 0 .. n : F[k] \in Seq(Byte)
  <2>1. PICK G : G = {k \in 0 .. n : F[k] \in Seq(Byte)}
    OBVIOUS
  <2>2. 0 \in G
    <3>1. <<>> \in Seq(Byte)
      OBVIOUS
    <3>2. F[0] \in Seq(Byte)
      BY <1>4, <3>1
    <3>3. QED
      BY <2>1, <3>2
  <2>3. ASSUME NEW k \in 1 .. n, k - 1 \in G PROVE k \in G
    <3>1. F[k] = F[k - 1] \o BytesOf(acts[k]) /\ F[k - 1] \in Seq(Byte)
      BY <1>4, <2>1, <2>3
    <3>2. F[k] \in Seq(Byte)
      BY <1>5, <3>1, Joined
    <3>3. QED
      BY <2>1, <3>2
  <2>4. ASSUME NEW m \in 0 .. n PROVE m \in G
    <3>1. \A k \in 1 .. m : k \in 1 .. n
      OBVIOUS
    <3>2. m \in Nat /\ \A k \in 1 .. m : k - 1 \in G => k \in G
      BY <2>3, <3>1
    <3>3. QED
      BY <2>2, <3>2, CountingUp
  <2>5. QED
    BY <2>1, <2>4
<1>7. ASSUME NEW k \in 1 .. n PROVE Joins(F[k], F[k - 1], BytesOf(acts[k])) /\ k - 1 \in 0 .. n
  <2>1. F[k] = F[k - 1] \o BytesOf(acts[k])
    BY <1>4
  <2>4. k - 1 \in 0 .. n
    OBVIOUS
  <2>2. F[k - 1] \in Seq(Byte) /\ BytesOf(acts[k]) \in Seq(Byte)
    BY <1>5, <1>6, <2>4
  <2>3. QED
    BY <2>1, <2>2, <2>4, Joined
<1>8. \A i \in 0 .. n : Len(F[i]) \in Nat
  BY <1>6
<1>9. \A i \in 0 .. n : Extends(F[n], F[i])
  <2>1. PICK G : G = {m \in 0 .. n : \A i \in 0 .. m : Extends(F[m], F[i])}
    OBVIOUS
  <2>2. 0 \in G
    BY <1>4, <2>1 DEF Extends
  <2>3. ASSUME NEW k \in 1 .. n, k - 1 \in G PROVE k \in G
    <3>1. Extends(F[k], F[k - 1])
      <4>1. PICK b : b = BytesOf(acts[k])
        OBVIOUS
      <4>2. Joins(F[k], F[k - 1], b) /\ k - 1 \in 0 .. n
        BY <1>7, <4>1
      <4>3. Len(b) \in Nat
        BY <1>5, <4>1
      <4>4. Len(F[k - 1]) \in Nat
        BY <1>8, <4>2
      <4>5. QED
        BY <4>2, <4>3, <4>4 DEF Joins, Extends
    <3>2. ASSUME NEW i \in 0 .. k PROVE Extends(F[k], F[i])
      <4>1. CASE i = k
        BY <1>8, <4>1 DEF Extends
      <4>2. CASE i # k
        <5>1. i \in 0 .. (k - 1) /\ i \in 0 .. n /\ k - 1 \in 0 .. n /\ k \in 0 .. n
          BY <4>2
        <5>2. Extends(F[k - 1], F[i])
          BY <2>1, <2>3, <5>1
        <5>3. Len(F[i]) \in Nat /\ Len(F[k - 1]) \in Nat /\ Len(F[k]) \in Nat
          BY <1>8, <5>1
        <5>4. QED
          BY <3>1, <5>2, <5>3 DEF Extends
      <4>3. QED
        BY <4>1, <4>2
    <3>3. QED
      BY <2>1, <3>2
  <2>4. n \in G
    BY <2>2, <2>3, CountingUp
  <2>5. QED
    BY <2>1, <2>4
<1>10. PICK S : S = F[n]
  OBVIOUS
<1>11. PICK E : E = [i \in 0 .. n |-> Len(F[i])]
  OBVIOUS
<1>12. S \in Seq(Byte) /\ E[n] = Len(S) /\ E[0] = 0
  BY <1>4, <1>6, <1>10, <1>11
<1>13. \A i \in 0 .. n : E[i] \in Nat /\ E[i] <= Len(S)
  BY <1>8, <1>9, <1>10, <1>11 DEF Extends
<1>14. ASSUME NEW i \in 1 .. n
       PROVE  /\ E[i] = E[i - 1] + Len(BytesOf(acts[i]))
              /\ \A k \in 1 .. Len(BytesOf(acts[i])) : S[E[i - 1] + k] = BytesOf(acts[i])[k]
  <2>1. PICK B : B = BytesOf(acts[i])
    OBVIOUS
  <2>2. Joins(F[i], F[i - 1], B) /\ i \in 0 .. n /\ i - 1 \in 0 .. n
    BY <1>7, <2>1
  <2>3. E[i] = Len(F[i]) /\ E[i - 1] = Len(F[i - 1])
    BY <1>11, <2>2
  <2>4. E[i] = E[i - 1] + Len(B)
    BY <2>2, <2>3 DEF Joins
  <2>5. ASSUME NEW k \in 1 .. Len(B) PROVE S[E[i - 1] + k] = B[k]
    <3>1. F[i][E[i - 1] + k] = B[k]
      BY <2>2, <2>3 DEF Joins
    <3>2. Len(B) \in Nat
      BY <1>5, <2>1
    <3>3. E[i - 1] + k \in 1 .. Len(F[i])
      BY <1>8, <2>2, <2>3, <2>4, <3>2
    <3>4. S[E[i - 1] + k] = F[i][E[i - 1] + k]
      BY <1>9, <1>10, <2>2, <3>3 DEF Extends
    <3>5. QED
      BY <3>1, <3>4
  <2>6. QED
    BY <2>1, <2>4, <2>5
<1>15. S = BytesUpTo(acts)[Len(acts)] /\ E = Ends(acts)
  BY <1>1, <1>2, <1>10, <1>11 DEF Ends
<1>16. Stream(acts, S, E)
  BY <1>2, <1>5, <1>12, <1>13, <1>14 DEF Stream
<1>17. QED
  BY <1>15, <1>16

LEMMA InputHasAMeaning ==
  ASSUME NEW acts \in Seq(Acts)
  PROVE  Story(acts, MeaningUpTo(acts))
<1>1. PICK M : M = MeaningUpTo(acts)
  OBVIOUS
<1>2. PICK n \in Nat : n = Len(acts) /\ DOMAIN acts = 1 .. n
  OBVIOUS
<1>3. PICK blank : blank = [text |-> <<>>, from |-> 0, whole |-> FALSE, how |-> "reading"]
  OBVIOUS
<1>4. M = [k \in 0 .. n |-> IF k = 0 THEN blank ELSE Understood(M[k - 1], acts[k])]
  BY <1>1, <1>2, <1>3, MeaningUnfold DEF MeaningIn
<1>5. M[0] = blank /\ \A k \in 1 .. n : M[k] = Understood(M[k - 1], acts[k])
  BY <1>4
<1>6. \A k \in 1 .. n : acts[k] \in Acts
  BY <1>2
<1>7. blank \in Told
  <2>1. <<>> \in Seq(Byte)
    OBVIOUS
  <2>2. QED
    BY <1>3, <2>1 DEF Told
<1>8. ASSUME NEW m \in 0 .. n PROVE M[m] \in Told
  <2>1. PICK G : G = {k \in 0 .. n : M[k] \in Told}
    OBVIOUS
  <2>2. 0 \in G
    BY <1>5, <1>7, <2>1
  <2>3. ASSUME NEW k \in 1 .. m, k - 1 \in G PROVE k \in G
    <3>1. k \in 1 .. n /\ M[k - 1] \in Told
      BY <2>1, <2>3
    <3>2. M[k] \in Told
      BY <1>5, <1>6, <3>1, ToldGoesOn
    <3>3. QED
      BY <2>1, <3>1, <3>2
  <2>4. m \in G
    BY <2>2, <2>3, CountingUp
  <2>5. QED
    BY <2>1, <2>4
<1>9. ASSUME NEW i \in 0 .. n, M[i].how # "reading" PROVE M[n] = M[i]
  <2>1. PICK G : G = {k \in 0 .. n : k < i \/ M[k] = M[i]}
    OBVIOUS
  <2>2. 0 \in G
    BY <2>1
  <2>3. ASSUME NEW k \in 1 .. n, k - 1 \in G PROVE k \in G
    <3>1. CASE k <= i
      BY <2>1, <3>1
    <3>2. CASE k > i
      <4>1. M[k - 1] = M[i]
        BY <2>1, <2>3, <3>2
      <4>2. M[k] = M[i]
        BY <1>5, <1>9, <4>1, NothingAfterTheEnd
      <4>3. QED
        BY <2>1, <4>2
    <3>3. QED
      BY <3>1, <3>2
  <2>4. n \in G
    BY <2>2, <2>3, CountingUp
  <2>5. QED
    BY <2>1, <2>4
<1>10. QED
  BY <1>1, <1>2, <1>3, <1>5, <1>8, <1>9 DEF Story

\* Of act u, what is in the text when k of its bytes were looked at.
Shown(u, k) ==
    CASE u.type = "key" -> SubSeq(u.text, 1, k)
      [] u.type = "arrow" -> SubSeq(<<"[", "A">>, 1, k - 1)
      [] u.type = "paste" -> SubSeq(u.text, 1, k - 6)
      [] OTHER -> <<>>

\* What is to be looked at is the stream S from position p on.
Ahead(rest, S, p) ==
    /\ p \in Nat /\ p <= Len(S) /\ Len(rest) = Len(S) - p
    /\ \A j \in 1 .. Len(rest) : rest[j] = S[p + j]

PasteOf(s) == [on |-> FALSE, start |-> s.from, open |-> s.whole]

\* Of act i the first k bytes were looked at; a marker is looked at as a whole.
At(i, k, rest, text, pasted, acts, S, E, M) ==
    /\ i \in 1 .. Len(acts) /\ k \in 0 .. Len(BytesOf(acts[i])) - 1
    /\ acts[i].type = "paste" => k = 0 \/ k \in 6 .. 6 + Len(acts[i].text)
    /\ M[i - 1].how = "reading"
    /\ Ahead(rest, S, E[i - 1] + k)
    /\ text = M[i - 1].text \o Shown(acts[i], k)
    /\ pasted = IF acts[i].type = "paste" /\ k > 0
                THEN [on |-> TRUE, start |-> Len(M[i - 1].text), open |-> TRUE]
                ELSE PasteOf(M[i - 1])

\* The first i acts are done with.
After(i, rest, text, pasted, acts, S, E, M) ==
    /\ i \in 0 .. Len(acts)
    /\ M[i].how = "reading"
    /\ Ahead(rest, S, E[i])
    /\ text = M[i].text /\ pasted = PasteOf(M[i])

Somewhere(rest, text, pasted, acts, S, E, M) ==
    \/ \E i : After(i, rest, text, pasted, acts, S, E, M)
    \/ \E i, k : At(i, k, rest, text, pasted, acts, S, E, M)

\* The same, with the stream and the meaning of what a user does.
Here(rest, text, pasted, acts) ==
    Somewhere(rest, text, pasted, acts,
              BytesUpTo(acts)[Len(acts)], Ends(acts), MeaningUpTo(acts))

\* What the reads may make of what users do.
Heard == UNION {Hearings(acts) : acts \in Inputs}

\* The reader is somewhere in the stream, with the text and the paste that the acts
\* behind it mean; or it has ended as they mean; or a marker was cut.
PromptInv ==
    /\ heard \in Heard
    /\ pending \in Seq(Byte) /\ unread \in Seq(Byte)
    /\ \/ cut
       \/ Reading /\ Here(pending \o unread, chars, paste, heard)
       \/ ~Reading /\ prompt = Meaning.how /\ chars = Meaning.text

\* The recursive function of FlattenSeq.
FlatIn(w, n, f) == f = [i \in 1 .. n |-> IF i = 1 THEN w[i] ELSE f[i - 1] \o w[i]]

LEMMA FlatExists ==
  ASSUME NEW w, NEW n \in Nat
  PROVE  \E f : FlatIn(w, n, f)
<1>1. PICK G : G = {k \in 0 .. n : \E f : FlatIn(w, k, f)}
  OBVIOUS
<1>2. 0 \in G
  <2>1. FlatIn(w, 0, [i \in 1 .. 0 |-> w[i]])
    BY DEF FlatIn
  <2>2. QED
    BY <1>1, <2>1
<1>3. ASSUME NEW k \in 1 .. n, k - 1 \in G PROVE k \in G
  <2>1. PICK f : FlatIn(w, k - 1, f)
    BY <1>1, <1>3
  <2>2. PICK last : last = IF k = 1 THEN w[k] ELSE f[k - 1] \o w[k]
    OBVIOUS
  <2>3. PICK g : g = [i \in 1 .. k |-> IF i = k THEN last ELSE f[i]]
    OBVIOUS
  <2>4. ASSUME NEW i \in 1 .. k
        PROVE  g[i] = IF i = 1 THEN w[i] ELSE g[i - 1] \o w[i]
    <3>1. CASE i = k
      <4>1. g[i] = last /\ (i # 1 => g[i - 1] = f[i - 1])
        BY <2>3, <3>1
      <4>2. QED
        BY <2>2, <3>1, <4>1
    <3>2. CASE i # k
      <4>1. i \in 1 .. (k - 1) /\ g[i] = f[i] /\ (i # 1 => g[i - 1] = f[i - 1])
        BY <2>3, <3>2
      <4>2. f[i] = IF i = 1 THEN w[i] ELSE f[i - 1] \o w[i]
        BY <2>1, <4>1 DEF FlatIn
      <4>3. QED
        BY <4>1, <4>2
    <3>3. QED
      BY <3>1, <3>2
  <2>5. g = [i \in 1 .. k |-> IF i = 1 THEN w[i] ELSE g[i - 1] \o w[i]]
    BY <2>3, <2>4
  <2>6. FlatIn(w, k, g)
    BY <2>5 DEF FlatIn
  <2>7. QED
    BY <1>1, <2>6
<1>4. n \in G
  BY <1>2, <1>3, CountingUp
<1>5. QED
  BY <1>1, <1>4

LEMMA FlatUnfold ==
  ASSUME NEW w, NEW n \in Nat, Len(w) = n, n # 0
  PROVE  \E f : FlatIn(w, n, f) /\ FlattenSeq(w) = f[n]
<1>1. PICK f : f = CHOOSE g : FlatIn(w, n, g)
  OBVIOUS
<1>2. FlatIn(w, n, f)
  BY <1>1, FlatExists
<1>3. FlattenSeq(w) = f[n]
  BY <1>1 DEF FlattenSeq, FlatIn
<1>4. QED
  BY <1>2, <1>3

\* Several sequences one behind the other, none of which is empty.
LEMMA FlatIsASequence ==
  ASSUME NEW T, NEW w, NEW n \in Nat, Len(w) = n, n # 0,
         \A i \in 1 .. n : w[i] \in Seq(T) /\ Len(w[i]) >= 1
  PROVE  /\ FlattenSeq(w) \in Seq(T) /\ Len(FlattenSeq(w)) >= 1
         /\ FlattenSeq(w)[1] = w[1][1]
<1>1. PICK f : FlatIn(w, n, f) /\ FlattenSeq(w) = f[n]
  BY FlatUnfold
<1>2. \A i \in 1 .. n : f[i] = IF i = 1 THEN w[i] ELSE f[i - 1] \o w[i]
  BY <1>1 DEF FlatIn
<1>3. PICK G : G = {k \in 0 .. n : k # 0 => f[k] \in Seq(T) /\ Len(f[k]) >= 1
                                          /\ f[k][1] = w[1][1]}
  OBVIOUS
<1>4. 0 \in G
  BY <1>3
<1>5. ASSUME NEW k \in 1 .. n, k - 1 \in G PROVE k \in G
  <2>1. CASE k = 1
    <3>1. f[k] = w[1] /\ 1 \in 1 .. n
      BY <1>2, <2>1
    <3>2. f[k] \in Seq(T) /\ Len(f[k]) >= 1 /\ f[k][1] = w[1][1]
      BY <3>1
    <3>3. QED
      BY <1>3, <3>2
  <2>2. CASE k # 1
    <3>1. PICK a : a = f[k - 1]
      OBVIOUS
    <3>2. a \in Seq(T) /\ Len(a) >= 1 /\ a[1] = w[1][1]
      BY <1>3, <1>5, <2>2, <3>1
    <3>3. PICK b \in Seq(T) : b = w[k]
      OBVIOUS
    <3>4. f[k] = a \o b
      BY <1>2, <2>2, <3>1, <3>3
    <3>5. f[k] \in Seq(T) /\ Joins(f[k], a, b)
      BY <3>2, <3>4, Joined
    <3>6. Len(a) \in Nat /\ Len(b) \in Nat
      BY <3>2
    <3>7. Len(f[k]) >= 1 /\ f[k][1] = w[1][1]
      BY <3>2, <3>5, <3>6 DEF Joins
    <3>8. QED
      BY <1>3, <3>5, <3>7
  <2>3. QED
    BY <2>1, <2>2
<1>6. n \in G
  BY <1>4, <1>5, CountingUp
<1>7. QED
  BY <1>1, <1>3, <1>6

\* What a text is read as has its characters, torn ones, and no others.
LEMMA ReadAsText ==
  ASSUME NEW t \in Seq(Characters), NEW w \in OneOfEach([j \in DOMAIN t |-> ReadAs(t[j])])
  PROVE  /\ FlattenSeq(w) \in Seq({t[j] : j \in DOMAIN t} \cup {"torn", "rest"})
         /\ t # <<>> => Len(FlattenSeq(w)) >= 1 /\ FlattenSeq(w)[1] \in {t[1], "torn"}
<1>1. PICK n \in Nat : n = Len(t) /\ DOMAIN t = 1 .. n
  OBVIOUS
<1>2. PICK T : T = {t[j] : j \in DOMAIN t} \cup {"torn", "rest"}
  OBVIOUS
<1>3. PICK sets : sets = [j \in 1 .. n |-> ReadAs(t[j])]
  OBVIOUS
<1>4. /\ w \in [1 .. n -> UNION {sets[j] : j \in 1 .. n}]
      /\ \A j \in 1 .. n : w[j] \in ReadAs(t[j])
  BY <1>1, <1>3 DEF OneOfEach
<1>5. Len(w) = n
  BY <1>4
<1>6. ASSUME NEW j \in 1 .. n
      PROVE  w[j] \in Seq(T) /\ Len(w[j]) >= 1 /\ w[j][1] \in {t[j], "torn"}
  <2>1. t[j] \in T /\ "torn" \in T /\ "rest" \in T
    BY <1>1, <1>2
  <2>2. CASE w[j] = <<t[j]>>
    BY <2>1, <2>2
  <2>3. CASE w[j] # <<t[j]>>
    <3>1. PICK k \in 1 .. Width[t[j]] - 1 : w[j] = <<"torn">> \o [x \in 1 .. k |-> "rest"]
      BY <1>4, <2>3 DEF ReadAs
    <3>2. t[j] \in Characters
      BY <1>1
    <3>3. k \in Nat
      BY <3>2, PromptAssumption
    <3>4. PICK a : a = <<"torn">>
      OBVIOUS
    <3>5. PICK b : b = [x \in 1 .. k |-> "rest"]
      OBVIOUS
    <3>6. a \in Seq(T) /\ Len(a) = 1 /\ a[1] = "torn"
      BY <2>1, <3>4
    <3>7. b \in Seq(T) /\ Len(b) = k
      BY <2>1, <3>3, <3>5
    <3>8. w[j] = a \o b
      BY <3>1, <3>4, <3>5
    <3>9. w[j] \in Seq(T) /\ Joins(w[j], a, b)
      BY <3>6, <3>7, <3>8, Joined
    <3>10. QED
      BY <3>3, <3>6, <3>7, <3>9 DEF Joins
  <2>4. QED
    BY <2>2, <2>3
<1>7. CASE n = 0
  <2>1. FlattenSeq(w) = w
    BY <1>5, <1>7 DEF FlattenSeq
  <2>2. w = <<>> /\ t = <<>>
    BY <1>1, <1>4, <1>7
  <2>3. QED
    BY <2>1, <2>2
<1>8. CASE n # 0
  <2>1. /\ FlattenSeq(w) \in Seq(T) /\ Len(FlattenSeq(w)) >= 1
        /\ FlattenSeq(w)[1] = w[1][1]
    BY <1>5, <1>6, <1>8, FlatIsASequence
  <2>2. w[1][1] \in {t[1], "torn"}
    BY <1>6, <1>8
  <2>3. QED
    BY <1>2, <2>1, <2>2
<1>9. QED
  BY <1>7, <1>8

\* Whatever the reads tear, what is heard is again a sequence of acts: no control
\* character comes up in a text, and no key becomes empty, an Enter or a bracket.
LEMMA HeardIsActs ==
  ASSUME NEW acts \in Heard
  PROVE  /\ acts \in Seq(Acts)
         /\ \A i \in 1 .. Len(acts) :
               /\ \A k \in 1 .. Len(acts[i].text) :
                     acts[i].text[k] \notin {"escape", "end", "interrupt", "backspace"}
               /\ acts[i].type = "key" =>
                     /\ Len(acts[i].text) >= 1
                     /\ \A k \in 1 .. Len(acts[i].text) : acts[i].text[k] # "enter"
                     /\ i > 1 /\ acts[i - 1].type = "escape" => acts[i].text[1] # "["
<1>1. PICK done \in Inputs : acts \in Hearings(done)
  BY DEF Heard
<1>2. done \in Seq(Acts)
  BY PromptAssumption
<1>3. PICK n \in Nat : n = Len(done) /\ DOMAIN done = 1 .. n
  BY <1>2
<1>4. PICK sets : sets = [i \in 1 .. n |-> HeardAct(done[i])]
  OBVIOUS
<1>5. /\ acts \in [1 .. n -> UNION {sets[i] : i \in 1 .. n}]
      /\ \A i \in 1 .. n : acts[i] \in HeardAct(done[i])
  BY <1>1, <1>3, <1>4 DEF Hearings, OneOfEach
<1>6. ASSUME NEW i \in 1 .. n
      PROVE  /\ acts[i] \in Acts /\ acts[i].type = done[i].type
             /\ acts[i].text \in
                   Seq({done[i].text[j] : j \in DOMAIN done[i].text} \cup {"torn", "rest"})
             /\ done[i].text # <<>> =>
                   Len(acts[i].text) >= 1 /\ acts[i].text[1] \in {done[i].text[1], "torn"}
             /\ done[i].text \in Seq(Characters)
  <2>1. PICK u : u = done[i]
    OBVIOUS
  <2>2. PICK t : t = u.text
    OBVIOUS
  <2>3. u \in Acts /\ t \in Seq(Characters)
    BY <1>2, <1>3, <2>1, <2>2, PromptAssumption
  <2>4. PICK w \in OneOfEach([j \in DOMAIN t |-> ReadAs(t[j])]) :
          acts[i] = [u EXCEPT !.text = FlattenSeq(w)]
    BY <1>5, <2>1, <2>2 DEF HeardAct
  <2>5. PICK x : x = FlattenSeq(w)
    OBVIOUS
  <2>6. /\ x \in Seq({t[j] : j \in DOMAIN t} \cup {"torn", "rest"})
        /\ t # <<>> => Len(x) >= 1 /\ x[1] \in {t[1], "torn"}
    BY <2>3, <2>5, ReadAsText
  <2>7. acts[i] = [u EXCEPT !.text = x]
    BY <2>4, <2>5
  <2>8. acts[i].type = u.type /\ acts[i].text = x
    BY <2>3, <2>7 DEF Acts
  <2>9. {t[j] : j \in DOMAIN t} \cup {"torn", "rest"} \subseteq Decoded
    BY <2>3 DEF Decoded
  <2>10. x \in Seq(Decoded)
    BY <2>6, <2>9
  <2>11. acts[i] \in Acts
    BY <2>3, <2>7, <2>10 DEF Acts
  <2>12. QED
    BY <2>1, <2>2, <2>3, <2>6, <2>8, <2>11
<1>7. acts \in Seq(Acts) /\ Len(acts) = n
  <2>1. acts \in [1 .. n -> Acts]
    BY <1>5, <1>6
  <2>2. QED
    BY <2>1
<1>8. ASSUME NEW i \in 1 .. n
      PROVE  /\ \A k \in 1 .. Len(acts[i].text) :
                   acts[i].text[k] \notin {"escape", "end", "interrupt", "backspace"}
             /\ acts[i].type = "key" =>
                   /\ Len(acts[i].text) >= 1
                   /\ \A k \in 1 .. Len(acts[i].text) : acts[i].text[k] # "enter"
                   /\ i > 1 /\ acts[i - 1].type = "escape" => acts[i].text[1] # "["
  <2>1. PICK t : t = done[i].text
    OBVIOUS
  <2>2. PICK x : x = acts[i].text
    OBVIOUS
  <2>3. /\ t \in Seq(Characters)
        /\ x \in Seq({t[j] : j \in DOMAIN t} \cup {"torn", "rest"})
        /\ t # <<>> => Len(x) >= 1 /\ x[1] \in {t[1], "torn"}
    BY <1>6, <2>1, <2>2
  <2>4. \A k \in 1 .. Len(x) : x[k] \in {t[j] : j \in DOMAIN t} \cup {"torn", "rest"}
    BY <2>3
  <2>5. \A j \in DOMAIN t : t[j] \notin {"escape", "end", "interrupt", "backspace"}
    BY <2>3, PromptAssumption
  <2>6. \A k \in 1 .. Len(x) : x[k] \notin {"escape", "end", "interrupt", "backspace"}
    BY <2>4, <2>5
  <2>7. ASSUME acts[i].type = "key"
        PROVE  /\ Len(x) >= 1
               /\ \A k \in 1 .. Len(x) : x[k] # "enter"
               /\ i > 1 /\ acts[i - 1].type = "escape" => x[1] # "["
    <3>1. done[i].type = "key" /\ i \in DOMAIN done
      BY <1>3, <1>6, <2>7
    <3>2. /\ t # <<>> /\ \A j \in DOMAIN t : t[j] # "enter"
          /\ i > 1 /\ done[i - 1].type = "escape" => t[1] # "["
      BY <2>1, <3>1, PromptAssumption
    <3>3. i > 1 => acts[i - 1].type = done[i - 1].type
      <4>1. i > 1 => i - 1 \in 1 .. n
        OBVIOUS
      <4>2. QED
        BY <1>6, <4>1
    <3>4. QED
      BY <2>3, <2>4, <3>2, <3>3
  <2>8. QED
    BY <2>2, <2>6, <2>7
<1>9. QED
  BY <1>7, <1>8

LEMMA KeysAreKeys ==
  ASSUME NEW acts \in Heard, NEW i \in 1 .. Len(acts), acts[i].type = "key"
  PROVE  /\ Len(acts[i].text) >= 1
         /\ \A k \in 1 .. Len(acts[i].text) : acts[i].text[k] # "enter"
         /\ i > 1 /\ acts[i - 1].type = "escape" => acts[i].text[1] # "["
BY HeardIsActs

LEMMA Plain ==
  ASSUME NEW acts \in Heard, NEW i \in 1 .. Len(acts), NEW k \in 1 .. Len(acts[i].text)
  PROVE  acts[i].text[k] \notin {"escape", "end", "interrupt", "backspace"}
BY HeardIsActs

LEMMA ActHasBytes ==
  ASSUME NEW acts \in Heard, NEW i \in 1 .. Len(acts)
  PROVE  /\ acts[i] \in Acts /\ BytesAre(acts[i], BytesOf(acts[i]))
         /\ Len(BytesOf(acts[i])) \in Nat /\ Len(BytesOf(acts[i])) >= 1
         /\ acts[i].text \in Seq(Byte) /\ Len(acts[i].text) \in Nat
<1>1. acts \in Seq(Acts) /\ i \in DOMAIN acts
  BY HeardIsActs
<1>2. acts[i] \in Acts
  BY <1>1
<1>3. PICK B : B = BytesOf(acts[i])
  OBVIOUS
<1>4. BytesAre(acts[i], B) /\ B \in Seq(Byte)
  BY <1>2, <1>3, BytesOfAct DEF BytesAre
<1>5. acts[i].text \in Seq(Byte) /\ Len(acts[i].text) \in Nat
  BY <1>2 DEF Acts, Decoded, Byte
<1>6. Len(B) \in Nat
  BY <1>4
<1>7. Len(B) >= 1
  <2>1. CASE acts[i].type = "key"
    BY <1>4, <1>5, <1>6, <2>1, KeysAreKeys DEF BytesAre
  <2>2. CASE acts[i].type # "key"
    BY <1>4, <1>5, <1>6, <2>2 DEF BytesAre
  <2>3. QED
    BY <2>1, <2>2
<1>8. QED
  BY <1>2, <1>3, <1>4, <1>5, <1>6, <1>7

\* Where nothing of an act was looked at, it is looked at next.
LEMMA NextAct ==
  ASSUME NEW acts \in Heard, NEW S, NEW E, NEW M, Stream(acts, S, E), Story(acts, M),
         NEW rest, NEW text, NEW pasted, NEW i,
         After(i, rest, text, pasted, acts, S, E, M), Len(rest) # 0
  PROVE  At(i + 1, 0, rest, text, pasted, acts, S, E, M)
<1>1. PICK n \in Nat : n = Len(acts)
  BY DEF Stream
<1>2. i \in 0 .. n /\ M[i].how = "reading" /\ Ahead(rest, S, E[i])
      /\ text = M[i].text /\ pasted = PasteOf(M[i])
  BY <1>1 DEF After
<1>3. i # n
  <2>1. E[n] = Len(S) /\ Len(S) \in Nat
    BY <1>1 DEF Stream
  <2>2. QED
    BY <1>2, <2>1 DEF Ahead
<1>4. i + 1 \in 1 .. n /\ (i + 1) - 1 = i
  BY <1>2, <1>3
<1>5. PICK u : u = acts[i + 1]
  OBVIOUS
<1>6. Len(BytesOf(u)) \in Nat /\ Len(BytesOf(u)) >= 1
  BY <1>1, <1>4, <1>5, ActHasBytes
<1>7. Shown(u, 0) = <<>>
  <2>1. u.text \in Seq(Byte) /\ u \in Acts
    BY <1>1, <1>4, <1>5, ActHasBytes
  <2>2. \A m \in Int : m <= 0 => SubSeq(u.text, 1, m) = <<>>
    BY <2>1
  <2>3. \A m \in Int : m <= 0 => SubSeq(<<"[", "A">>, 1, m) = <<>>
    OBVIOUS
  <2>4. CASE u.type = "key"
    BY <2>2, <2>4 DEF Shown
  <2>5. CASE u.type = "arrow"
    BY <2>3, <2>5 DEF Shown
  <2>6. CASE u.type = "paste"
    BY <2>2, <2>6 DEF Shown
  <2>7. CASE u.type \notin {"key", "arrow", "paste"}
    BY <2>7 DEF Shown
  <2>8. QED
    BY <2>4, <2>5, <2>6, <2>7
<1>8. text = M[i].text \o Shown(u, 0)
  <2>1. M[i] \in Told
    BY <1>1, <1>2 DEF Story
  <2>2. M[i].text \in Seq(Byte)
    BY <2>1 DEF Told
  <2>3. M[i].text \o <<>> = M[i].text
    BY <2>2
  <2>4. QED
    BY <1>2, <1>7, <2>3
<1>9. Ahead(rest, S, E[(i + 1) - 1] + 0)
  <2>1. E[i] \in Nat
    BY <1>1, <1>2 DEF Stream
  <2>2. E[(i + 1) - 1] + 0 = E[i]
    BY <1>4, <2>1
  <2>3. QED
    BY <1>2, <2>2
<1>10. 0 \in 0 .. Len(BytesOf(u)) - 1 /\ ~(0 > 0)
  BY <1>6
<1>11. M[(i + 1) - 1] = M[i]
  BY <1>4
<1>12. QED
  BY <1>1, <1>2, <1>4, <1>5, <1>8, <1>9, <1>10, <1>11 DEF At

LEMMA SomewhereIsAt ==
  ASSUME NEW acts \in Heard, NEW S, NEW E, NEW M, Stream(acts, S, E), Story(acts, M),
         NEW rest, NEW text, NEW pasted,
         Somewhere(rest, text, pasted, acts, S, E, M), Len(rest) # 0
  PROVE  \E i, k : At(i, k, rest, text, pasted, acts, S, E, M)
<1>1. CASE \E i : After(i, rest, text, pasted, acts, S, E, M)
  <2>1. PICK i : After(i, rest, text, pasted, acts, S, E, M)
    BY <1>1
  <2>2. At(i + 1, 0, rest, text, pasted, acts, S, E, M)
    BY <2>1, NextAct
  <2>3. QED
    BY <2>2
<1>2. QED
  BY <1>1 DEF Somewhere

\* The bytes that come next are those of the act that is under way.
BytesToCome(i, k, rest, acts) ==
    /\ Len(rest) \in Nat /\ Len(rest) >= Len(BytesOf(acts[i])) - k
    /\ \A j \in 1 .. Len(BytesOf(acts[i])) - k : rest[j] = BytesOf(acts[i])[k + j]

LEMMA NextBytes ==
  ASSUME NEW acts \in Heard, NEW S, NEW E, NEW M, Stream(acts, S, E),
         NEW rest, NEW text, NEW pasted, NEW i, NEW k,
         At(i, k, rest, text, pasted, acts, S, E, M)
  PROVE  BytesToCome(i, k, rest, acts)
<1>1. PICK n \in Nat : n = Len(acts)
  BY DEF Stream
<1>2. i \in 1 .. n /\ k \in 0 .. Len(BytesOf(acts[i])) - 1 /\ Ahead(rest, S, E[i - 1] + k)
  BY <1>1 DEF At
<1>3. PICK B : B = BytesOf(acts[i])
  OBVIOUS
<1>4. Len(B) \in Nat /\ Len(B) >= 1
  BY <1>1, <1>2, <1>3, ActHasBytes
<1>5. /\ i - 1 \in 0 .. n /\ i \in 0 .. n /\ Len(S) \in Nat
      /\ E[i - 1] \in Nat /\ E[i] <= Len(S)
      /\ E[i] = E[i - 1] + Len(B)
      /\ \A m \in 1 .. Len(B) : S[E[i - 1] + m] = B[m]
  BY <1>1, <1>2, <1>3 DEF Stream
<1>6. PICK p \in Nat : p = E[i - 1]
  BY <1>5
<1>7. Len(rest) = Len(S) - (p + k) /\ \A j \in 1 .. Len(rest) : rest[j] = S[(p + k) + j]
  BY <1>2, <1>6 DEF Ahead
<1>8. k \in Nat /\ k <= Len(B) - 1
  BY <1>2, <1>3, <1>4
<1>9. Len(rest) \in Nat /\ Len(rest) >= Len(B) - k
  <2>1. PICK b \in Nat : b = Len(B)
    BY <1>4
  <2>2. PICK l \in Nat : l = Len(S)
    BY <1>5
  <2>3. p + b <= l /\ k \in Nat /\ k <= b - 1
    BY <1>5, <1>6, <1>8, <2>1, <2>2
  <2>4. l - (p + k) \in Nat /\ l - (p + k) >= b - k
    BY <2>3
  <2>5. QED
    BY <1>7, <2>1, <2>2, <2>4
<1>10. ASSUME NEW j \in 1 .. Len(B) - k PROVE rest[j] = B[k + j]
  <2>1. j \in 1 .. Len(rest) /\ k + j \in 1 .. Len(B) /\ (p + k) + j = p + (k + j)
    BY <1>4, <1>6, <1>8, <1>9
  <2>2. QED
    BY <1>5, <1>6, <1>7, <2>1
<1>11. QED
  BY <1>3, <1>9, <1>10 DEF BytesToCome

\* What is left to be looked at when the first n of those bytes were.
LEMMA MovesOn ==
  ASSUME NEW acts \in Heard, NEW S, NEW E, NEW M, Stream(acts, S, E),
         NEW rest \in Seq(Byte), NEW text, NEW pasted, NEW i, NEW k,
         At(i, k, rest, text, pasted, acts, S, E, M),
         NEW n \in 1 .. Len(BytesOf(acts[i])) - k
  PROVE  /\ Ahead(SubSeq(rest, n + 1, Len(rest)), S, E[i - 1] + (k + n))
         /\ k + n = Len(BytesOf(acts[i])) => Ahead(SubSeq(rest, n + 1, Len(rest)), S, E[i])
<1>1. PICK l \in Nat : l = Len(acts)
  BY DEF Stream
<1>2. i \in 1 .. l /\ k \in 0 .. Len(BytesOf(acts[i])) - 1 /\ Ahead(rest, S, E[i - 1] + k)
  BY <1>1 DEF At
<1>3. PICK b \in Nat : b = Len(BytesOf(acts[i]))
  BY <1>1, <1>2, ActHasBytes
<1>4. /\ i - 1 \in 0 .. l /\ i \in 0 .. l /\ Len(S) \in Nat
      /\ E[i - 1] \in Nat /\ E[i] <= Len(S)
      /\ E[i] = E[i - 1] + b
  BY <1>1, <1>2, <1>3 DEF Stream
<1>5. PICK p \in Nat : p = E[i - 1]
  BY <1>4
<1>6. PICK m \in Nat : m = Len(rest)
  OBVIOUS
<1>7. m = Len(S) - (p + k) /\ \A j \in 1 .. m : rest[j] = S[(p + k) + j]
  BY <1>2, <1>5, <1>6 DEF Ahead
<1>8. k \in Nat /\ n \in Nat /\ n >= 1 /\ k + n <= b /\ n <= m
  <2>1. PICK L \in Nat : L = Len(S)
    BY <1>4
  <2>2. k \in Nat /\ n \in Nat /\ n >= 1 /\ k + n <= b
    BY <1>2, <1>3
  <2>3. p + b <= L /\ m = L - (p + k)
    BY <1>4, <1>5, <1>7, <2>1
  <2>4. QED
    BY <2>2, <2>3
<1>9. PICK tail : tail = SubSeq(rest, n + 1, m)
  OBVIOUS
<1>15. n + 1 \in 1 .. m + 1 /\ m - (n + 1) + 1 = m - n
  BY <1>8
<1>16. Len(tail) = m - n
  BY <1>6, <1>9, <1>15
<1>10. ASSUME NEW j \in 1 .. m - n PROVE tail[j] = rest[n + j]
  <2>1. (n + 1) + j - 1 = n + j
    OBVIOUS
  <2>2. tail[j] = rest[(n + 1) + j - 1]
    BY <1>6, <1>8, <1>9, <1>15, <1>10
  <2>3. QED
    BY <2>1, <2>2
<1>11. p + (k + n) \in Nat /\ p + (k + n) <= Len(S) /\ Len(tail) = Len(S) - (p + (k + n))
  <2>1. PICK L \in Nat : L = Len(S)
    BY <1>4
  <2>2. PICK t : t = Len(tail)
    OBVIOUS
  <2>3. m = L - (p + k) /\ t = m - n
    BY <1>7, <1>16, <2>1, <2>2
  <2>4. p + (k + n) \in Nat /\ p + (k + n) <= L /\ t = L - (p + (k + n))
    BY <1>8, <2>3
  <2>5. QED
    BY <2>1, <2>2, <2>4
<1>12. ASSUME NEW j \in 1 .. Len(tail) PROVE tail[j] = S[(p + (k + n)) + j]
  <2>1. j \in 1 .. m - n
    BY <1>16
  <2>2. n + j \in 1 .. m /\ (p + k) + (n + j) = (p + (k + n)) + j
    BY <1>8, <2>1
  <2>3. rest[n + j] = S[(p + k) + (n + j)]
    BY <1>7, <2>2
  <2>4. QED
    BY <1>10, <2>1, <2>2, <2>3
<1>13. Ahead(tail, S, p + (k + n))
  BY <1>11, <1>12 DEF Ahead
<1>14. QED
  BY <1>3, <1>4, <1>5, <1>6, <1>9, <1>13

LEMMA MarkerIs ==
  ASSUME NEW m \in {PasteBegins, PasteEnds}, NEW s \in Seq(Byte)
  PROVE  IsPrefix(m, s) <=> Len(s) >= 6 /\ \A j \in 1 .. 6 : s[j] = m[j]
<1>1. m \in Seq(Byte) /\ Len(m) = 6
  BY Markers
<1>2. PICK l \in Nat : l = Len(s)
  OBVIOUS
<1>3. PICK a : a = SubSeq(m, 1, 6)
  OBVIOUS
<1>4. PICK b : b = SubSeq(s, 1, 6)
  OBVIOUS
<1>5. Len(a) = 6 /\ a \in Seq(Byte) /\ \A j \in 1 .. 6 : a[j] = m[j]
  <2>1. a = m
    BY <1>1, <1>3, SubSeqFull
  <2>2. QED
    BY <1>1, <2>1
<1>6. l >= 6 => Len(b) = 6 /\ b \in Seq(Byte) /\ \A j \in 1 .. 6 : b[j] = s[j]
  BY <1>2, <1>4
<1>7. IsPrefix(m, s) <=> 6 <= l /\ a = b
  BY <1>1, <1>2, <1>3, <1>4 DEF IsPrefix
<1>8. ASSUME l >= 6 PROVE a = b <=> \A j \in 1 .. 6 : s[j] = m[j]
  <2>1. ASSUME a = b PROVE \A j \in 1 .. 6 : s[j] = m[j]
    BY <1>5, <1>6, <1>8, <2>1
  <2>2. ASSUME \A j \in 1 .. 6 : s[j] = m[j] PROVE a = b
    <3>1. \A j \in 1 .. 6 : a[j] = b[j]
      BY <1>5, <1>6, <1>8, <2>2
    <3>2. Len(a) = Len(b) /\ a \in Seq(Byte) /\ b \in Seq(Byte)
      BY <1>5, <1>6, <1>8
    <3>3. \A j \in 1 .. Len(a) : a[j] = b[j]
      BY <1>5, <3>1
    <3>4. QED
      BY <3>2, <3>3, SeqEqual
  <2>3. QED
    BY <2>1, <2>2
<1>9. QED
  BY <1>2, <1>7, <1>8

\* The next byte of act u when k of its bytes were looked at.
Facing(u, k, c) ==
    /\ u.type = "key" => k < Len(u.text) /\ c = u.text[k + 1]
    /\ u.type = "arrow" => \/ k = 0 /\ c = "escape"
                           \/ k = 1 /\ c = "["
                           \/ k = 2 /\ c = "A"
    /\ u.type = "paste" => \/ k = 0 /\ c = "escape"
                           \/ k \in 6 .. 5 + Len(u.text) /\ c = u.text[k - 5]
                           \/ k = 6 + Len(u.text) /\ c = "escape"
    /\ u.type \notin {"key", "arrow", "paste"} => k = 0 /\ c = u.type

LEMMA LooksAt ==
  ASSUME NEW acts \in Heard, NEW S, NEW E, NEW M, Stream(acts, S, E),
         NEW rest, NEW text, NEW pasted, NEW i, NEW k,
         At(i, k, rest, text, pasted, acts, S, E, M)
  PROVE  Facing(acts[i], k, rest[1]) /\ k \in Nat /\ i \in 1 .. Len(acts)
<1>1. PICK B : B = BytesOf(acts[i])
  OBVIOUS
<1>2. i \in 1 .. Len(acts) /\ k \in 0 .. Len(B) - 1
  BY <1>1 DEF At
<1>3. PICK u : u = acts[i]
  OBVIOUS
<1>4. BytesAre(u, B) /\ Len(B) \in Nat /\ Len(u.text) \in Nat /\ Len(B) >= 1
  BY <1>1, <1>2, <1>3, ActHasBytes
<1>5. rest[1] = B[k + 1] /\ k \in Nat /\ k + 1 <= Len(B)
  <2>1. BytesToCome(i, k, rest, acts)
    BY NextBytes
  <2>2. \A j \in 1 .. Len(B) - k : rest[j] = B[k + j]
    BY <1>1, <2>1 DEF BytesToCome
  <2>3. QED
    BY <1>2, <1>4, <2>2
<1>6. CASE u.type = "key"
  <2>1. Len(B) = Len(u.text) /\ \A j \in 1 .. Len(B) : B[j] = u.text[j]
    BY <1>4, <1>6 DEF BytesAre
  <2>2. k < Len(u.text) /\ rest[1] = u.text[k + 1]
    BY <1>4, <1>5, <2>1
  <2>3. QED
    BY <1>2, <1>3, <1>5, <1>6, <2>2 DEF Facing
<1>7. CASE u.type = "arrow"
  <2>1. Len(B) = 3 /\ B[1] = "escape" /\ B[2] = "[" /\ B[3] = "A"
    BY <1>4, <1>7 DEF BytesAre
  <2>2. k = 0 \/ k = 1 \/ k = 2
    BY <1>5, <2>1
  <2>3. QED
    BY <1>2, <1>3, <1>5, <1>7, <2>1, <2>2 DEF Facing
<1>8. CASE u.type = "paste"
  <2>1. PICK l \in Nat : l = Len(u.text)
    BY <1>4
  <2>2. /\ \A j \in 1 .. 6 : B[j] = PasteBegins[j]
        /\ \A j \in 1 .. l : B[6 + j] = u.text[j]
        /\ \A j \in 1 .. 6 : B[(l + 6) + j] = PasteEnds[j]
    BY <1>4, <1>8, <2>1 DEF BytesAre
  <2>3. k = 0 \/ k \in 6 .. 6 + l
    BY <1>3, <1>8, <2>1 DEF At
  <2>4. CASE k = 0
    <3>1. rest[1] = "escape"
      BY <1>5, <2>2, <2>4, Markers
    <3>2. QED
      BY <1>2, <1>3, <1>5, <1>8, <2>4, <3>1 DEF Facing
  <2>5. CASE k \in 6 .. 5 + l
    <3>1. k - 5 \in 1 .. l /\ 6 + (k - 5) = k + 1
      BY <2>5
    <3>2. rest[1] = u.text[k - 5]
      BY <1>5, <2>2, <3>1
    <3>3. QED
      BY <1>2, <1>3, <1>5, <1>8, <2>1, <2>5, <3>2 DEF Facing
  <2>6. CASE k = 6 + l
    <3>1. k + 1 = (l + 6) + 1
      BY <2>6
    <3>2. rest[1] = "escape"
      <4>1. rest[1] = B[(l + 6) + 1]
        BY <1>5, <3>1
      <4>2. rest[1] = PasteEnds[1]
        BY <2>2, <4>1
      <4>3. QED
        BY <4>2, Markers
    <3>3. QED
      BY <1>2, <1>3, <1>5, <1>8, <2>1, <2>6, <3>2 DEF Facing
  <2>7. QED
    BY <2>3, <2>4, <2>5, <2>6
<1>9. CASE u.type \notin {"key", "arrow", "paste"}
  <2>1. Len(B) = 1 /\ B[1] = u.type
    BY <1>4, <1>9 DEF BytesAre
  <2>2. k = 0 /\ rest[1] = u.type
    BY <1>5, <2>1
  <2>3. QED
    BY <1>2, <1>3, <1>5, <1>9, <2>2 DEF Facing
<1>10. QED
  BY <1>6, <1>7, <1>8, <1>9

\* Where an escape is next, it is an arrow's, a marker's, or one that was typed.
LEMMA AnEscape ==
  ASSUME NEW acts \in Heard, NEW i \in 1 .. Len(acts), NEW k \in Nat,
         Facing(acts[i], k, "escape")
  PROVE  \/ acts[i].type \in {"arrow", "escape", "paste"} /\ k = 0
         \/ acts[i].type = "paste" /\ k = 6 + Len(acts[i].text)
<1>1. PICK u : u = acts[i]
  OBVIOUS
<1>2. Len(u.text) \in Nat /\ u \in Acts
  BY <1>1, ActHasBytes
<1>3. \A j \in 1 .. Len(u.text) : u.text[j] # "escape"
  BY <1>1, Plain
<1>4. CASE u.type = "key"
  <2>1. k < Len(u.text) /\ u.text[k + 1] = "escape"
    BY <1>1, <1>4 DEF Facing
  <2>2. k + 1 \in 1 .. Len(u.text)
    BY <1>2, <2>1
  <2>3. QED
    BY <1>3, <2>1, <2>2
<1>5. CASE u.type = "paste"
  <2>1. CASE k \in 6 .. 5 + Len(u.text) /\ u.text[k - 5] = "escape"
    <3>1. k - 5 \in 1 .. Len(u.text)
      BY <1>2, <2>1
    <3>2. QED
      BY <1>3, <2>1, <3>1
  <2>2. QED
    BY <1>1, <1>5, <2>1 DEF Facing
<1>6. CASE u.type \notin {"key", "paste"}
  BY <1>1, <1>6 DEF Facing
<1>7. QED
  BY <1>1, <1>4, <1>5, <1>6

\* What the next bytes are where an escape is next.
LEMMA AtAMarker ==
  ASSUME NEW acts \in Heard, NEW S, NEW E, NEW M, Stream(acts, S, E),
         NEW rest, NEW text, NEW pasted, NEW i, NEW k,
         At(i, k, rest, text, pasted, acts, S, E, M),
         acts[i].type = "paste"
  PROVE  /\ k = 0 => Len(rest) >= 6 /\ \A j \in 1 .. 6 : rest[j] = PasteBegins[j]
         /\ k = 6 + Len(acts[i].text) =>
               Len(rest) >= 6 /\ \A j \in 1 .. 6 : rest[j] = PasteEnds[j]
<1>1. PICK u : u = acts[i]
  OBVIOUS
<1>2. PICK B : B = BytesOf(acts[i])
  OBVIOUS
<1>3. i \in 1 .. Len(acts)
  BY DEF At
<1>4. BytesAre(u, B) /\ Len(u.text) \in Nat
  BY <1>1, <1>2, <1>3, ActHasBytes
<1>5. PICK l \in Nat : l = Len(u.text)
  BY <1>4
<1>6. /\ Len(B) = l + 12
      /\ \A j \in 1 .. 6 : B[j] = PasteBegins[j]
      /\ \A j \in 1 .. 6 : B[(l + 6) + j] = PasteEnds[j]
  BY <1>1, <1>4, <1>5 DEF BytesAre
<1>7. BytesToCome(i, k, rest, acts)
  BY NextBytes
<1>8. Len(rest) \in Nat /\ Len(rest) >= Len(B) - k /\ \A j \in 1 .. Len(B) - k : rest[j] = B[k + j]
  BY <1>2, <1>7 DEF BytesToCome
<1>9. ASSUME k = 0 PROVE Len(rest) >= 6 /\ \A j \in 1 .. 6 : rest[j] = PasteBegins[j]
  <2>1. \A j \in 1 .. 6 : j \in 1 .. Len(B) - k /\ k + j = j
    BY <1>6, <1>9
  <2>2. \A j \in 1 .. 6 : rest[j] = PasteBegins[j]
    BY <1>6, <1>8, <2>1
  <2>3. QED
    BY <1>6, <1>8, <1>9, <2>2
<1>10. ASSUME k = 6 + l PROVE Len(rest) >= 6 /\ \A j \in 1 .. 6 : rest[j] = PasteEnds[j]
  <2>1. \A j \in 1 .. 6 : j \in 1 .. Len(B) - k /\ k + j = (l + 6) + j
    BY <1>6, <1>10
  <2>2. \A j \in 1 .. 6 : rest[j] = PasteEnds[j]
    BY <1>6, <1>8, <2>1
  <2>3. QED
    BY <1>6, <1>8, <1>10, <2>2
<1>11. QED
  BY <1>1, <1>5, <1>9, <1>10

LEMMA AtAnArrow ==
  ASSUME NEW acts \in Heard, NEW S, NEW E, NEW M, Stream(acts, S, E),
         NEW rest, NEW text, NEW pasted, NEW i,
         At(i, 0, rest, text, pasted, acts, S, E, M),
         acts[i].type = "arrow"
  PROVE  rest[2] = "[" /\ rest[3] = "A"
<1>1. PICK u : u = acts[i]
  OBVIOUS
<1>2. PICK B : B = BytesOf(acts[i])
  OBVIOUS
<1>3. i \in 1 .. Len(acts)
  BY DEF At
<1>4. BytesAre(u, B)
  BY <1>1, <1>2, <1>3, ActHasBytes
<1>5. Len(B) = 3 /\ B[2] = "[" /\ B[3] = "A"
  BY <1>1, <1>4 DEF BytesAre
<1>6. BytesToCome(i, 0, rest, acts)
  BY NextBytes
<1>7. \A j \in 1 .. Len(B) - 0 : rest[j] = B[0 + j]
  BY <1>2, <1>6 DEF BytesToCome
<1>8. rest[2] = B[0 + 2] /\ rest[3] = B[0 + 3]
  BY <1>5, <1>7
<1>9. QED
  BY <1>5, <1>8

LEMMA ActMeans ==
  ASSUME NEW acts, NEW M, Story(acts, M), NEW i \in 1 .. Len(acts), Len(acts) \in Nat
  PROVE  /\ M[i] = Understood(M[i - 1], acts[i]) /\ M[i] \in Told /\ M[i - 1] \in Told
         /\ M[i - 1].text \in Seq(Byte)
         /\ M[i].how # "reading" => M[Len(acts)] = M[i]
<1>1. i \in 0 .. Len(acts) /\ i - 1 \in 0 .. Len(acts)
  OBVIOUS
<1>2. M[i - 1] \in Told /\ M[i] \in Told
  BY <1>1 DEF Story
<1>3. M[i - 1].text \in Seq(Byte)
  BY <1>2 DEF Told
<1>4. M[i] = Understood(M[i - 1], acts[i]) /\ (M[i].how # "reading" => M[Len(acts)] = M[i])
  BY <1>1 DEF Story
<1>5. QED
  BY <1>2, <1>3, <1>4

\* The act under way goes on when n more of its bytes were looked at, or is done with.
LEMMA GoesOn ==
  ASSUME NEW acts \in Heard, NEW S, NEW E, NEW M, Stream(acts, S, E),
         NEW rest \in Seq(Byte), NEW text, NEW pasted, NEW i, NEW k,
         At(i, k, rest, text, pasted, acts, S, E, M),
         NEW n \in Nat \ {0}, k + n < Len(BytesOf(acts[i])),
         acts[i].type = "paste" => k + n \in 6 .. 6 + Len(acts[i].text),
         NEW said, said = M[i - 1].text \o Shown(acts[i], k + n),
         NEW past, past = IF acts[i].type = "paste"
                          THEN [on |-> TRUE, start |-> Len(M[i - 1].text), open |-> TRUE]
                          ELSE PasteOf(M[i - 1])
  PROVE  At(i, k + n, SubSeq(rest, n + 1, Len(rest)), said, past, acts, S, E, M)
<1>1. i \in 1 .. Len(acts) /\ k \in 0 .. Len(BytesOf(acts[i])) - 1 /\ M[i - 1].how = "reading"
  BY DEF At
<1>2. PICK b \in Nat : b = Len(BytesOf(acts[i]))
  BY <1>1, ActHasBytes
<1>3. k \in Nat /\ n \in Nat /\ k + n < b /\ n >= 1
  BY <1>1, <1>2
<1>4. n \in 1 .. b - k /\ k + n \in 0 .. b - 1 /\ k + n > 0
  BY <1>3
<1>5. Ahead(SubSeq(rest, n + 1, Len(rest)), S, E[i - 1] + (k + n))
  BY <1>2, <1>4, MovesOn
<1>6. QED
  BY <1>1, <1>2, <1>4, <1>5 DEF At

LEMMA IsDone ==
  ASSUME NEW acts \in Heard, NEW S, NEW E, NEW M, Stream(acts, S, E),
         NEW rest \in Seq(Byte), NEW text, NEW pasted, NEW i, NEW k,
         At(i, k, rest, text, pasted, acts, S, E, M),
         NEW n \in Nat \ {0}, k + n = Len(BytesOf(acts[i])),
         M[i].how = "reading", NEW said, said = M[i].text, NEW past, past = PasteOf(M[i])
  PROVE  After(i, SubSeq(rest, n + 1, Len(rest)), said, past, acts, S, E, M)
<1>1. i \in 1 .. Len(acts) /\ k \in 0 .. Len(BytesOf(acts[i])) - 1
  BY DEF At
<1>2. PICK b \in Nat : b = Len(BytesOf(acts[i]))
  BY <1>1, ActHasBytes
<1>3. n \in 1 .. b - k
  BY <1>1, <1>2
<1>4. Ahead(SubSeq(rest, n + 1, Len(rest)), S, E[i])
  BY <1>2, <1>3, MovesOn
<1>5. PICK l \in Nat : l = Len(acts)
  BY DEF Stream
<1>6. i \in 0 .. Len(acts)
  BY <1>1, <1>5
<1>7. QED
  BY <1>4, <1>6 DEF After

\* What is in the text of an act under way.
LEMMA NothingShown ==
  ASSUME NEW acts \in Heard, NEW i \in 1 .. Len(acts), NEW k \in Nat,
         \/ k = 0
         \/ acts[i].type = "arrow" /\ k = 1
         \/ acts[i].type = "paste" /\ k = 6
         \/ acts[i].type \notin {"key", "arrow", "paste"},
         NEW t \in Seq(Byte)
  PROVE  t \o Shown(acts[i], k) = t
<1>1. PICK u : u = acts[i]
  OBVIOUS
<1>2. u.text \in Seq(Byte)
  BY <1>1, ActHasBytes
<1>3. \A m \in Int : m < 1 => SubSeq(u.text, 1, m) = <<>> /\ SubSeq(<<"[", "A">>, 1, m) = <<>>
  BY SubSeqEmpty
<1>4. Shown(u, k) = <<>>
  <2>1. CASE u.type = "key"
    BY <1>1, <1>3, <2>1 DEF Shown
  <2>2. CASE u.type = "arrow"
    <3>1. k - 1 < 1 /\ k - 1 \in Int
      BY <1>1, <2>2
    <3>2. QED
      BY <1>3, <2>2, <3>1 DEF Shown
  <2>3. CASE u.type = "paste"
    <3>1. k - 6 < 1 /\ k - 6 \in Int
      BY <1>1, <2>3
    <3>2. QED
      BY <1>3, <2>3, <3>1 DEF Shown
  <2>4. CASE u.type \notin {"key", "arrow", "paste"}
    BY <2>4 DEF Shown
  <2>5. QED
    BY <2>1, <2>2, <2>3, <2>4
<1>5. t \o <<>> = t
  OBVIOUS
<1>6. QED
  BY <1>1, <1>4, <1>5

LEMMA NothingShownYet ==
  ASSUME NEW acts \in Heard, NEW i \in 1 .. Len(acts), NEW t \in Seq(Byte)
  PROVE  t \o Shown(acts[i], 0) = t
<1>1. PICK k \in Nat : k = 0
  OBVIOUS
<1>2. t \o Shown(acts[i], k) = t
  BY <1>1, NothingShown
<1>3. QED
  BY <1>1, <1>2

Glued(c, a, b) == c = a \o b

LEMMA Regrouped ==
  ASSUME NEW a \in Seq(Byte), NEW b \in Seq(Byte), NEW c \in Seq(Byte),
         NEW ab, NEW bc, NEW x, Glued(ab, a, b), Glued(bc, b, c), Glued(x, ab, c)
  PROVE  Glued(x, a, bc)
<1>1. PICK k \in Nat : k = Len(a)
  OBVIOUS
<1>2. PICK l \in Nat : l = Len(b)
  OBVIOUS
<1>3. PICK m \in Nat : m = Len(c)
  OBVIOUS
<1>4. ab \in Seq(Byte) /\ Joins(ab, a, b)
  BY Joined DEF Glued
<1>5. bc \in Seq(Byte) /\ Joins(bc, b, c)
  BY Joined DEF Glued
<1>6. x = ab \o c
  BY DEF Glued
<1>7. PICK y : y = a \o bc
  OBVIOUS
<1>8. x \in Seq(Byte) /\ Joins(x, ab, c)
  BY <1>4, <1>6, Joined
<1>9. y \in Seq(Byte) /\ Joins(y, a, bc)
  BY <1>5, <1>7, Joined
<1>10. Len(ab) = k + l /\ Len(bc) = l + m /\ Len(x) = (k + l) + m /\ Len(y) = k + (l + m)
  BY <1>1, <1>2, <1>3, <1>4, <1>5, <1>8, <1>9 DEF Joins
<1>11. /\ \A j \in 1 .. k : ab[j] = a[j] /\ y[j] = a[j]
       /\ \A j \in 1 .. l : ab[k + j] = b[j] /\ bc[j] = b[j]
       /\ \A j \in 1 .. m : bc[l + j] = c[j] /\ x[(k + l) + j] = c[j]
       /\ \A j \in 1 .. k + l : x[j] = ab[j]
       /\ \A j \in 1 .. l + m : y[k + j] = bc[j]
  BY <1>1, <1>2, <1>3, <1>4, <1>5, <1>8, <1>9, <1>10 DEF Joins
<1>12. ASSUME NEW i \in 1 .. (k + l) + m PROVE x[i] = y[i]
  <2>1. CASE i <= k
    <3>1. i \in 1 .. k /\ i \in 1 .. k + l
      BY <2>1
    <3>2. QED
      BY <1>11, <3>1
  <2>2. CASE i > k /\ i <= k + l
    <3>1. PICK j \in 1 .. l : i = k + j
      <4>1. i - k \in 1 .. l /\ i = k + (i - k)
        BY <2>2
      <4>2. QED
        BY <4>1
    <3>2. k + j \in 1 .. k + l /\ j \in 1 .. l + m
      BY <3>1
    <3>3. x[i] = b[j] /\ y[i] = b[j]
      BY <1>11, <3>1, <3>2
    <3>4. QED
      BY <3>3
  <2>3. CASE i > k + l
    <3>1. PICK j \in 1 .. m : i = (k + l) + j
      <4>1. i - (k + l) \in 1 .. m /\ i = (k + l) + (i - (k + l))
        BY <2>3
      <4>2. QED
        BY <4>1
    <3>2. l + j \in 1 .. l + m /\ i = k + (l + j)
      BY <3>1
    <3>3. x[i] = c[j] /\ y[i] = c[j]
      BY <1>11, <3>1, <3>2
    <3>4. QED
      BY <3>3
  <2>4. QED
    BY <2>1, <2>2, <2>3
<1>13. Len(x) = Len(y) /\ \A i \in 1 .. Len(x) : x[i] = y[i]
  <2>1. (k + l) + m = k + (l + m)
    OBVIOUS
  <2>2. Len(x) = Len(y)
    BY <1>10, <2>1
  <2>3. QED
    BY <1>10, <1>12, <2>2
<1>14. x = y
  BY <1>8, <1>9, <1>13, SeqEqual
<1>15. QED
  BY <1>7, <1>14 DEF Glued

LEMMA NothingShownAt ==
  ASSUME NEW acts \in Heard, NEW i \in 1 .. Len(acts), NEW t \in Seq(Byte)
  PROVE  /\ acts[i].type = "arrow" => t \o Shown(acts[i], 0 + 1) = t
         /\ acts[i].type = "paste" => t \o Shown(acts[i], 6) = t
<1>1. PICK one \in Nat : one = 0 + 1 /\ one = 1
  OBVIOUS
<1>2. PICK six \in Nat : six = 6
  OBVIOUS
<1>3. ASSUME acts[i].type = "arrow" PROVE t \o Shown(acts[i], one) = t
  BY <1>1, <1>3, NothingShown
<1>4. ASSUME acts[i].type = "paste" PROVE t \o Shown(acts[i], six) = t
  BY <1>2, <1>4, NothingShown
<1>5. QED
  BY <1>1, <1>2, <1>3, <1>4

\* One more character of a text.
LEMMA OneMore ==
  ASSUME NEW a \in Seq(Byte), NEW s \in Seq(Byte), NEW n \in Nat, n < Len(s)
  PROVE  Append(a \o SubSeq(s, 1, n), s[n + 1]) = a \o SubSeq(s, 1, n + 1)
<1>1. PICK b : b = SubSeq(s, 1, n)
  OBVIOUS
<1>2. n + 1 \in 1 .. Len(s)
  OBVIOUS
<1>3. SubSeq(s, 1, n + 1) = SubSeq(s, 1, (n + 1) - 1) \o <<s[n + 1]>>
  BY <1>2, SubSeqRecursiveSecond
<1>4. SubSeq(s, 1, n + 1) = b \o <<s[n + 1]>>
  BY <1>1, <1>3
<1>5. b \in Seq(Byte) /\ s[n + 1] \in Byte
  <2>1. \A j \in 1 .. n : s[j] \in Byte
    BY <1>2
  <2>2. b \in Seq(Byte)
    BY <1>1, <2>1, SubSeqProperties
  <2>3. QED
    BY <1>2, <2>2
<1>6. PICK c \in Byte : c = s[n + 1]
  BY <1>5
<1>7. Append(a \o b, c) = a \o (b \o <<c>>)
  <2>1. a \o b \in Seq(Byte) /\ <<c>> \in Seq(Byte)
    BY <1>5
  <2>2. PICK d \in Seq(Byte) : d = <<c>>
    BY <2>1
  <2>3. PICK ab : Glued(ab, a, b)
    BY DEF Glued
  <2>4. PICK bd : Glued(bd, b, d)
    BY DEF Glued
  <2>5. PICK x : Glued(x, ab, d)
    BY DEF Glued
  <2>6. Glued(x, a, bd)
    BY <1>5, <2>2, <2>3, <2>4, <2>5, Regrouped
  <2>7. x = Append(ab, c)
    BY <2>1, <2>2, <2>3, <2>5, AppendIsConcat DEF Glued
  <2>8. QED
    BY <2>2, <2>3, <2>4, <2>6, <2>7 DEF Glued
<1>8. QED
  BY <1>1, <1>4, <1>6, <1>7

\* An escape that was typed is done with when it was looked at.
LEMMA TypedEscape ==
  ASSUME NEW acts \in Heard, NEW S, NEW E, NEW M, Stream(acts, S, E), Story(acts, M),
         NEW rest \in Seq(Byte), NEW text, NEW pasted, NEW i,
         At(i, 0, rest, text, pasted, acts, S, E, M), acts[i].type = "escape"
  PROVE  After(i, SubSeq(rest, 1 + 1, Len(rest)), text, pasted, acts, S, E, M)
<1>1. i \in 1 .. Len(acts) /\ M[i - 1].how = "reading"
      /\ text = M[i - 1].text \o Shown(acts[i], 0) /\ pasted = PasteOf(M[i - 1])
  BY DEF At
<1>2. Len(acts) \in Nat
  BY DEF Stream
<1>3. M[i - 1].text \in Seq(Byte) /\ M[i] = Understood(M[i - 1], acts[i])
  BY <1>1, <1>2, ActMeans
<1>4. M[i] = M[i - 1]
  BY <1>1, <1>3 DEF Understood
<1>5. text = M[i].text
  BY <1>1, <1>3, <1>4, NothingShownYet
<1>6. 0 + 1 = Len(BytesOf(acts[i])) /\ 1 \in Nat \ {0}
  <2>1. BytesAre(acts[i], BytesOf(acts[i]))
    BY <1>1, ActHasBytes
  <2>2. QED
    BY <2>1 DEF BytesAre
<1>7. QED
  BY <1>1, <1>4, <1>5, <1>6, IsDone

LEMMA EscapeIsNoMarker ==
  ASSUME NEW acts \in Heard, NEW S, NEW E, NEW M, Stream(acts, S, E), Story(acts, M),
         NEW rest \in Seq(Byte), NEW text, NEW pasted, NEW i,
         At(i, 0, rest, text, pasted, acts, S, E, M), acts[i].type = "escape",
         Len(rest) >= 2
  PROVE  rest[2] # "["
<1>1. PICK tail : tail = SubSeq(rest, 1 + 1, Len(rest))
  OBVIOUS
<1>2. After(i, tail, text, pasted, acts, S, E, M)
  BY <1>1, TypedEscape
<1>3. tail \in Seq(Byte) /\ Len(tail) # 0 /\ tail[1] = rest[2]
  <2>1. PICK l \in Nat : l = Len(rest)
    OBVIOUS
  <2>2. \A j \in 2 .. l : rest[j] \in Byte
    BY <2>1
  <2>3. /\ tail \in Seq(Byte) /\ Len(tail) = l - 2 + 1
        /\ \A j \in 1 .. l - 2 + 1 : tail[j] = rest[2 + j - 1]
    BY <1>1, <2>1, <2>2, SubSeqProperties
  <2>4. 1 \in 1 .. l - 2 + 1 /\ 2 + 1 - 1 = 2
    BY <2>1
  <2>5. tail[1] = rest[2 + 1 - 1]
    BY <2>3, <2>4
  <2>6. QED
    BY <2>1, <2>3, <2>4, <2>5
<1>4. At(i + 1, 0, tail, text, pasted, acts, S, E, M)
  BY <1>2, <1>3, NextAct
<1>5. Facing(acts[i + 1], 0, tail[1]) /\ i + 1 \in 1 .. Len(acts)
  BY <1>4, LooksAt
<1>6. PICK u : u = acts[i + 1]
  OBVIOUS
<1>7. CASE u.type = "key"
  <2>1. i \in 1 .. Len(acts)
    BY DEF At
  <2>2. i + 1 > 1 /\ acts[(i + 1) - 1].type = "escape"
    BY <2>1
  <2>3. u.text[1] # "["
    BY <1>5, <1>6, <1>7, <2>2, KeysAreKeys
  <2>4. tail[1] = u.text[0 + 1]
    BY <1>5, <1>6, <1>7 DEF Facing
  <2>5. QED
    BY <1>3, <2>3, <2>4
<1>8. CASE u.type \in {"arrow", "paste"}
  <2>1. tail[1] = "escape"
    BY <1>5, <1>6, <1>8 DEF Facing
  <2>2. QED
    BY <1>3, <2>1
<1>9. CASE u.type \notin {"key", "arrow", "paste"}
  <2>1. tail[1] = u.type
    BY <1>5, <1>6, <1>9 DEF Facing
  <2>2. u \in Acts
    BY <1>5, <1>6, ActHasBytes
  <2>3. u.type # "["
    BY <2>2 DEF Acts
  <2>4. QED
    BY <1>3, <2>1, <2>3
<1>10. QED
  BY <1>7, <1>8, <1>9

\* Of what is to be looked at, m is next.
Next6(m, rest) == Len(rest) >= 6 /\ \A j \in 1 .. 6 : rest[j] = m[j]

\* Where a marker is next, an act is under way that it belongs to.
LEMMA AMarker ==
  ASSUME NEW acts \in Heard, NEW S, NEW E, NEW M, Stream(acts, S, E), Story(acts, M),
         NEW rest \in Seq(Byte), NEW text, NEW pasted, NEW i, NEW k,
         At(i, k, rest, text, pasted, acts, S, E, M),
         NEW m \in {PasteBegins, PasteEnds}, Next6(m, rest)
  PROVE  /\ acts[i].type = "paste" /\ i \in 1 .. Len(acts)
         /\ m = PasteBegins => k = 0
         /\ m = PasteEnds => k = 6 + Len(acts[i].text)
<1>1. /\ rest[1] = "escape" /\ rest[2] = "[" /\ rest[3] = "2" /\ Len(rest) >= 6
      /\ m = PasteBegins => rest[5] = "0"
      /\ m = PasteEnds => rest[5] = "1"
  <2>1. m[1] = "escape" /\ m[2] = "[" /\ m[3] = "2"
    BY Markers
  <2>2. (m = PasteBegins => m[5] = "0") /\ (m = PasteEnds => m[5] = "1")
    BY Markers
  <2>3. QED
    BY <2>1, <2>2 DEF Next6
<1>2. Facing(acts[i], k, rest[1]) /\ k \in Nat /\ i \in 1 .. Len(acts)
  BY LooksAt
<1>3. \/ acts[i].type \in {"arrow", "escape", "paste"} /\ k = 0
      \/ acts[i].type = "paste" /\ k = 6 + Len(acts[i].text)
  BY <1>1, <1>2, AnEscape
<1>4. ~(acts[i].type = "arrow" /\ k = 0)
  <2>1. SUFFICES ASSUME acts[i].type = "arrow", k = 0 PROVE FALSE
    OBVIOUS
  <2>2. At(i, 0, rest, text, pasted, acts, S, E, M)
    BY <2>1
  <2>3. rest[3] = "A"
    BY <2>1, <2>2, AtAnArrow
  <2>4. QED
    BY <1>1, <2>3
<1>5. ~(acts[i].type = "escape" /\ k = 0)
  <2>1. SUFFICES ASSUME acts[i].type = "escape", k = 0 PROVE FALSE
    OBVIOUS
  <2>2. At(i, 0, rest, text, pasted, acts, S, E, M)
    BY <2>1
  <2>3. Len(rest) >= 2
    BY <1>1
  <2>4. rest[2] # "["
    BY <2>1, <2>2, <2>3, EscapeIsNoMarker
  <2>5. QED
    BY <1>1, <2>4
<1>6. acts[i].type = "paste" /\ (k = 0 \/ k = 6 + Len(acts[i].text))
  BY <1>3, <1>4, <1>5
<1>7. ASSUME m = PasteBegins PROVE k = 0
  <2>1. SUFFICES ASSUME k = 6 + Len(acts[i].text) PROVE FALSE
    BY <1>6
  <2>2. \A j \in 1 .. 6 : rest[j] = PasteEnds[j]
    BY <1>6, <2>1, AtAMarker
  <2>3. rest[5] = "1"
    BY <2>2, Markers
  <2>4. QED
    BY <1>1, <1>7, <2>3
<1>8. ASSUME m = PasteEnds PROVE k = 6 + Len(acts[i].text)
  <2>1. SUFFICES ASSUME k = 0 PROVE FALSE
    BY <1>6
  <2>2. \A j \in 1 .. 6 : rest[j] = PasteBegins[j]
    BY <1>6, <2>1, AtAMarker
  <2>3. rest[5] = "0"
    BY <2>2, Markers
  <2>4. QED
    BY <1>1, <1>8, <2>3
<1>9. QED
  BY <1>2, <1>6, <1>7, <1>8

LEMMA PasteHasBegun ==
  ASSUME NEW acts \in Heard, NEW S, NEW E, NEW M, Stream(acts, S, E), Story(acts, M),
         NEW rest \in Seq(Byte), NEW text, NEW pasted,
         Somewhere(rest, text, pasted, acts, S, E, M), Next6(PasteBegins, rest)
  PROVE  Somewhere(SubSeq(rest, 6 + 1, Len(rest)), text,
                   [on |-> TRUE, start |-> Len(text), open |-> TRUE], acts, S, E, M)
<1>1. Len(rest) # 0
  BY DEF Next6
<1>2. PICK i, k : At(i, k, rest, text, pasted, acts, S, E, M)
  BY <1>1, SomewhereIsAt
<1>3. acts[i].type = "paste" /\ k = 0 /\ i \in 1 .. Len(acts)
  BY <1>2, AMarker
<1>4. text = M[i - 1].text \o Shown(acts[i], k)
  BY <1>2 DEF At
<1>5. M[i - 1].text \in Seq(Byte)
  <2>1. Len(acts) \in Nat
    BY DEF Stream
  <2>2. QED
    BY <1>3, <2>1, ActMeans
<1>6. text = M[i - 1].text /\ text = M[i - 1].text \o Shown(acts[i], 6)
  <2>1. M[i - 1].text \o Shown(acts[i], 0) = M[i - 1].text
    BY <1>3, <1>5, NothingShownYet
  <2>2. M[i - 1].text \o Shown(acts[i], 6) = M[i - 1].text
    BY <1>3, <1>5, NothingShownAt
  <2>3. QED
    BY <1>3, <1>4, <2>1, <2>2
<1>7. Len(acts[i].text) \in Nat /\ Len(BytesOf(acts[i])) = Len(acts[i].text) + 12
  BY <1>3, ActHasBytes DEF BytesAre
<1>8. k + 6 = 6 /\ 6 \in Nat \ {0} /\ k + 6 < Len(BytesOf(acts[i]))
      /\ k + 6 \in 6 .. 6 + Len(acts[i].text)
  BY <1>3, <1>7
<1>9. PICK past : past = [on |-> TRUE, start |-> Len(text), open |-> TRUE]
  OBVIOUS
<1>10. At(i, k + 6, SubSeq(rest, 6 + 1, Len(rest)), text, past, acts, S, E, M)
  BY <1>2, <1>3, <1>6, <1>8, <1>9, GoesOn
<1>11. QED
  BY <1>9, <1>10 DEF Somewhere

UnderWay(s) == [on |-> TRUE, start |-> Len(s.text), open |-> TRUE]
PasteOver(p) == [p EXCEPT !.on = FALSE]

LEMMA NoLongerOn ==
  ASSUME NEW s, NEW t, t.from = Len(s.text), t.whole = TRUE
  PROVE  PasteOver(UnderWay(s)) = PasteOf(t)
<1>1. PICK on : on = TRUE
  OBVIOUS
<1>2. PICK off : off = FALSE
  OBVIOUS
<1>3. PICK start : start = Len(s.text)
  OBVIOUS
<1>4. PICK p : p = [on |-> on, start |-> start, open |-> on]
  OBVIOUS
<1>5. PICK q : q = [on |-> off, start |-> start, open |-> on]
  OBVIOUS
<1>6. [p EXCEPT !.on = off] = q
  BY <1>4, <1>5
<1>7. UnderWay(s) = p
  BY <1>1, <1>3, <1>4 DEF UnderWay
<1>8. PasteOf(t) = q
  BY <1>1, <1>2, <1>3, <1>5 DEF PasteOf
<1>9. PasteOver(p) = q
  BY <1>2, <1>6 DEF PasteOver
<1>10. QED
  BY <1>7, <1>8, <1>9

LEMMA PasteHasEnded ==
  ASSUME NEW acts \in Heard, NEW S, NEW E, NEW M, Stream(acts, S, E), Story(acts, M),
         NEW rest \in Seq(Byte), NEW text, NEW pasted,
         Somewhere(rest, text, pasted, acts, S, E, M), Next6(PasteEnds, rest)
  PROVE  Somewhere(SubSeq(rest, 6 + 1, Len(rest)), text,
                   PasteOver(pasted), acts, S, E, M)
<1>1. Len(rest) # 0
  BY DEF Next6
<1>2. PICK i, k : At(i, k, rest, text, pasted, acts, S, E, M)
  BY <1>1, SomewhereIsAt
<1>3. acts[i].type = "paste" /\ k = 6 + Len(acts[i].text) /\ i \in 1 .. Len(acts)
  BY <1>2, AMarker
<1>4. PICK u : u = acts[i]
  OBVIOUS
<1>5. PICK l \in Nat : l = Len(u.text)
  BY <1>3, <1>4, ActHasBytes
<1>6. /\ Len(BytesOf(u)) = l + 12 /\ u.text \in Seq(Byte)
  BY <1>3, <1>4, <1>5, ActHasBytes DEF BytesAre
<1>7. /\ text = M[i - 1].text \o Shown(u, k) /\ M[i - 1].how = "reading"
      /\ pasted = [on |-> TRUE, start |-> Len(M[i - 1].text), open |-> TRUE]
  <2>1. k > 0
    BY <1>3, <1>4, <1>5
  <2>2. QED
    BY <1>2, <1>3, <1>4, <2>1 DEF At
<1>8. M[i] = Understood(M[i - 1], u) /\ M[i - 1] \in Told /\ M[i - 1].text \in Seq(Byte)
  <2>1. Len(acts) \in Nat
    BY DEF Stream
  <2>2. QED
    BY <1>3, <1>4, <2>1, ActMeans
<1>9. M[i] = [M[i - 1] EXCEPT !.text = M[i - 1].text \o u.text,
                              !.from = Len(M[i - 1].text), !.whole = TRUE]
  BY <1>3, <1>4, <1>7, <1>8 DEF Understood
<1>10. /\ M[i].text = M[i - 1].text \o u.text /\ M[i].from = Len(M[i - 1].text)
       /\ M[i].whole = TRUE /\ M[i].how = "reading"
  <2>1. PICK t : t = M[i - 1].text \o u.text
    OBVIOUS
  <2>2. PICK f : f = Len(M[i - 1].text)
    OBVIOUS
  <2>3. M[i] = [M[i - 1] EXCEPT !.text = t, !.from = f, !.whole = TRUE]
    BY <1>9, <2>1, <2>2
  <2>4. M[i].text = t /\ M[i].from = f /\ M[i].whole = TRUE /\ M[i].how = M[i - 1].how
    BY <1>8, <2>3 DEF Told
  <2>5. QED
    BY <1>7, <2>1, <2>2, <2>4
<1>11. text = M[i].text
  <2>1. Shown(u, k) = SubSeq(u.text, 1, k - 6)
    BY <1>3, <1>4 DEF Shown
  <2>2. k - 6 = Len(u.text)
    BY <1>3, <1>4, <1>5
  <2>3. SubSeq(u.text, 1, Len(u.text)) = u.text
    BY <1>6, SubSeqFull
  <2>4. QED
    BY <1>7, <1>10, <2>1, <2>2, <2>3
<1>12. PasteOver(pasted) = PasteOf(M[i])
  <2>1. pasted = UnderWay(M[i - 1])
    BY <1>7 DEF UnderWay
  <2>2. QED
    BY <1>10, <2>1, NoLongerOn
<1>13. k + 6 = Len(BytesOf(acts[i])) /\ 6 \in Nat \ {0}
  BY <1>3, <1>4, <1>5, <1>6
<1>14. PICK past : past = PasteOver(pasted)
  OBVIOUS
<1>15. After(i, SubSeq(rest, 6 + 1, Len(rest)), text, past, acts, S, E, M)
  BY <1>2, <1>10, <1>11, <1>12, <1>13, <1>14, IsDone
<1>16. QED
  BY <1>14, <1>15 DEF Somewhere

LEMMA EscapeIsDropped ==
  ASSUME NEW acts \in Heard, NEW S, NEW E, NEW M, Stream(acts, S, E), Story(acts, M),
         NEW rest \in Seq(Byte), NEW text, NEW pasted,
         Somewhere(rest, text, pasted, acts, S, E, M), Len(rest) # 0, rest[1] = "escape",
         ~Next6(PasteBegins, rest), ~Next6(PasteEnds, rest)
  PROVE  Somewhere(SubSeq(rest, 1 + 1, Len(rest)), text, pasted, acts, S, E, M)
<1>2. PICK i, k : At(i, k, rest, text, pasted, acts, S, E, M)
  BY SomewhereIsAt
<1>3. Facing(acts[i], k, "escape") /\ k \in Nat /\ i \in 1 .. Len(acts)
  BY <1>2, LooksAt
<1>4. \/ acts[i].type \in {"arrow", "escape", "paste"} /\ k = 0
      \/ acts[i].type = "paste" /\ k = 6 + Len(acts[i].text)
  BY <1>3, AnEscape
<1>5. acts[i].type # "paste"
  BY <1>2, <1>4, AtAMarker DEF Next6
<1>6. k = 0 /\ At(i, 0, rest, text, pasted, acts, S, E, M)
  BY <1>2, <1>4, <1>5
<1>7. CASE acts[i].type = "escape"
  <2>1. After(i, SubSeq(rest, 1 + 1, Len(rest)), text, pasted, acts, S, E, M)
    BY <1>6, <1>7, TypedEscape
  <2>2. QED
    BY <2>1 DEF Somewhere
<1>8. CASE acts[i].type = "arrow"
  <2>1. text = M[i - 1].text \o Shown(acts[i], 0) /\ pasted = PasteOf(M[i - 1])
    BY <1>6, <1>8 DEF At
  <2>2. M[i - 1].text \in Seq(Byte)
    <3>1. Len(acts) \in Nat
      BY DEF Stream
    <3>2. QED
      BY <1>3, <3>1, ActMeans
  <2>3. text = M[i - 1].text /\ text = M[i - 1].text \o Shown(acts[i], 0 + 1)
    <3>1. M[i - 1].text \o Shown(acts[i], 0) = M[i - 1].text
      BY <1>3, <2>2, NothingShownYet
    <3>2. M[i - 1].text \o Shown(acts[i], 0 + 1) = M[i - 1].text
      BY <1>3, <1>8, <2>2, NothingShownAt
    <3>3. QED
      BY <2>1, <3>1, <3>2
  <2>4. Len(BytesOf(acts[i])) = 3
    <3>1. BytesAre(acts[i], BytesOf(acts[i]))
      BY <1>3, ActHasBytes
    <3>2. QED
      BY <1>8, <3>1 DEF BytesAre
  <2>5. 1 \in Nat \ {0} /\ 0 + 1 < Len(BytesOf(acts[i]))
    BY <2>4
  <2>6. At(i, 0 + 1, SubSeq(rest, 1 + 1, Len(rest)), text, pasted, acts, S, E, M)
    BY <1>6, <1>8, <2>1, <2>3, <2>5, GoesOn
  <2>7. QED
    BY <2>6 DEF Somewhere
<1>9. QED
  BY <1>4, <1>5, <1>7, <1>8

\* Where a control is next that is not in a paste, it is an act.
LEMMA AControl ==
  ASSUME NEW acts \in Heard, NEW S, NEW E, NEW M, Stream(acts, S, E), Story(acts, M),
         NEW rest \in Seq(Byte), NEW text, NEW pasted, NEW i, NEW k,
         At(i, k, rest, text, pasted, acts, S, E, M),
         rest[1] \in {"interrupt", "end", "enter", "backspace"},
         rest[1] = "enter" => ~pasted.on
  PROVE  /\ acts[i].type = rest[1] /\ k = 0 /\ i \in 1 .. Len(acts)
         /\ M[i - 1].how = "reading" /\ M[i - 1] \in Told
         /\ text = M[i - 1].text /\ pasted = PasteOf(M[i - 1])
         /\ M[i] = Understood(M[i - 1], acts[i])
         /\ M[i].how # "reading" => M[Len(acts)] = M[i]
         /\ Len(BytesOf(acts[i])) = 1
<1>1. Facing(acts[i], k, rest[1]) /\ k \in Nat /\ i \in 1 .. Len(acts)
  BY LooksAt
<1>2. PICK u : u = acts[i]
  OBVIOUS
<1>3. u \in Acts /\ Len(u.text) \in Nat /\ BytesAre(u, BytesOf(u))
  BY <1>1, <1>2, ActHasBytes
<1>4. u.type # "key"
  <2>1. SUFFICES ASSUME u.type = "key" PROVE FALSE
    OBVIOUS
  <2>2. k < Len(u.text) /\ rest[1] = u.text[k + 1]
    BY <1>1, <1>2, <2>1 DEF Facing
  <2>3. k + 1 \in 1 .. Len(u.text)
    BY <1>1, <1>3, <2>2
  <2>4. u.text[k + 1] \notin {"escape", "end", "interrupt", "backspace"}
    BY <1>1, <1>2, <2>3, Plain
  <2>5. u.text[k + 1] # "enter"
    BY <1>1, <1>2, <2>1, <2>3, KeysAreKeys
  <2>6. QED
    BY <2>2, <2>4, <2>5
<1>5. u.type # "arrow"
  BY <1>1, <1>2 DEF Facing
<1>6. u.type # "paste"
  <2>1. SUFFICES ASSUME u.type = "paste" PROVE FALSE
    OBVIOUS
  <2>2. k \in 6 .. 5 + Len(u.text) /\ rest[1] = u.text[k - 5]
    BY <1>1, <1>2, <2>1 DEF Facing
  <2>3. k - 5 \in 1 .. Len(u.text)
    BY <1>1, <1>3, <2>2
  <2>4. u.text[k - 5] \notin {"escape", "end", "interrupt", "backspace"}
    BY <1>1, <1>2, <2>3, Plain
  <2>5. rest[1] = "enter"
    BY <2>2, <2>4
  <2>6. k > 0
    BY <1>3, <2>2
  <2>7. pasted = [on |-> TRUE, start |-> Len(M[i - 1].text), open |-> TRUE]
    BY <1>2, <2>1, <2>6 DEF At
  <2>8. pasted.on
    BY <2>7
  <2>9. QED
    BY <2>5, <2>8
<1>7. u.type = rest[1] /\ k = 0
  BY <1>1, <1>2, <1>4, <1>5, <1>6 DEF Facing
<1>8. /\ M[i - 1].how = "reading" /\ text = M[i - 1].text \o Shown(acts[i], 0)
      /\ pasted = PasteOf(M[i - 1])
  BY <1>2, <1>6, <1>7 DEF At
<1>9. Len(acts) \in Nat
  BY DEF Stream
<1>10. /\ M[i] = Understood(M[i - 1], acts[i]) /\ M[i - 1] \in Told
       /\ M[i - 1].text \in Seq(Byte) /\ (M[i].how # "reading" => M[Len(acts)] = M[i])
  BY <1>1, <1>9, ActMeans
<1>11. text = M[i - 1].text
  BY <1>1, <1>8, <1>10, NothingShownYet
<1>12. Len(BytesOf(u)) = 1
  BY <1>3, <1>4, <1>5, <1>6 DEF BytesAre
<1>13. QED
  BY <1>1, <1>2, <1>7, <1>8, <1>10, <1>11, <1>12

LEMMA EndsAsMeant ==
  ASSUME NEW acts \in Heard, NEW S, NEW E, NEW M, Stream(acts, S, E), Story(acts, M),
         NEW rest \in Seq(Byte), NEW text, NEW pasted,
         Somewhere(rest, text, pasted, acts, S, E, M), Len(rest) # 0,
         rest[1] \in {"interrupt", "end", "enter"}, rest[1] = "enter" => ~pasted.on
  PROVE  /\ M[Len(acts)].text = text
         /\ rest[1] = "interrupt" => M[Len(acts)].how = "interrupted"
         /\ rest[1] = "enter" => M[Len(acts)].how = "submitted"
         /\ rest[1] = "end" => M[Len(acts)].how = IF text = <<>> THEN "ended" ELSE "submitted"
<1>1. PICK i, k : At(i, k, rest, text, pasted, acts, S, E, M)
  BY SomewhereIsAt
<1>2. /\ acts[i].type = rest[1] /\ M[i - 1].how = "reading" /\ M[i - 1] \in Told
      /\ text = M[i - 1].text
      /\ M[i] = Understood(M[i - 1], acts[i])
      /\ M[i].how # "reading" => M[Len(acts)] = M[i]
  BY <1>1, AControl
<1>3. PICK s \in Told : s = M[i - 1]
  BY <1>2
<1>4. PICK h : h = IF rest[1] = "interrupt" THEN "interrupted"
                   ELSE IF rest[1] = "enter" \/ text # <<>> THEN "submitted" ELSE "ended"
  OBVIOUS
<1>5. M[i] = [s EXCEPT !.how = h]
  <2>1. CASE rest[1] = "interrupt"
    BY <1>2, <1>3, <1>4, <2>1 DEF Understood
  <2>2. CASE rest[1] = "enter"
    BY <1>2, <1>3, <1>4, <2>2 DEF Understood
  <2>3. CASE rest[1] = "end"
    BY <1>2, <1>3, <1>4, <2>3 DEF Understood
  <2>4. QED
    BY <2>1, <2>2, <2>3
<1>6. M[i].how = h /\ M[i].text = s.text
  BY <1>3, <1>5 DEF Told
<1>7. M[Len(acts)] = M[i]
  BY <1>2, <1>4, <1>6
<1>8. QED
  BY <1>2, <1>3, <1>4, <1>6, <1>7

\* What Erase does to the text and to the paste.
Erases(text, pasted, said, past) ==
    IF pasted.open /\ Len(text) > pasted.start
    THEN said = SubSeq(text, 1, pasted.start) /\ past = [pasted EXCEPT !.open = FALSE]
    ELSE said = SubSeq(text, 1, Len(text) - 1) /\ past = pasted

Shut(p) == [p EXCEPT !.open = FALSE]

LEMMA NoLongerWhole ==
  ASSUME NEW s, NEW t, t.from = s.from, t.whole = FALSE
  PROVE  Shut(PasteOf(s)) = PasteOf(t)
<1>1. PICK off : off = FALSE
  OBVIOUS
<1>2. PICK start : start = s.from
  OBVIOUS
<1>3. PICK open : open = s.whole
  OBVIOUS
<1>4. PICK p : p = [on |-> off, start |-> start, open |-> open]
  OBVIOUS
<1>5. PICK q : q = [on |-> off, start |-> start, open |-> off]
  OBVIOUS
<1>6. [p EXCEPT !.open = off] = q
  BY <1>4, <1>5
<1>7. PasteOf(s) = p
  BY <1>1, <1>2, <1>3, <1>4 DEF PasteOf
<1>8. PasteOf(t) = q
  BY <1>1, <1>2, <1>5 DEF PasteOf
<1>9. Shut(p) = q
  BY <1>1, <1>6 DEF Shut
<1>10. QED
  BY <1>7, <1>8, <1>9

LEMMA ErasesAsMeant ==
  ASSUME NEW acts \in Heard, NEW S, NEW E, NEW M, Stream(acts, S, E), Story(acts, M),
         NEW rest \in Seq(Byte), NEW text, NEW pasted,
         Somewhere(rest, text, pasted, acts, S, E, M), Len(rest) # 0,
         rest[1] = "backspace", NEW said, NEW past, Erases(text, pasted, said, past)
  PROVE  Somewhere(SubSeq(rest, 1 + 1, Len(rest)), said, past, acts, S, E, M)
<1>1. PICK i, k : At(i, k, rest, text, pasted, acts, S, E, M)
  BY SomewhereIsAt
<1>2. /\ acts[i].type = "backspace" /\ k = 0 /\ i \in 1 .. Len(acts)
      /\ M[i - 1].how = "reading" /\ M[i - 1] \in Told
      /\ text = M[i - 1].text /\ pasted = PasteOf(M[i - 1])
      /\ M[i] = Understood(M[i - 1], acts[i])
      /\ Len(BytesOf(acts[i])) = 1
  <2>1. /\ rest[1] \in {"interrupt", "end", "enter", "backspace"}
        /\ rest[1] = "enter" => ~pasted.on
    OBVIOUS
  <2>2. /\ acts[i].type = rest[1] /\ k = 0 /\ i \in 1 .. Len(acts)
        /\ M[i - 1].how = "reading" /\ M[i - 1] \in Told
        /\ text = M[i - 1].text /\ pasted = PasteOf(M[i - 1])
        /\ M[i] = Understood(M[i - 1], acts[i])
        /\ M[i].how # "reading" => M[Len(acts)] = M[i]
        /\ Len(BytesOf(acts[i])) = 1
    BY <1>1, <2>1, AControl
  <2>3. QED
    BY <2>2
<1>3. PICK s \in Told : s = M[i - 1]
  BY <1>2
<1>4. pasted.open = s.whole /\ pasted.start = s.from
  BY <1>2, <1>3 DEF PasteOf
<1>5. M[i].how = "reading" /\ said = M[i].text /\ past = PasteOf(M[i])
  <2>1. CASE s.whole /\ Len(s.text) > s.from
    <3>1. PICK t : t = SubSeq(s.text, 1, s.from)
      OBVIOUS
    <3>2. M[i] = [s EXCEPT !.text = t, !.whole = FALSE]
      BY <1>2, <1>3, <2>1, <3>1 DEF Understood
    <3>3. M[i].text = t /\ M[i].from = s.from /\ M[i].whole = FALSE /\ M[i].how = s.how
      BY <3>2 DEF Told
    <3>4. said = t /\ past = Shut(pasted)
      BY <1>2, <1>3, <1>4, <2>1, <3>1 DEF Erases, Shut
    <3>5. past = PasteOf(M[i])
      BY <1>2, <1>3, <3>3, <3>4, NoLongerWhole
    <3>6. QED
      BY <1>2, <1>3, <3>3, <3>4, <3>5
  <2>2. CASE ~(s.whole /\ Len(s.text) > s.from)
    <3>1. PICK t : t = SubSeq(s.text, 1, Len(s.text) - 1)
      OBVIOUS
    <3>2. M[i] = [s EXCEPT !.text = t]
      BY <1>2, <1>3, <2>2, <3>1 DEF Understood
    <3>3. M[i].text = t /\ M[i].from = s.from /\ M[i].whole = s.whole /\ M[i].how = s.how
      BY <3>2 DEF Told
    <3>4. said = t /\ past = pasted
      BY <1>2, <1>3, <1>4, <2>2, <3>1 DEF Erases
    <3>5. past = PasteOf(M[i])
      BY <1>2, <1>3, <3>3, <3>4 DEF PasteOf
    <3>6. QED
      BY <1>2, <1>3, <3>3, <3>4, <3>5
  <2>3. QED
    BY <2>1, <2>2
<1>6. k + 1 = Len(BytesOf(acts[i])) /\ 1 \in Nat \ {0}
  BY <1>2
<1>7. After(i, SubSeq(rest, 1 + 1, Len(rest)), said, past, acts, S, E, M)
  BY <1>1, <1>5, <1>6, IsDone
<1>8. QED
  BY <1>7 DEF Somewhere

\* What is in the text when one more byte was looked at that is a character of it.
LEMMA OneMoreShown ==
  ASSUME NEW u \in Acts, u.text \in Seq(Byte), NEW k \in Nat, NEW c, NEW t \in Seq(Byte),
         Facing(u, k, c), c # "escape", u.type \in {"key", "arrow", "paste"}
  PROVE  /\ Append(t \o Shown(u, k), c) = t \o Shown(u, k + 1)
         /\ u.type = "arrow" => k \in {1, 2}
         /\ u.type = "key" => k < Len(u.text)
         /\ u.type = "paste" => k \in 6 .. 5 + Len(u.text)
<1>1. CASE u.type = "key"
  <2>1. k < Len(u.text) /\ c = u.text[k + 1]
    BY <1>1 DEF Facing
  <2>2. Append(t \o SubSeq(u.text, 1, k), u.text[k + 1]) = t \o SubSeq(u.text, 1, k + 1)
    BY <2>1, OneMore
  <2>3. Shown(u, k) = SubSeq(u.text, 1, k) /\ Shown(u, k + 1) = SubSeq(u.text, 1, k + 1)
    BY <1>1 DEF Shown
  <2>4. QED
    BY <1>1, <2>1, <2>2, <2>3
<1>2. CASE u.type = "arrow"
  <2>1. PICK s : s = <<"[", "A">>
    OBVIOUS
  <2>2. s \in Seq(Byte) /\ Len(s) = 2 /\ s[1] = "[" /\ s[2] = "A"
    BY <2>1 DEF Byte
  <2>3. (k = 1 /\ c = "[") \/ (k = 2 /\ c = "A")
    BY <1>2 DEF Facing
  <2>4. PICK n \in Nat : n = k - 1
    BY <2>3
  <2>5. n < Len(s) /\ c = s[n + 1] /\ (k + 1) - 1 = n + 1
    BY <2>2, <2>3, <2>4
  <2>6. Append(t \o SubSeq(s, 1, n), s[n + 1]) = t \o SubSeq(s, 1, n + 1)
    BY <2>2, <2>5, OneMore
  <2>7. Shown(u, k) = SubSeq(s, 1, n) /\ Shown(u, k + 1) = SubSeq(s, 1, n + 1)
    BY <1>2, <2>1, <2>4, <2>5 DEF Shown
  <2>8. QED
    BY <1>2, <2>3, <2>5, <2>6, <2>7
<1>3. CASE u.type = "paste"
  <2>1. k \in 6 .. 5 + Len(u.text) /\ c = u.text[k - 5] /\ Len(u.text) \in Nat
    BY <1>3 DEF Facing
  <2>2. PICK n \in Nat : n = k - 6
    BY <2>1
  <2>3. n < Len(u.text) /\ k - 5 = n + 1 /\ (k + 1) - 6 = n + 1
    BY <2>1, <2>2
  <2>4. Append(t \o SubSeq(u.text, 1, n), u.text[n + 1]) = t \o SubSeq(u.text, 1, n + 1)
    BY <2>3, OneMore
  <2>5. Shown(u, k) = SubSeq(u.text, 1, n) /\ Shown(u, k + 1) = SubSeq(u.text, 1, n + 1)
    BY <1>3, <2>2, <2>3 DEF Shown
  <2>6. QED
    BY <1>3, <2>1, <2>3, <2>4, <2>5
<1>4. QED
  BY <1>1, <1>2, <1>3

LEMMA CharacterAsMeant ==
  ASSUME NEW acts \in Heard, NEW S, NEW E, NEW M, Stream(acts, S, E), Story(acts, M),
         NEW rest \in Seq(Byte), NEW text, NEW pasted,
         Somewhere(rest, text, pasted, acts, S, E, M), Len(rest) # 0,
         rest[1] \notin {"escape", "interrupt", "end", "backspace"},
         rest[1] = "enter" => pasted.on
  PROVE  Somewhere(SubSeq(rest, 1 + 1, Len(rest)), Append(text, rest[1]), pasted, acts, S, E, M)
<1>1. PICK i, k : At(i, k, rest, text, pasted, acts, S, E, M)
  BY SomewhereIsAt
<1>2. PICK u : u = acts[i]
  OBVIOUS
<1>3. Facing(u, k, rest[1]) /\ k \in Nat /\ i \in 1 .. Len(acts)
  BY <1>1, <1>2, LooksAt
<1>4. PICK B : B = BytesOf(u)
  OBVIOUS
<1>5. u \in Acts /\ u.text \in Seq(Byte) /\ Len(u.text) \in Nat /\ BytesAre(u, B)
  BY <1>2, <1>3, <1>4, ActHasBytes
<1>6. /\ M[i - 1].how = "reading" /\ text = M[i - 1].text \o Shown(u, k)
      /\ pasted = IF u.type = "paste" /\ k > 0
                  THEN [on |-> TRUE, start |-> Len(M[i - 1].text), open |-> TRUE]
                  ELSE PasteOf(M[i - 1])
  BY <1>1, <1>2 DEF At
<1>7. Len(acts) \in Nat
  BY DEF Stream
<1>8. M[i] = Understood(M[i - 1], u) /\ M[i - 1] \in Told /\ M[i - 1].text \in Seq(Byte)
  BY <1>2, <1>3, <1>7, ActMeans
<1>9. u.type \in {"key", "arrow", "paste"}
  <2>1. SUFFICES ASSUME u.type \notin {"key", "arrow", "paste"} PROVE FALSE
    OBVIOUS
  <2>2. rest[1] = u.type
    BY <1>3, <2>1 DEF Facing
  <2>3. rest[1] = "enter"
    BY <1>5, <2>1, <2>2 DEF Acts
  <2>4. pasted = PasteOf(M[i - 1])
    BY <1>6, <2>1
  <2>5. ~pasted.on
    BY <2>4 DEF PasteOf
  <2>6. QED
    BY <2>3, <2>5
<1>10. PICK c : c = rest[1]
  OBVIOUS
<1>11. /\ Append(text, c) = M[i - 1].text \o Shown(u, k + 1)
       /\ u.type = "arrow" => k \in {1, 2}
       /\ u.type = "key" => k < Len(u.text)
       /\ u.type = "paste" => k \in 6 .. 5 + Len(u.text)
  <2>1. Facing(u, k, c) /\ c # "escape"
    BY <1>3, <1>10
  <2>2. PICK t \in Seq(Byte) : t = M[i - 1].text
    BY <1>8
  <2>3. u \in Acts /\ u.text \in Seq(Byte) /\ k \in Nat
    BY <1>3, <1>5
  <2>4. /\ Append(t \o Shown(u, k), c) = t \o Shown(u, k + 1)
        /\ u.type = "arrow" => k \in {1, 2}
        /\ u.type = "key" => k < Len(u.text)
        /\ u.type = "paste" => k \in 6 .. 5 + Len(u.text)
    BY <1>9, <2>1, <2>3, OneMoreShown
  <2>5. QED
    BY <1>6, <2>2, <2>4
<1>12. PICK said : said = Append(text, c)
  OBVIOUS
<1>19. PICK l \in Nat : l = Len(u.text)
  BY <1>5
<1>20. PICK b \in Nat : b = Len(B)
  <2>1. B \in Seq(Byte)
    BY <1>5 DEF BytesAre
  <2>2. QED
    BY <2>1
<1>13. /\ u.type = "key" => b = l
       /\ u.type = "arrow" => b = 3
       /\ u.type = "paste" => b = l + 12
  BY <1>5, <1>19, <1>20 DEF BytesAre
<1>14. k + 1 <= b
  <2>1. CASE u.type = "key"
    BY <1>3, <1>11, <1>13, <1>19, <2>1
  <2>2. CASE u.type = "arrow"
    BY <1>11, <1>13, <2>2
  <2>3. CASE u.type = "paste"
    BY <1>11, <1>13, <1>19, <2>3
  <2>4. QED
    BY <1>9, <2>1, <2>2, <2>3
<1>15. 1 \in Nat \ {0}
  OBVIOUS
<1>16. CASE k + 1 < b
  <2>1. u.type = "paste" => k + 1 \in 6 .. 6 + Len(u.text)
    BY <1>5, <1>11
  <2>2. pasted = IF u.type = "paste"
                 THEN [on |-> TRUE, start |-> Len(M[i - 1].text), open |-> TRUE]
                 ELSE PasteOf(M[i - 1])
    <3>1. u.type = "paste" => k > 0
      BY <1>5, <1>11
    <3>2. QED
      BY <1>6, <3>1
  <2>3. said = M[i - 1].text \o Shown(u, k + 1)
    BY <1>11, <1>12
  <2>4. At(i, k + 1, SubSeq(rest, 1 + 1, Len(rest)), said, pasted, acts, S, E, M)
    BY <1>1, <1>2, <1>4, <1>15, <1>16, <1>20, <2>1, <2>2, <2>3, GoesOn
  <2>5. QED
    BY <1>10, <1>12, <2>4 DEF Somewhere
<1>17. CASE k + 1 = b
  <2>1. u.type \in {"key", "arrow"}
    BY <1>9, <1>11, <1>13, <1>17, <1>19
  <2>2. PICK more : more = IF u.type = "key" THEN u.text ELSE <<"[", "A">>
    OBVIOUS
  <2>3. M[i] = [M[i - 1] EXCEPT !.text = M[i - 1].text \o more]
    BY <1>6, <1>8, <2>1, <2>2 DEF Understood
  <2>4. M[i].text = M[i - 1].text \o more /\ M[i].how = "reading"
        /\ M[i].from = M[i - 1].from /\ M[i].whole = M[i - 1].whole
    <3>1. PICK s \in Told : s = M[i - 1]
      BY <1>8
    <3>2. PICK t : t = s.text \o more
      OBVIOUS
    <3>3. M[i] = [s EXCEPT !.text = t]
      BY <2>3, <3>1, <3>2
    <3>4. M[i].text = t /\ M[i].how = s.how /\ M[i].from = s.from /\ M[i].whole = s.whole
      BY <3>3 DEF Told
    <3>5. QED
      BY <1>6, <3>1, <3>2, <3>4
  <2>5. Shown(u, k + 1) = more
    <3>1. CASE u.type = "key"
      <4>1. Shown(u, k + 1) = SubSeq(u.text, 1, Len(u.text))
        BY <1>13, <1>17, <1>19, <3>1 DEF Shown
      <4>2. SubSeq(u.text, 1, Len(u.text)) = u.text
        BY <1>5, SubSeqFull
      <4>3. QED
        BY <2>2, <3>1, <4>1, <4>2
    <3>2. CASE u.type = "arrow"
      <4>1. PICK s : s = <<"[", "A">>
        OBVIOUS
      <4>2. s \in Seq(Byte) /\ Len(s) = 2
        BY <4>1 DEF Byte
      <4>3. k + 1 = 3 /\ (k + 1) - 1 = Len(s)
        BY <1>13, <1>17, <3>2, <4>2
      <4>4. Shown(u, k + 1) = SubSeq(s, 1, Len(s))
        BY <3>2, <4>1, <4>3 DEF Shown
      <4>5. SubSeq(s, 1, Len(s)) = s
        BY <4>2, SubSeqFull
      <4>6. QED
        BY <2>2, <3>2, <4>1, <4>4, <4>5
    <3>3. QED
      BY <2>1, <3>1, <3>2
  <2>6. said = M[i].text
    BY <1>11, <1>12, <2>4, <2>5
  <2>7. pasted = PasteOf(M[i])
    <3>1. pasted = PasteOf(M[i - 1])
      BY <1>6, <2>1
    <3>2. PasteOf(M[i]) = PasteOf(M[i - 1])
      BY <2>4 DEF PasteOf
    <3>3. QED
      BY <3>1, <3>2
  <2>8. After(i, SubSeq(rest, 1 + 1, Len(rest)), said, pasted, acts, S, E, M)
    BY <1>1, <1>2, <1>4, <1>15, <1>17, <1>20, <2>4, <2>6, <2>7, IsDone
  <2>9. QED
    BY <1>10, <1>12, <2>8 DEF Somewhere
<1>18. QED
  BY <1>3, <1>14, <1>16, <1>17

LEMMA Skips ==
  ASSUME NEW a \in Seq(Byte), NEW b \in Seq(Byte), NEW n \in 1 .. Len(a)
  PROVE  /\ SubSeq(a, n + 1, Len(a)) \in Seq(Byte)
         /\ SubSeq(a, n + 1, Len(a)) \o b = SubSeq(a \o b, n + 1, Len(a \o b))
<1>1. PICK l \in Nat : l = Len(a)
  OBVIOUS
<1>2. PICK m \in Nat : m = Len(b)
  OBVIOUS
<1>3. PICK c : c = a \o b
  OBVIOUS
<1>16. c \in Seq(Byte) /\ Joins(c, a, b)
  BY <1>3, Joined
<1>4. Len(c) = l + m /\ (\A j \in 1 .. l : c[j] = a[j]) /\ \A j \in 1 .. m : c[l + j] = b[j]
  BY <1>1, <1>2, <1>16 DEF Joins
<1>5. n \in 1 .. l
  BY <1>1
<1>6. PICK d : d = SubSeq(a, n + 1, l)
  OBVIOUS
<1>7. PICK e : e = SubSeq(c, n + 1, l + m)
  OBVIOUS
<1>8. /\ d \in Seq(Byte) /\ Len(d) = l - n /\ \A j \in 1 .. l - n : d[j] = a[n + j]
  <2>1. \A j \in n + 1 .. l : a[j] \in Byte
    BY <1>1, <1>5
  <2>2. /\ d \in Seq(Byte) /\ Len(d) = IF n + 1 <= l THEN l - (n + 1) + 1 ELSE 0
        /\ \A j \in 1 .. l - (n + 1) + 1 : d[j] = a[(n + 1) + j - 1]
    BY <1>5, <1>6, <2>1, SubSeqProperties
  <2>3. l - (n + 1) + 1 = l - n /\ (n + 1 > l => l - n = 0)
    BY <1>5
  <2>4. \A j \in 1 .. l - n : (n + 1) + j - 1 = n + j
    OBVIOUS
  <2>5. QED
    BY <2>2, <2>3, <2>4
<1>9. /\ e \in Seq(Byte) /\ Len(e) = (l + m) - n
      /\ \A j \in 1 .. (l + m) - n : e[j] = c[n + j]
  <2>1. \A j \in n + 1 .. l + m : c[j] \in Byte
    BY <1>4, <1>5, <1>16
  <2>2. /\ e \in Seq(Byte)
        /\ Len(e) = IF n + 1 <= l + m THEN (l + m) - (n + 1) + 1 ELSE 0
        /\ \A j \in 1 .. (l + m) - (n + 1) + 1 : e[j] = c[(n + 1) + j - 1]
    <3>1. PICK q \in Int : q = n + 1
      BY <1>5
    <3>2. PICK w \in Int : w = l + m
      OBVIOUS
    <3>3. e = SubSeq(c, q, w) /\ \A j \in q .. w : c[j] \in Byte
      BY <1>7, <2>1, <3>1, <3>2
    <3>4. /\ e \in Seq(Byte) /\ Len(e) = IF q <= w THEN w - q + 1 ELSE 0
          /\ \A j \in 1 .. w - q + 1 : e[j] = c[q + j - 1]
      BY <3>3, SubSeqProperties
    <3>5. QED
      BY <3>1, <3>2, <3>4
  <2>3. (l + m) - (n + 1) + 1 = (l + m) - n /\ (n + 1 > l + m => (l + m) - n = 0)
    BY <1>5
  <2>4. \A j \in 1 .. (l + m) - n : (n + 1) + j - 1 = n + j
    OBVIOUS
  <2>5. QED
    BY <2>2, <2>3, <2>4
<1>10. PICK f : f = d \o b
  OBVIOUS
<1>11. /\ f \in Seq(Byte) /\ Len(f) = (l - n) + m
       /\ \A j \in 1 .. l - n : f[j] = d[j]
       /\ \A j \in 1 .. m : f[(l - n) + j] = b[j]
  <2>1. f \in Seq(Byte) /\ Joins(f, d, b)
    BY <1>8, <1>10, Joined
  <2>2. QED
    BY <1>2, <1>8, <2>1 DEF Joins
<1>12. ASSUME NEW j \in 1 .. (l + m) - n PROVE f[j] = e[j]
  <2>1. CASE j <= l - n
    <3>1. j \in 1 .. l - n /\ n + j \in 1 .. l
      BY <1>5, <2>1
    <3>2. QED
      BY <1>4, <1>8, <1>9, <1>11, <3>1
  <2>2. CASE j > l - n
    <3>1. PICK i \in 1 .. m : i = j - (l - n)
      BY <1>5, <2>2
    <3>2. (l - n) + i = j /\ n + j = l + i
      BY <1>5, <3>1
    <3>3. f[j] = b[i] /\ e[j] = c[l + i]
      BY <1>9, <1>11, <3>1, <3>2
    <3>4. QED
      BY <1>4, <3>1, <3>3
  <2>3. QED
    BY <1>5, <2>1, <2>2
<1>13. f = e
  <2>1. (l - n) + m = (l + m) - n
    BY <1>5
  <2>2. Len(f) = Len(e) /\ \A j \in 1 .. Len(f) : f[j] = e[j]
    BY <1>9, <1>11, <1>12, <2>1
  <2>3. QED
    BY <1>9, <1>11, <2>2, SeqEqual
<1>14. Len(c) = l + m
  BY <1>4
<1>15. QED
  BY <1>1, <1>3, <1>6, <1>7, <1>8, <1>10, <1>13, <1>14

LEMMA ReadsAPiece ==
  ASSUME NEW a \in Seq(Byte), NEW b \in Seq(Byte), NEW n \in 1 .. Len(b)
  PROVE  /\ a \o SubSeq(b, 1, n) \in Seq(Byte) /\ SubSeq(b, n + 1, Len(b)) \in Seq(Byte)
         /\ (a \o SubSeq(b, 1, n)) \o SubSeq(b, n + 1, Len(b)) = a \o b
<1>1. PICK l \in Nat : l = Len(b)
  OBVIOUS
<1>2. PICK c : c = SubSeq(b, 1, n)
  OBVIOUS
<1>3. PICK d : d = SubSeq(b, n + 1, l)
  OBVIOUS
<1>4. \A j \in 1 .. l : b[j] \in Byte
  BY <1>1
<1>5. c \in Seq(Byte)
  <2>1. \A j \in 1 .. n : b[j] \in Byte
    BY <1>1, <1>4
  <2>2. QED
    BY <1>2, <2>1, SubSeqProperties
<1>6. d \in Seq(Byte)
  <2>1. \A j \in n + 1 .. l : b[j] \in Byte
    BY <1>4
  <2>2. QED
    BY <1>3, <2>1, SubSeqProperties
<1>7. c \o d = b
  <2>1. 1 \in 1 .. l + 1 /\ n \in 1 - 1 .. l /\ l \in n .. l
    BY <1>1
  <2>2. SubSeq(b, 1, n) \o SubSeq(b, n + 1, l) = SubSeq(b, 1, l)
    BY <1>1, <2>1, ConcatAdjacentSubSeq
  <2>3. SubSeq(b, 1, l) = b
    BY <1>1, SubSeqFull
  <2>4. QED
    BY <1>2, <1>3, <2>2, <2>3
<1>8. (a \o c) \o d = a \o b
  <2>1. PICK ac : Glued(ac, a, c)
    BY DEF Glued
  <2>2. PICK x : Glued(x, ac, d)
    BY DEF Glued
  <2>3. Glued(b, c, d)
    BY <1>7 DEF Glued
  <2>4. Glued(x, a, b)
    BY <1>5, <1>6, <2>1, <2>2, <2>3, Regrouped
  <2>5. QED
    BY <2>1, <2>2, <2>4 DEF Glued
<1>9. a \o c \in Seq(Byte)
  BY <1>5
<1>10. QED
  BY <1>1, <1>2, <1>3, <1>6, <1>8, <1>9

LEMMA LooksFirst ==
  ASSUME NEW a \in Seq(Byte), NEW b \in Seq(Byte), a # <<>>
  PROVE  (a \o b)[1] = Head(a) /\ Len(a \o b) # 0 /\ Len(a) >= 1 /\ a \o b \in Seq(Byte)
<1>1. PICK l \in Nat : l = Len(a)
  OBVIOUS
<1>2. l >= 1 /\ Head(a) = a[1]
  BY <1>1
<1>3. PICK c : c = a \o b
  OBVIOUS
<1>4. c \in Seq(Byte) /\ Joins(c, a, b)
  BY <1>3, Joined
<1>5. c[1] = a[1] /\ Len(c) # 0
  BY <1>1, <1>2, <1>4 DEF Joins
<1>6. QED
  BY <1>1, <1>2, <1>3, <1>4, <1>5

\* A marker that is pending, and one of which a part is on its way.
LEMMA AMarkerIsNext ==
  ASSUME NEW a \in Seq(Byte), NEW b \in Seq(Byte), NEW m \in {PasteBegins, PasteEnds}
  PROVE  /\ IsPrefix(m, a) => Len(a) >= 6 /\ Next6(m, a \o b)
         /\ Next6(m, a \o b) /\ Len(a) >= 6 => IsPrefix(m, a)
         /\ Next6(m, a \o b) => IsPrefix(m, a \o b)
<1>1. PICK l \in Nat : l = Len(a)
  OBVIOUS
<1>2. PICK c : c = a \o b
  OBVIOUS
<1>3. c \in Seq(Byte) /\ Len(c) \in Nat /\ Len(c) >= l /\ \A j \in 1 .. l : c[j] = a[j]
  <2>1. c \in Seq(Byte) /\ Joins(c, a, b)
    BY <1>2, Joined
  <2>2. PICK n \in Nat : n = Len(b)
    OBVIOUS
  <2>3. Len(c) = l + n
    BY <1>1, <2>1, <2>2 DEF Joins
  <2>4. QED
    BY <1>1, <2>1, <2>3 DEF Joins
<1>4. IsPrefix(m, a) <=> l >= 6 /\ \A j \in 1 .. 6 : a[j] = m[j]
  BY <1>1, MarkerIs
<1>5. IsPrefix(m, c) <=> Next6(m, c)
  BY <1>3, MarkerIs DEF Next6
<1>6. PICK n \in Nat : n = Len(c)
  BY <1>3
<1>7. l >= 6 => (Next6(m, c) <=> \A j \in 1 .. 6 : a[j] = m[j])
  <2>1. SUFFICES ASSUME l >= 6 PROVE Next6(m, c) <=> \A j \in 1 .. 6 : a[j] = m[j]
    OBVIOUS
  <2>2. n >= 6
    BY <1>3, <1>6, <2>1
  <2>4. \A j \in 1 .. 6 : c[j] = a[j]
    BY <1>3, <2>1
  <2>3. QED
    BY <1>6, <2>2, <2>4 DEF Next6
<1>8. QED
  BY <1>1, <1>2, <1>4, <1>5, <1>7

\* One step of the reader, for the stream and the meaning of what a user does.
LEMMA InputIsAStory ==
  ASSUME NEW acts \in Heard
  PROVE  /\ Stream(acts, BytesUpTo(acts)[Len(acts)], Ends(acts))
         /\ Story(acts, MeaningUpTo(acts))
<1>1. acts \in Seq(Acts)
  BY HeardIsActs
<1>2. QED
  BY <1>1, InputIsAStream, InputHasAMeaning

LEMMA HereStarts ==
  ASSUME NEW acts \in Heard
  PROVE  /\ BytesUpTo(acts)[Len(acts)] \in Seq(Byte)
         /\ Here(<<>> \o BytesUpTo(acts)[Len(acts)], <<>>,
                 [on |-> FALSE, start |-> 0, open |-> FALSE], acts)
<1>1. PICK S : S = BytesUpTo(acts)[Len(acts)]
  OBVIOUS
<1>2. PICK E : E = Ends(acts)
  OBVIOUS
<1>3. PICK M : M = MeaningUpTo(acts)
  OBVIOUS
<1>4. Stream(acts, S, E) /\ Story(acts, M)
  BY <1>1, <1>2, <1>3, InputIsAStory
<1>5. S \in Seq(Byte) /\ E[0] = 0 /\ Len(acts) \in Nat
  BY <1>4 DEF Stream
<1>6. <<>> \o S = S
  BY <1>5
<1>7. Ahead(S, S, E[0])
  <2>1. PICK l \in Nat : l = Len(S)
    BY <1>5
  <2>2. \A j \in 1 .. l : 0 + j = j
    OBVIOUS
  <2>3. 0 \in Nat /\ 0 <= l /\ l = l - 0
    OBVIOUS
  <2>4. QED
    BY <1>5, <2>1, <2>2, <2>3 DEF Ahead
<1>8. M[0] = [text |-> <<>>, from |-> 0, whole |-> FALSE, how |-> "reading"]
  BY <1>4 DEF Story
<1>9. M[0].text = <<>> /\ M[0].how = "reading" /\ M[0].from = 0 /\ M[0].whole = FALSE
  BY <1>8
<1>10. PasteOf(M[0]) = [on |-> FALSE, start |-> 0, open |-> FALSE]
  BY <1>9 DEF PasteOf
<1>11. PICK past : past = [on |-> FALSE, start |-> 0, open |-> FALSE]
  OBVIOUS
<1>12. 0 \in 0 .. Len(acts)
  BY <1>5
<1>13. PICK said : said = <<>>
  OBVIOUS
<1>14. After(0, S, said, past, acts, S, E, M)
  BY <1>7, <1>9, <1>10, <1>11, <1>12, <1>13 DEF After
<1>15. Somewhere(S, said, past, acts, S, E, M)
  BY <1>14 DEF Somewhere
<1>16. Here(S, said, past, acts)
  BY <1>1, <1>2, <1>3, <1>15 DEF Here
<1>17. QED
  BY <1>1, <1>5, <1>6, <1>11, <1>13, <1>16

LEMMA HereGoesOn ==
  ASSUME NEW acts \in Heard, NEW rest \in Seq(Byte), NEW text, NEW pasted,
         Here(rest, text, pasted, acts), Len(rest) # 0
  PROVE  /\ Next6(PasteBegins, rest) =>
               Here(SubSeq(rest, 6 + 1, Len(rest)), text,
                    [on |-> TRUE, start |-> Len(text), open |-> TRUE], acts)
         /\ Next6(PasteEnds, rest) =>
               Here(SubSeq(rest, 6 + 1, Len(rest)), text, PasteOver(pasted), acts)
         /\ /\ rest[1] = "escape" /\ ~Next6(PasteBegins, rest) /\ ~Next6(PasteEnds, rest)
            => Here(SubSeq(rest, 1 + 1, Len(rest)), text, pasted, acts)
         /\ rest[1] = "backspace" =>
               \A said, past : Erases(text, pasted, said, past) =>
                  Here(SubSeq(rest, 1 + 1, Len(rest)), said, past, acts)
         /\ /\ rest[1] \notin {"escape", "interrupt", "end", "backspace"}
            /\ rest[1] = "enter" => pasted.on
            => Here(SubSeq(rest, 1 + 1, Len(rest)), Append(text, rest[1]), pasted, acts)
<1>1. PICK S : S = BytesUpTo(acts)[Len(acts)]
  OBVIOUS
<1>2. PICK E : E = Ends(acts)
  OBVIOUS
<1>3. PICK M : M = MeaningUpTo(acts)
  OBVIOUS
<1>4. Stream(acts, S, E) /\ Story(acts, M)
  BY <1>1, <1>2, <1>3, InputIsAStory
<1>5. Somewhere(rest, text, pasted, acts, S, E, M)
  BY <1>1, <1>2, <1>3 DEF Here
<1>6. ASSUME NEW r, NEW t, NEW p, Somewhere(r, t, p, acts, S, E, M) PROVE Here(r, t, p, acts)
  BY <1>1, <1>2, <1>3, <1>6 DEF Here
<1>7. ASSUME Next6(PasteBegins, rest)
      PROVE  Here(SubSeq(rest, 6 + 1, Len(rest)), text,
                  [on |-> TRUE, start |-> Len(text), open |-> TRUE], acts)
  BY <1>4, <1>5, <1>6, <1>7, PasteHasBegun
<1>8. ASSUME Next6(PasteEnds, rest)
      PROVE  Here(SubSeq(rest, 6 + 1, Len(rest)), text, PasteOver(pasted), acts)
  BY <1>4, <1>5, <1>6, <1>8, PasteHasEnded
<1>9. ASSUME rest[1] = "escape", ~Next6(PasteBegins, rest), ~Next6(PasteEnds, rest)
      PROVE  Here(SubSeq(rest, 1 + 1, Len(rest)), text, pasted, acts)
  BY <1>4, <1>5, <1>6, <1>9, EscapeIsDropped
<1>10. ASSUME rest[1] = "backspace", NEW said, NEW past, Erases(text, pasted, said, past)
       PROVE  Here(SubSeq(rest, 1 + 1, Len(rest)), said, past, acts)
  BY <1>4, <1>5, <1>6, <1>10, ErasesAsMeant
<1>11. ASSUME rest[1] \notin {"escape", "interrupt", "end", "backspace"},
              rest[1] = "enter" => pasted.on
       PROVE  Here(SubSeq(rest, 1 + 1, Len(rest)), Append(text, rest[1]), pasted, acts)
  BY <1>4, <1>5, <1>6, <1>11, CharacterAsMeant
<1>12. QED
  BY <1>7, <1>8, <1>9, <1>10, <1>11

LEMMA HereEnds ==
  ASSUME NEW acts \in Heard, NEW rest \in Seq(Byte), NEW text, NEW pasted,
         Here(rest, text, pasted, acts), Len(rest) # 0,
         rest[1] \in {"interrupt", "end", "enter"}, rest[1] = "enter" => ~pasted.on
  PROVE  /\ MeaningUpTo(acts)[Len(acts)].text = text
         /\ rest[1] = "interrupt" => MeaningUpTo(acts)[Len(acts)].how = "interrupted"
         /\ rest[1] = "enter" => MeaningUpTo(acts)[Len(acts)].how = "submitted"
         /\ rest[1] = "end" =>
               MeaningUpTo(acts)[Len(acts)].how = IF text = <<>> THEN "ended" ELSE "submitted"
<1>1. PICK S : S = BytesUpTo(acts)[Len(acts)]
  OBVIOUS
<1>2. PICK E : E = Ends(acts)
  OBVIOUS
<1>3. PICK M : M = MeaningUpTo(acts)
  OBVIOUS
<1>4. Stream(acts, S, E) /\ Story(acts, M)
  BY <1>1, <1>2, <1>3, InputIsAStory
<1>5. Somewhere(rest, text, pasted, acts, S, E, M)
  BY <1>1, <1>2, <1>3 DEF Here
<1>6. QED
  BY <1>3, <1>4, <1>5, EndsAsMeant

LEMMA PromptStarts == PromptInit => PromptInv
<1>1. SUFFICES ASSUME PromptInit PROVE PromptInv
  OBVIOUS
<1>2. heard \in Heard /\ unread = BytesUpTo(heard)[Len(heard)] /\ pending = <<>> /\ Reading
      /\ chars = <<>> /\ paste = [on |-> FALSE, start |-> 0, open |-> FALSE]
  BY <1>1 DEF PromptInit, Reading, Heard
<1>3. unread \in Seq(Byte) /\ Here(<<>> \o unread, <<>>, paste, heard)
  BY <1>2, HereStarts
<1>4. pending \in Seq(Byte)
  BY <1>2
<1>5. Here(pending \o unread, chars, paste, heard)
  BY <1>2, <1>3
<1>6. QED
  BY <1>2, <1>3, <1>4, <1>5 DEF PromptInv

\* The bytes stay bytes, whatever a step does with them.
LEMMA ReadKeeps ==
  ASSUME PromptInv, Reading, ReadBytes
  PROVE  PromptInv'
<1>1. PICK n \in 1 .. Len(unread) :
         /\ pending' = pending \o SubSeq(unread, 1, n)
         /\ unread' = SubSeq(unread, n + 1, Len(unread))
  BY DEF ReadBytes
<1>2. heard' = heard /\ chars' = chars /\ paste' = paste /\ prompt' = prompt /\ cut' = cut
  BY DEF ReadBytes
<1>3. heard \in Heard /\ pending \in Seq(Byte) /\ unread \in Seq(Byte)
  BY DEF PromptInv
<1>4. pending' \in Seq(Byte) /\ unread' \in Seq(Byte) /\ pending' \o unread' = pending \o unread
  <2>1. PICK a \in Seq(Byte) : a = pending
    BY <1>3
  <2>2. PICK b \in Seq(Byte) : b = unread
    BY <1>3
  <2>3. QED
    BY <1>1, <2>1, <2>2, ReadsAPiece
<1>5. cut \/ Here(pending \o unread, chars, paste, heard)
  BY DEF PromptInv
<1>6. cut' \/ (Reading' /\ Here(pending \o unread, chars, paste, heard)')
  BY <1>2, <1>4, <1>5 DEF Reading, Here
<1>7. QED
  BY <1>2, <1>3, <1>4, <1>6 DEF PromptInv

\* A step that takes bytes off and goes on reading.
LEMMA SkipKeeps ==
  ASSUME PromptInv, Reading, NEW n \in 1 .. Len(pending), Skip(n),
         unread' = unread, heard' = heard, prompt' = prompt,
         \/ cut'
         \/ Here(SubSeq(pending \o unread, n + 1, Len(pending \o unread)), chars', paste', heard)
  PROVE  PromptInv'
<1>1. heard \in Heard /\ pending \in Seq(Byte) /\ unread \in Seq(Byte)
  BY DEF PromptInv
<1>2. PICK a \in Seq(Byte) : a = pending
  BY <1>1
<1>3. PICK b \in Seq(Byte) : b = unread
  BY <1>1
<1>4. pending' = SubSeq(a, n + 1, Len(a)) /\ n \in 1 .. Len(a)
  BY <1>2 DEF Skip
<1>5. pending' \in Seq(Byte) /\ pending' \o unread' = SubSeq(a \o b, n + 1, Len(a \o b))
  BY <1>3, <1>4, Skips
<1>6. cut' \/ Here(pending' \o unread', chars', paste', heard')
  BY <1>2, <1>3, <1>5
<1>7. cut' \/ (Reading' /\ Here(pending \o unread, chars, paste, heard)')
  BY <1>6 DEF Reading, Here
<1>8. QED
  BY <1>1, <1>5, <1>7 DEF PromptInv

LEMMA BeginPasteKeeps ==
  ASSUME PromptInv, BeginPaste
  PROVE  PromptInv'
<1>1. /\ Reading /\ IsPrefix(PasteBegins, pending) /\ Skip(6)
      /\ paste' = [on |-> TRUE, start |-> Len(chars), open |-> TRUE]
      /\ heard' = heard /\ unread' = unread /\ chars' = chars /\ prompt' = prompt /\ cut' = cut
  BY DEF BeginPaste, Begins
<1>2. PICK acts \in Heard : acts = heard
  BY DEF PromptInv
<1>3. PICK a \in Seq(Byte) : a = pending
  BY DEF PromptInv
<1>4. PICK b \in Seq(Byte) : b = unread
  BY DEF PromptInv
<1>5. PICK r \in Seq(Byte) : r = a \o b
  BY Joined
<1>6. Len(a) >= 6 /\ Next6(PasteBegins, r)
  BY <1>1, <1>3, <1>5, AMarkerIsNext
<1>7. 6 \in 1 .. Len(pending) /\ Len(r) # 0
  BY <1>3, <1>6 DEF Next6
<1>8. cut \/ Here(r, chars, paste, acts)
  BY <1>1, <1>2, <1>3, <1>4, <1>5 DEF PromptInv, Reading
<1>9. cut' \/ Here(SubSeq(r, 6 + 1, Len(r)), chars', paste', acts)
  BY <1>1, <1>6, <1>7, <1>8, HereGoesOn
<1>10. QED
  BY <1>1, <1>2, <1>3, <1>4, <1>5, <1>7, <1>9, SkipKeeps

LEMMA EndPasteKeeps ==
  ASSUME PromptInv, EndPaste
  PROVE  PromptInv'
<1>1. /\ Reading /\ IsPrefix(PasteEnds, pending) /\ Skip(6) /\ paste' = PasteOver(paste)
      /\ heard' = heard /\ unread' = unread /\ chars' = chars /\ prompt' = prompt /\ cut' = cut
  BY DEF EndPaste, Begins, PasteOver
<1>2. PICK acts \in Heard : acts = heard
  BY DEF PromptInv
<1>3. PICK a \in Seq(Byte) : a = pending
  BY DEF PromptInv
<1>4. PICK b \in Seq(Byte) : b = unread
  BY DEF PromptInv
<1>5. PICK r \in Seq(Byte) : r = a \o b
  BY Joined
<1>6. Len(a) >= 6 /\ Next6(PasteEnds, r)
  BY <1>1, <1>3, <1>5, AMarkerIsNext
<1>7. 6 \in 1 .. Len(pending) /\ Len(r) # 0
  BY <1>3, <1>6 DEF Next6
<1>8. cut \/ Here(r, chars, paste, acts)
  BY <1>1, <1>2, <1>3, <1>4, <1>5 DEF PromptInv, Reading
<1>9. cut' \/ Here(SubSeq(r, 6 + 1, Len(r)), chars', paste', acts)
  BY <1>1, <1>6, <1>7, <1>8, HereGoesOn
<1>10. QED
  BY <1>1, <1>2, <1>3, <1>4, <1>5, <1>7, <1>9, SkipKeeps

LEMMA DropEscapeKeeps ==
  ASSUME PromptInv, DropEscape
  PROVE  PromptInv'
<1>1. /\ Reading /\ pending # <<>> /\ Head(pending) = "escape" /\ Skip(1)
      /\ ~IsPrefix(PasteBegins, pending) /\ ~IsPrefix(PasteEnds, pending)
      /\ cut' = (cut \/ (ShortEscape /\ InMarker))
      /\ heard' = heard /\ unread' = unread /\ chars' = chars /\ paste' = paste
      /\ prompt' = prompt
  BY DEF DropEscape, Begins
<1>2. PICK acts \in Heard : acts = heard
  BY DEF PromptInv
<1>3. PICK a \in Seq(Byte) : a = pending
  BY DEF PromptInv
<1>4. PICK b \in Seq(Byte) : b = unread
  BY DEF PromptInv
<1>5. PICK r \in Seq(Byte) : r = a \o b
  BY Joined
<1>6. r[1] = "escape" /\ Len(r) # 0 /\ Len(a) >= 1
  <2>1. a # <<>> /\ Head(a) = "escape"
    BY <1>1, <1>3
  <2>2. QED
    BY <1>5, <2>1, LooksFirst
<1>7. 1 \in 1 .. Len(pending)
  BY <1>3, <1>6
<1>8. cut \/ Here(r, chars, paste, acts)
  BY <1>1, <1>2, <1>3, <1>4, <1>5 DEF PromptInv, Reading
<1>9. ASSUME ~cut', NEW m \in {PasteBegins, PasteEnds} PROVE ~Next6(m, r)
  <2>1. CASE Len(a) >= 6
    <3>1. ~IsPrefix(m, a)
      BY <1>1, <1>3
    <3>2. QED
      BY <1>5, <2>1, <3>1, AMarkerIsNext
  <2>2. CASE Len(a) < 6
    <3>6. PICK l \in Nat : l = Len(a)
      BY <1>3
    <3>7. l >= 1 /\ l < 6
      BY <1>6, <2>2, <3>6
    <3>1. l \in 1 .. 5
      BY <3>7
    <3>2. ShortEscape
      BY <1>1, <1>3, <3>1, <3>6 DEF ShortEscape
    <3>3. ~InMarker
      BY <1>1, <1>9, <3>2
    <3>4. ~IsPrefix(m, r)
      BY <1>3, <1>4, <1>5, <3>3 DEF InMarker
    <3>5. QED
      BY <1>5, <3>4, AMarkerIsNext
  <2>3. Len(a) \in Nat
    BY <1>3
  <2>4. QED
    BY <2>1, <2>2, <2>3
<1>10. cut' \/ Here(SubSeq(r, 1 + 1, Len(r)), chars', paste', acts)
  <2>1. SUFFICES ASSUME ~cut' PROVE Here(SubSeq(r, 1 + 1, Len(r)), chars, paste, acts)
    BY <1>1
  <2>2. Here(r, chars, paste, acts)
    BY <1>1, <1>8, <2>1
  <2>3. ~Next6(PasteBegins, r) /\ ~Next6(PasteEnds, r)
    BY <1>9, <2>1
  <2>4. QED
    BY <1>6, <2>2, <2>3, HereGoesOn
<1>11. QED
  BY <1>1, <1>2, <1>3, <1>4, <1>5, <1>7, <1>10, SkipKeeps

LEMMA TakeByteKeeps ==
  ASSUME PromptInv, TakeByte
  PROVE  PromptInv'
<1>1. /\ Reading /\ pending # <<>> /\ Head(pending) # "escape"
      /\ heard' = heard /\ unread' = unread /\ cut' = cut
  BY DEF TakeByte
<1>2. PICK acts \in Heard : acts = heard
  BY DEF PromptInv
<1>3. PICK a \in Seq(Byte) : a = pending
  BY DEF PromptInv
<1>4. PICK b \in Seq(Byte) : b = unread
  BY DEF PromptInv
<1>5. PICK r \in Seq(Byte) : r = a \o b
  BY Joined
<1>6. PICK c : c = Head(pending)
  OBVIOUS
<1>7. r[1] = c /\ Len(r) # 0 /\ Len(a) >= 1
  <2>1. a # <<>> /\ Head(a) = c
    BY <1>1, <1>3, <1>6
  <2>2. QED
    BY <1>5, <2>1, LooksFirst
<1>8. 1 \in 1 .. Len(pending)
  BY <1>3, <1>7
<1>9. cut \/ Here(r, chars, paste, acts)
  BY <1>1, <1>2, <1>3, <1>4, <1>5 DEF PromptInv, Reading
<1>10. ASSUME NEW how \in {"interrupted", "ended", "submitted"}, EndPrompt(how),
              cut \/ (how = Meaning.how /\ chars = Meaning.text)
       PROVE  PromptInv'
  <2>1. prompt' = how /\ pending' = <<>> /\ chars' = chars
    BY <1>10 DEF EndPrompt
  <2>2. cut' \/ (~Reading' /\ prompt' = Meaning' .how /\ chars' = Meaning' .text)
    BY <1>1, <1>10, <2>1 DEF Reading, Meaning
  <2>3. pending' \in Seq(Byte) /\ unread' \in Seq(Byte) /\ heard' \in Heard
    BY <1>1, <1>2, <1>4, <2>1
  <2>4. QED
    BY <2>2, <2>3 DEF PromptInv
<1>11. Meaning = MeaningUpTo(acts)[Len(acts)]
  BY <1>2 DEF Meaning
<1>12. CASE c = "interrupt"
  <2>1. EndPrompt("interrupted")
    BY <1>6, <1>12 DEF TakeByte
  <2>2. cut \/ ("interrupted" = Meaning.how /\ chars = Meaning.text)
    BY <1>7, <1>9, <1>11, <1>12, HereEnds
  <2>3. QED
    BY <1>10, <2>1, <2>2
<1>13. CASE c = "end"
  <2>1. PICK how \in {"interrupted", "ended", "submitted"} :
          how = IF chars = <<>> THEN "ended" ELSE "submitted"
    OBVIOUS
  <2>2. EndPrompt(how)
    BY <1>6, <1>13, <2>1 DEF TakeByte
  <2>3. cut \/ (how = Meaning.how /\ chars = Meaning.text)
    BY <1>7, <1>9, <1>11, <1>13, <2>1, HereEnds
  <2>4. QED
    BY <1>10, <2>2, <2>3
<1>14. CASE c = "enter" /\ ~paste.on
  <2>1. EndPrompt("submitted")
    BY <1>6, <1>14 DEF TakeByte
  <2>2. cut \/ ("submitted" = Meaning.how /\ chars = Meaning.text)
    BY <1>7, <1>9, <1>11, <1>14, HereEnds
  <2>3. QED
    BY <1>10, <2>1, <2>2
<1>15. CASE c = "backspace"
  <2>1. Erase /\ Skip(1) /\ prompt' = prompt
    BY <1>6, <1>15 DEF TakeByte
  <2>2. Erases(chars, paste, chars', paste')
    BY <2>1 DEF Erase, Erases
  <2>3. cut' \/ Here(SubSeq(r, 1 + 1, Len(r)), chars', paste', acts)
    BY <1>1, <1>7, <1>9, <1>15, <2>2, HereGoesOn
  <2>4. QED
    BY <1>1, <1>2, <1>3, <1>4, <1>5, <1>8, <2>1, <2>3, SkipKeeps
<1>16. CASE c \notin {"interrupt", "end", "backspace"} /\ ~(c = "enter" /\ ~paste.on)
  <2>1. chars' = Append(chars, c) /\ Skip(1) /\ paste' = paste /\ prompt' = prompt
    BY <1>6, <1>16 DEF TakeByte
  <2>2. cut' \/ Here(SubSeq(r, 1 + 1, Len(r)), chars', paste', acts)
    BY <1>1, <1>6, <1>7, <1>9, <1>16, <2>1, HereGoesOn
  <2>3. QED
    BY <1>1, <1>2, <1>3, <1>4, <1>5, <1>8, <2>1, <2>2, SkipKeeps
<1>17. QED
  BY <1>12, <1>13, <1>14, <1>15, <1>16

LEMMA PromptKeeps == PromptInv /\ [PromptNext]_promptVars => PromptInv'
<1>1. SUFFICES ASSUME PromptInv, [PromptNext]_promptVars PROVE PromptInv'
  OBVIOUS
<1>2. CASE ReadMore
  BY <1>1, <1>2, ReadKeeps DEF ReadMore
<1>3. CASE AwaitRest
  BY <1>1, <1>3, ReadKeeps DEF AwaitRest
<1>4. CASE BeginPaste
  BY <1>1, <1>4, BeginPasteKeeps
<1>5. CASE EndPaste
  BY <1>1, <1>5, EndPasteKeeps
<1>6. CASE DropEscape
  BY <1>1, <1>6, DropEscapeKeeps
<1>7. CASE TakeByte
  BY <1>1, <1>7, TakeByteKeeps
<1>8. CASE UNCHANGED promptVars
  BY <1>1, <1>8 DEF promptVars, PromptInv, Here, Reading, Meaning
<1>9. QED
  BY <1>1, <1>2, <1>3, <1>4, <1>5, <1>6, <1>7, <1>8 DEF PromptNext

LEMMA PromptInvariance == PromptSpec => []PromptInv
<1>1. PromptInv /\ [PromptNext]_promptVars => PromptInv'
  BY PromptKeeps
<1>2. QED
  BY <1>1, PromptStarts, PTL DEF PromptSpec

\* However the bytes of the terminal come in, a prompt ends by the act that was to end
\* it, with the text of the acts before it in which only the characters that a read cut
\* are replaced, unless 50 ms passed in the middle of a marker (_read_prompt_bracketed).
THEOREM PromptsAreWhatWasMeant == PromptSpec => []PromptIsWhatWasMeant
<1>1. PromptInv => PromptIsWhatWasMeant
  BY DEF PromptInv, PromptIsWhatWasMeant
<1>2. QED
  BY <1>1, PromptInvariance, PTL
============================================================================
