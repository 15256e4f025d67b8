--------------------------- MODULE RouteSelection ---------------------------
(***************************************************************************)
(* Which model a request goes to, and what of it is sent: the classifier,  *)
(* the policies, the filter, the strategies and the choice that            *)
(* RoutingService._prepare_route makes without an await.                   *)
(***************************************************************************)
EXTENDS Naturals, FiniteSets

CONSTANTS Provider,
          Ollama,      \* the provider that runs on this machine
          Cap,         \* the capabilities of the registry
          Name,        \* the model names that requests carry
          Resolves,    \* [Name -> the capability meant by it, or None]
          Serves,      \* the names each provider answers to
          Prompt,      \* texts of system prompt and messages together
          Blocked,     \* those that a guard rejects
          Strategy,
          Rank,        \* [Strategy -> [Cap -> place in the sorted list]]
          Request,     \* the requests that clients send
          None

\* fast: expected latency 500 ms, otherwise 1500 ms.
CapType == [provider : Provider, model : STRING, local : BOOLEAN,
            images : BOOLEAN, tools : BOOLEAN, fast : BOOLEAN, window : Nat]

\* The places of a request where personal data can stand.
Part == {"system", "earlier", "last"}

\* name is what the request calls its model, and what is sent as the model's
\* name, whichever capability is chosen.
\* sla: the latency allowed is 1500 ms or more, less, or below 500 ms.
RequestType ==
    [text : Prompt, pii : SUBSET Part, tokens : Nat \ {0}, quota : Nat,
     images : BOOLEAN, tools : BOOLEAN, agentic : BOOLEAN, local : BOOLEAN,
     sla : {"any", "fast", "none"}, strategy : Strategy,
     name : Name, stream : BOOLEAN]

ASSUME SelectionAssumption ==
    /\ Ollama \in Provider
    /\ Cap \subseteq CapType
    /\ IsFiniteSet(Cap)
    /\ None \notin Cap
    /\ Blocked \subseteq Prompt
    /\ Request \subseteq RequestType

ASSUME NameAssumption ==
    /\ Resolves \in [Name -> Cap \cup {None}]
    /\ Serves \subseteq Provider \X Name

ASSUME RankAssumption ==
    /\ Rank \in [Strategy -> [Cap -> Nat]]
    /\ \A s \in Strategy, c, d \in Cap : Rank[s][c] = Rank[s][d] => c = d

----------------------------------------------------------------------------
\* routing_policy and budget_enforcer: the guards and the token quota.
Admissible(r) == r.text \notin Blocked /\ r.tokens <= r.quota

\* privacy_policy.enforce_local_only.
PrivacyAllows(r, c) == r.local => c.provider = Ollama

\* _filter_candidates, then the policy once more for each provider.
Capable(r, c) ==
    /\ r.local => c.local
    /\ r.images => c.images
    /\ r.tools => c.tools
    /\ PrivacyAllows(r, c)

\* A name that resolves to nothing leaves the choice open.
Candidates(r) == {c \in Cap : /\ Capable(r, c)
                              /\ Resolves[r.name] \in {None, c}}

\* context_escalator and latency_sla_enforcer.
Overflows(r, c) == r.tokens > c.window
WithinSla(r, c) == r.sla = "any" \/ (r.sla = "fast" /\ c.fast)

\* The least and the greatest of a set of candidates in the sorted list.
First(S, s) == CHOOSE c \in S : \A d \in S : Rank[s][c] <= Rank[s][d]
Last(S, s)  == CHOOSE c \in S : \A d \in S : Rank[s][d] <= Rank[s][c]

\* _select_candidate: the first that suits, and when none does the last.
Select(r, S) ==
    LET suits == {c \in S : ~Overflows(r, c) /\ WithinSla(r, c)} IN
    IF suits # {} THEN First(suits, r.strategy) ELSE Last(S, r.strategy)

\* _redacted_request: the parts whose personal data is sent as it came.
\* Only the last message is replaced.
SentUnredacted(r) == r.pii \ {"last"}
=============================================================================
