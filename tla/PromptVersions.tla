---------------------------- MODULE PromptVersions ----------------------------
(***************************************************************************)
(* The prompt template registry (services/prompt_service.py behind          *)
(* api/v1/prompts.py): versions of a template, rollback to an older one,     *)
(* which adds a copy as the newest, and deletion, which frees the number of  *)
(* the newest for the next version.                                          *)
(***************************************************************************)
EXTENDS Requests

CONSTANT Templates    \* the scopes (project, name) templates are kept under

VARIABLE prompts      \* the committed versions of each template

Below == 1 .. Cardinality(Tickets)

PromptsInit == prompts = [t \in Templates |-> {}]

\* "seen" is history: the requests whose versions were stored when this was sent.
\* The text is named by the request that brought it; << >> is no text yet, and
\* 0 no number.
Preparing(c, t, step, text, from) ==
    [op |-> "prompt", step |-> step, template |-> t, who |-> NextTicket(c),
     seen |-> {r.who : r \in prompts[t]}, text |-> text, from |-> from, version |-> 0]

\* create_template, and create_version once the template was found: both number
\* the new text by scope.
CreateTemplate(c, t) ==
    /\ Start(c, Preparing(c, t, "latest", NextTicket(c), 0))
    /\ UNCHANGED prompts

Rollback(c, t, v) ==
    /\ prompts[t] # {}
    /\ Start(c, Preparing(c, t, "source", <<>>, v))
    /\ UNCHANGED prompts

\* _get_version takes any one row of that number, or the answer is 404.
LoadSource(c) ==
    /\ At(c, "prompt", "source")
    /\ LET found == {r \in prompts[req[c].template] : r.version = req[c].from}
       IN  \/ found = {} /\ Finish(c)
           \/ \E r \in found :
                Goto(c, [req[c] EXCEPT !.step = "latest", !.text = r.text])
    /\ UNCHANGED prompts

\* Mutant: the versions are counted, which a deletion makes too few.
NextPromptVersion_Count(t) == Cardinality(prompts[t]) + 1

NextPromptVersion(t) == Max({0} \cup {r.version : r \in prompts[t]}) + 1

ReadLatest(c) ==
    /\ At(c, "prompt", "latest")
    /\ Goto(c, [req[c] EXCEPT !.step = "insert",
                               !.version = NextPromptVersion(req[c].template)])
    /\ UNCHANGED prompts

InsertTemplate(c) ==
    /\ At(c, "prompt", "insert")
    /\ prompts' = [prompts EXCEPT ![req[c].template] = @ \cup
                     {[version |-> req[c].version, who |-> req[c].who,
                       text |-> req[c].text, seen |-> req[c].seen]}]
    /\ Finish(c)

DeleteTemplate(c, t) ==
    /\ \E r \in prompts[t] : prompts' = [prompts EXCEPT ![t] = @ \ {r}]
    /\ Once(c)

PromptsNext(c) ==
    \/ \E t \in Templates : CreateTemplate(c, t) \/ DeleteTemplate(c, t)
    \/ \E t \in Templates, v \in Below : Rollback(c, t, v)
    \/ LoadSource(c)
    \/ ReadLatest(c)
    \/ InsertTemplate(c)

-------------------------------------------------------------------------------
PromptsTypeOK ==
    \A t \in Templates :
        prompts[t] \subseteq [version : Below, who : Tickets, text : Tickets,
                              seen : SUBSET Tickets]

\* A text published, or rolled back to, after another was stored outranks it for
\* list_templates(latest_only) as long as both exist, deletions in between included:
\* after a rollback that overlaps nothing the restored text is the latest.
LatestIsNewest ==
    \A t \in Templates : \A r, q \in prompts[t] :
        r.who \in q.seen => r.version < q.version
===============================================================================
