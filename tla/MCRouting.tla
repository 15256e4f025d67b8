---- MODULE MCRouting ----
EXTENDS Routing, TLC

\* Four capabilities of the registry, in its words: a hosted model that
\* strategies prefer, one with images and a small window, a model that counts
\* as local under a hosted provider's name, and one of Ollama.
Hosted == [provider |-> "inkling", model |-> "inkling-1", local |-> FALSE,
           images |-> FALSE, tools |-> TRUE, fast |-> FALSE, window |-> 3]
Small  == [provider |-> "openai", model |-> "gpt-4o-mini", local |-> FALSE,
           images |-> TRUE, tools |-> TRUE, fast |-> TRUE, window |-> 1]
Named  == [provider |-> "deepseek", model |-> "deepseek-r1:7b", local |-> TRUE,
           images |-> FALSE, tools |-> TRUE, fast |-> TRUE, window |-> 2]
Local  == [provider |-> "ollama", model |-> "qwen2.5:7b", local |-> TRUE,
           images |-> FALSE, tools |-> TRUE, fast |-> TRUE, window |-> 3]

AllProviders == {"inkling", "openai", "deepseek", "ollama"}
AllCaps  == {Hosted, Small, Named, Local}
ThreeCaps == {Hosted, Named, Local}
RankOf(S) == [s \in Strategy |-> [c \in S |->
               CASE c = Hosted -> 1 [] c = Small -> 2 [] c = Named -> 3
                 [] c = Local -> 4]]
AllRank   == RankOf(AllCaps)
ThreeRank == RankOf(ThreeCaps)

\* What requests call a model: three of the registry and one that is not in it,
\* which the first provider and Ollama both answer to.
Names == {"inkling-1", "deepseek-r1:7b", "qwen2.5:7b", "other"}
Resolved ==
    [n \in Names |-> CASE n = "inkling-1" -> Hosted
                       [] n = "deepseek-r1:7b" -> Named
                       [] n = "qwen2.5:7b" -> Local
                       [] OTHER -> None]
Served == {<<"inkling", "inkling-1">>, <<"deepseek", "deepseek-r1:7b">>,
           <<"ollama", "qwen2.5:7b">>, <<"inkling", "other">>,
           <<"ollama", "other">>}

Plain(text, local) ==
    [text |-> text, pii |-> {}, tokens |-> 1, quota |-> 2, images |-> FALSE,
     tools |-> FALSE, agentic |-> FALSE, local |-> local, sla |-> "any",
     strategy |-> CHOOSE s \in Strategy : TRUE, name |-> "other",
     stream |-> FALSE]

\* Local chat about any prompt; hosted chat, as a stream, as an agent's call
\* and over the quota, about one; and chat that asks for Ollama's model
\* without being local.
MixedRequests ==
    {Plain(t, TRUE) : t \in Prompt}
      \cup {[Plain("p1", FALSE) EXCEPT !.name = "qwen2.5:7b"],
             Plain("p1", FALSE),
             [Plain("p1", FALSE) EXCEPT !.stream = TRUE],
             [Plain("p1", FALSE) EXCEPT !.agentic = TRUE, !.tokens = 3]}

\* Everything that changes the choice.
AnyRequests ==
    {[Plain(t, l) EXCEPT !.pii = p, !.tokens = n, !.quota = 3, !.images = i,
                         !.sla = a, !.name = m] :
        t \in Prompt, l \in BOOLEAN, p \in SUBSET Part, n \in 1..3,
        i \in BOOLEAN, a \in {"any", "fast", "none"}, m \in Name}

\* A chain of prompts, each similar to the next one only.
Chain == {<<p, q>> \in Prompt \X Prompt : {p, q} # {"p1", "p3"}}
Same  == {<<p, p>> : p \in Prompt}

Symmetry == Permutations(Call)
====
