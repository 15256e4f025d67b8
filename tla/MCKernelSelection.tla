---- MODULE MCKernelSelection ----
EXTENDS KernelSelection

Row(provider, model, full, int8, int4) ==
    [provider |-> provider, model |-> model, full |-> full, int8 |-> int8, int4 |-> int4]

\* The models that take memory, and those that are only reached through an API.
Sized == <<
    Row("ollama", "llama3.2:1b", 20, 10, 8),
    Row("ollama", "llama3.2:3b", 40, 20, 15),
    Row("ollama", "llama3.2:11b", 160, 100, 70),
    Row("ollama", "llama3.2:90b", 900, 500, 300),
    Row("ollama", "llama3.3:70b", 700, 400, 220),
    Row("ollama", "llama3.1:8b", 100, 60, 40),
    Row("ollama", "llama3.1:70b", 700, 400, 220),
    Row("ollama", "llama3.1:405b", 4000, 2200, 1100),
    Row("ollama", "qwen2.5:7b", 80, 50, 35),
    Row("ollama", "qwen2.5:14b", 160, 90, 60),
    Row("ollama", "qwen2.5:32b", 320, 180, 120),
    Row("ollama", "qwen2.5:72b", 720, 400, 240),
    Row("ollama", "qwen2.5-coder:7b", 80, 50, 35),
    Row("ollama", "qwen2.5-coder:32b", 320, 180, 120),
    Row("ollama", "phi4:14b", 160, 90, 60),
    Row("ollama", "gemma3:27b", 280, 160, 100),
    Row("ollama", "deepseek-r1:7b", 80, 50, 35),
    Row("ollama", "deepseek-r1:14b", 160, 90, 60),
    Row("ollama", "deepseek-r1:32b", 320, 180, 120),
    Row("ollama", "deepseek-r1:70b", 700, 400, 220),
    Row("nemotron", "nemotron-4-340b-instruct", 3400, 1800, 900),
    Row("nemotron", "llama-3.1-nemotron-70b-instruct", 700, 400, 220),
    Row("nemotron", "llama-3.1-nemotron-8b-instruct", 100, 60, 40) >>

Remote == <<
    <<"anthropic", "claude-opus-4-7">>, <<"anthropic", "claude-sonnet-4-6">>,
    <<"openai", "gpt-4o">>, <<"gemini", "gemini-2.5-pro">>, <<"grok", "grok-3">>,
    <<"groq", "llama-3.3-70b-versatile">>, <<"inkling", "inkling-1">>, <<"inkling",
    "inkling-1-mini">>, <<"nemotron", "nemotron-4-340b-instruct-api">>, <<"qwen",
    "qwen-max">>, <<"qwen", "qwen-plus">>, <<"qwen", "qwen-turbo">>, <<"qwen",
    "qwen2.5-72b-instruct">> >>

HWMatrix == Sized \o [i \in DOMAIN Remote |-> Row(Remote[i][1], Remote[i][2], 0, 0, 0)]

\* Free MB around the thresholds of the table, on one card and on two: nothing, too
\* little for any model, enough at 4 bit only, at 8 bit only, and for the small, the
\* middle-sized and the largest models; 102 MB on each of two cards is 0.2 GB when
\* rounded card by card and less than that when added first.
MachineStates ==
    {<<>>, <<0>>, <<768>>, <<870>>, <<1024>>, <<2047>>, <<10188, 10188>>, <<71680>>,
     <<348160>>, <<204800, 204800>>}

\* Eight cards with 45 GB free each.
LargeMachine == {[i \in 1 .. 8 |-> 46080]}

QuestionKinds ==
    [hits : SUBSET {"secret", "internal", "code", "research", "reasoning"},
     words : {40, 41, 150, 151, 500, 501}, images : BOOLEAN, tools : BOOLEAN, local : BOOLEAN]
====
