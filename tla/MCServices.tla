------------------------------- MODULE MCServices -------------------------------
(***************************************************************************)
(* The components that keep to themselves, checked in one run: a behaviour   *)
(* is one of the component it was begun for, so that their states add up     *)
(* instead of multiplying.                                                   *)
(***************************************************************************)
EXTENDS MCKernelSelection, TokenLedger, SpendAnalytics, ContractPipeline, TaskGraph,
        Administration, PackagedCli, ChatStream, ModelComparison, PromptReader, TLC

VARIABLE focus   \* the component whose behaviour this is

requestVars == <<req, sent, adminVars>>

Init ==
    /\ focus \in {"kernel", "ledger", "spend", "contracts", "graph", "admin", "clients",
                 "stream", "comparison", "prompt"}
    /\ machine \in IF focus = "kernel" THEN Machines ELSE {<<>>}
    /\ plan \in IF focus = "graph" THEN Plans ELSE {<<>>}
    /\ KernelInit /\ LedgerInit /\ SpendInit /\ ContractInit /\ GraphInit
    /\ RequestsInit /\ AdminInit /\ PackagedInit /\ StreamInit
    /\ service \in IF focus = "comparison" THEN {"compare", "eval"} ELSE {"eval"}
    /\ ComparisonInit
    /\ input \in IF focus = "prompt" THEN Inputs ELSE {<<>>}
    /\ PromptInit

Step(name, others) == focus = name /\ UNCHANGED <<focus, others>>

Next ==
    \/ /\ Step("kernel", <<ledgerVars, spendVars, contractVars, graphVars,
                          requestVars, packagedVars, streamVars, comparisonVars, promptVars>>)
       /\ KernelNext
    \/ /\ Step("ledger", <<kernelVars, spendVars, contractVars, graphVars,
                          requestVars, packagedVars, streamVars, comparisonVars, promptVars>>)
       /\ LedgerNext
    \/ /\ Step("spend", <<kernelVars, ledgerVars, contractVars, graphVars,
                         requestVars, packagedVars, streamVars, comparisonVars, promptVars>>)
       /\ SpendNext
    \/ /\ Step("contracts", <<kernelVars, ledgerVars, spendVars, graphVars,
                             requestVars, packagedVars, streamVars, comparisonVars, promptVars>>)
       /\ ContractNext
    \/ /\ Step("graph", <<kernelVars, ledgerVars, spendVars, contractVars,
                         requestVars, packagedVars, streamVars, comparisonVars, promptVars>>)
       /\ GraphNext
    \/ /\ Step("admin", <<kernelVars, ledgerVars, spendVars, contractVars,
                         graphVars, packagedVars, streamVars, comparisonVars, promptVars>>)
       /\ \E c \in Clients : AdminNext(c)
    \/ /\ Step("clients", <<kernelVars, ledgerVars, spendVars, contractVars,
                           graphVars, requestVars, streamVars, comparisonVars, promptVars>>)
       /\ PackagedNext
    \/ /\ Step("stream", <<kernelVars, ledgerVars, spendVars, contractVars,
                          graphVars, requestVars, packagedVars, comparisonVars, promptVars>>)
       /\ StreamNext
    \/ /\ Step("comparison", <<kernelVars, ledgerVars, spendVars, contractVars,
                              graphVars, requestVars, packagedVars, streamVars, promptVars>>)
       /\ ComparisonNext
    \/ /\ Step("prompt", <<kernelVars, ledgerVars, spendVars, contractVars, graphVars,
                          requestVars, packagedVars, streamVars, comparisonVars>>)
       /\ PromptNext

Spec ==
    Init /\ [][Next]_<<focus, kernelVars, ledgerVars, spendVars, contractVars,
                       graphVars, requestVars, packagedVars, streamVars, comparisonVars,
                       promptVars>>

-------------------------------------------------------------------------------
\* Two sources of one folder that get the same file names.
Slugs == [s \in {"a b.md", "a-b.md"} |-> "a-b"]

\* Plans of up to three tasks: unknown, doubled and circular names among them.
TaskNames == {"a", "b", "c"}
Dependencies ==
    {<<>>} \cup {<<x>> : x \in TaskNames} \cup {<<"a", "a">>, <<"a", "b">>, <<"b", "c">>, <<"c", "a">>}
TaskPlans ==
    UNION {[1 .. n -> [name : TaskNames, dependencies : Dependencies]] : n \in 0 .. 3}

\* The registry has no model twice; the name of one has a colon, and one provider
\* has the name of a model.
Entries ==
    <<[provider |-> "mistral", model |-> <<"large">>],
      [provider |-> "ollama", model |-> <<"llama", "1b">>], [provider |-> "ollama", model |-> <<"mistral">>]>>
Lists ==
    LET names == {<<"large">>, <<"ollama", "mistral">>, <<"llama", "1b">>, <<"mistral", "7b">>}
    IN  UNION {[1 .. n -> names] : n \in 1 .. 2} \cup
        {<<<<"mistral">>, <<"llama", "1b">>, <<"mistral", "large">>>>}

\* What is done at a terminal, with a character of three bytes: up to two acts and one
\* that ends the prompt, or a paste, an act, a Backspace and Enter.
Bytes == [c \in Characters |-> IF c = "euro" THEN 3 ELSE 1]
SmallActs ==
    [type : {"enter", "backspace", "escape", "arrow", "end", "interrupt"}, text : {<<>>}]
    \cup [type : {"key"}, text : {<<"a">>, <<"euro">>}]
    \cup [type : {"paste"}, text : {<<>>, <<"euro", "enter">>}]
Bare(type) == [type |-> type, text |-> <<>>]
Typings ==
    {<<>>} \cup
    {Append(acts, Bare(type)) :
        acts \in UNION {[1 .. n -> SmallActs] : n \in 0 .. 2},
        type \in {"enter", "end", "interrupt"}}
    \cup
    {<<p, u, Bare("backspace"), Bare("enter")>> :
        p \in {v \in SmallActs : v.type = "paste"}, u \in SmallActs}

Symmetric == UNION {Permutations(S) : S \in {Clients, Terminals, Directories}}
===============================================================================
