---------------------------- MODULE KernelSelection ----------------------------
(***************************************************************************)
(* The endpoint /kernel/decide (kernel/task_classifier.py,                  *)
(* kernel/model_selector.py, hardware/): a request is classified, and       *)
(* provider, model and precision are chosen for it from what the hardware   *)
(* monitor sampled last.  Memory of cards is in MB as nvidia-smi gives it;  *)
(* free and needed memory are in tenths of GB.                              *)
(***************************************************************************)
EXTENDS Ranking, SequencesExt

CONSTANTS
    Matrix,      \* the table of models: [provider, model, full, int8, int4], the
                 \* memory needed at full precision, at 8 bit and at 4 bit
    Machines,    \* free memory of each card, for each state the machine can be in
    Questions,    \* [hits: patterns found, words, images, tools, local]
    OnMachine,   \* the providers that answer without leaving the machine
    Unknown      \* no sample yet, no decision yet

\* A machine gives the free MB of its cards; quantization saves memory, but not all of
\* it; the table has a model once, and the two that a CPU runs are in it.
ASSUME KernelAssumption ==
    /\ Len(Matrix) \in Nat /\ DOMAIN Matrix = 1 .. Len(Matrix)
    /\ \A i \in DOMAIN Matrix :
          LET m == Matrix[i]
          IN  /\ m.full \in Nat /\ m.int8 \in Nat /\ m.int4 \in Nat
              /\ m.int4 <= m.int8 /\ m.int8 <= m.full
              /\ m.full # 0 => m.int4 # 0
    /\ \A i, j \in DOMAIN Matrix :
          Matrix[i].provider = Matrix[j].provider /\ Matrix[i].model = Matrix[j].model => i = j
    /\ \A name \in {"llama3.2:3b", "llama3.2:1b"} : \E i \in DOMAIN Matrix :
          Matrix[i].provider = "ollama" /\ Matrix[i].model = name /\ Matrix[i].full # 0
    /\ \A cards \in Machines :
          /\ Len(cards) \in Nat /\ DOMAIN cards = 1 .. Len(cards)
          /\ \A i \in DOMAIN cards : cards[i] \in Nat

VARIABLES
    machine,     \* the cards as they are
    current,     \* the last inventory of the monitor
    decision     \* the answer, with its request and the inventory it was made from

kernelVars == <<machine, current, decision>>

-------------------------------------------------------------------------------
(* Classification                                                           *)

\* Mutant: the weaker of two marks is looked for first.
Sensitivity_WeakFirst(r) ==
    IF "internal" \in r.hits THEN "internal"
    ELSE IF "secret" \in r.hits THEN "confidential" ELSE "public"

\* The word "confidential" counts as "internal".
Sensitivity(r) ==
    IF "secret" \in r.hits THEN "confidential"
    ELSE IF "internal" \in r.hits THEN "internal" ELSE "public"

TaskType(r) ==
    IF r.images THEN "multimodal"
    ELSE IF r.tools \/ "code" \in r.hits THEN "tool_use" ELSE "chat"

Complexity(r) ==
    CASE r.words > 500 \/ ("reasoning" \in r.hits /\ r.hits \cap {"research", "code"} # {}) -> "extreme"
      [] r.words > 150 \/ r.hits \cap {"reasoning", "research"} # {} -> "complex"
      [] r.words > 40 -> "moderate"
      [] OTHER -> "trivial"

MultiAgent(c) == c \in {"complex", "extreme"}

ComputeTarget(r) ==
    IF Sensitivity(r) = "confidential" \/ r.local THEN "local_gpu"
    ELSE IF MultiAgent(Complexity(r)) THEN "hybrid" ELSE "api"

Classify(r) ==
    [sensitivity |-> Sensitivity(r), complexity |-> Complexity(r), target |-> ComputeTarget(r),
     coding |-> TaskType(r) = "tool_use" \/ (MultiAgent(Complexity(r)) /\ "code" \in r.hits)]

-------------------------------------------------------------------------------
(* Inventory                                                                *)

\* A card's free MB in tenths of GB, rounded as round() does, half to even.
FreeOf(mb) ==
    LET tenths == (mb * 10) \div 1024
        rest == (mb * 10) % 1024
    IN  IF rest > 512 \/ (rest = 512 /\ tenths % 2 = 1) THEN tenths + 1 ELSE tenths

Total(numbers) ==
    LET sum[k \in 0 .. Len(numbers)] == IF k = 0 THEN 0 ELSE sum[k - 1] + numbers[k]
    IN  sum[Len(numbers)]

FreeMemory(cards) == Total([i \in DOMAIN cards |-> FreeOf(cards[i])])

\* nvidia-smi answers, or is missing, late or failing, which reads as no cards;
\* an Apple machine then counts as a GPU without memory, so as none.
Readings == {machine, <<>>}

-------------------------------------------------------------------------------
(* Selection                                                                *)

\* The rows of the models that take memory, largest first, equals in the order of the
\* table.
BySize ==
    LET order == Descending({i \in DOMAIN Matrix : Matrix[i].full # 0},
                            [i \in DOMAIN Matrix |-> Matrix[i].full])
    IN  [k \in DOMAIN order |-> Matrix[order[k]]]

\* Mutant: the result is left in the order of the table.
Fitting_Unsorted(free, precision) ==
    LET fits(m) == m.full # 0 /\ m[precision] <= free IN SelectSeq(Matrix, fits)

\* models_fitting_vram, with its loop over the table as sorted at its end
Fitting(free, precision) ==
    LET results[k \in 0 .. Len(BySize)] ==
            IF k = 0 THEN <<>>
            ELSE IF BySize[k][precision] <= free
                 THEN Append(results[k - 1], BySize[k])
                 ELSE results[k - 1]
    IN  results[Len(BySize)]

Chosen(precision, models) == [precision |-> precision, models |-> models]

First4(s) == [k \in {i \in DOMAIN s : i <= 4} |-> s[k]]

Named(models) ==
    [i \in DOMAIN models |-> [provider |-> models[i].provider, model |-> models[i].model]]

OnGPU(free) ==
    LET best == CHOOSE p \in {"full", "int8", "int4"} :
                    /\ Fitting(free, p) # <<>>
                    /\ p = "int8" => Fitting(free, "full") = <<>>
                    /\ p = "int4" => Fitting(free, "int8") = <<>>
    IN  Chosen(best, First4(Named(Fitting(free, best))))

OnCPU ==
    Chosen("int4", <<[provider |-> "ollama", model |-> "llama3.2:3b"],
                     [provider |-> "ollama", model |-> "llama3.2:1b"]>>)

\* The hosted models of the selector, by their providers.
InCloud(c) ==
    LET hosts(ps) == Chosen("api", [i \in DOMAIN ps |-> [provider |-> ps[i], model |-> "hosted"]])
    IN  CASE c.complexity = "trivial" -> hosts(<<"groq", "openai">>)
          [] c.complexity = "moderate" /\ c.coding -> hosts(<<"nemotron", "openai", "groq">>)
          [] c.complexity = "moderate" /\ ~c.coding -> hosts(<<"inkling", "openai", "anthropic">>)
          [] c.coding -> hosts(<<"nemotron", "inkling", "anthropic", "openai">>)
          [] c.complexity = "complex" -> hosts(<<"inkling", "deepseek", "anthropic", "openai">>)
          [] OTHER -> hosts(<<"inkling", "deepseek", "anthropic", "gemini">>)

MustLocal(c, force) == force \/ c.sensitivity = "confidential"

\* select_model; a card without free memory is as good as none.
Select(c, cards, force) ==
    LET free == FreeMemory(cards)
    IN  IF /\ free > 0
           /\ MustLocal(c, force) \/ c.target \in {"local_gpu", "hybrid"}
           /\ Fitting(free, "int4") # <<>>
        THEN OnGPU(free)
        ELSE IF MustLocal(c, force) THEN OnCPU ELSE InCloud(c)

-------------------------------------------------------------------------------
(* The monitor and the endpoint                                             *)

KernelInit == machine \in Machines /\ current = Unknown /\ decision = Unknown

\* Models are loaded and unloaded, cards come and go.
MachineChanges ==
    /\ machine' \in Machines \ {machine}
    /\ UNCHANGED <<current, decision>>

\* _loop: an exception is swallowed and leaves the inventory as it is.
SampleNow ==
    /\ current' \in Readings
    /\ UNCHANGED <<machine, decision>>

\* The first sample may not have been taken: then the endpoint takes one.
KernelDecide ==
    /\ \E r \in Questions, cards \in IF current = Unknown THEN Readings ELSE {current} :
           decision' = [request |-> r, cards |-> cards,
                        selection |-> Select(Classify(r), cards, r.local)]
    /\ UNCHANGED <<machine, current>>

\* Bound: a behaviour ends with the first answer, on which no later one depends.
KernelNext ==
    /\ decision = Unknown
    /\ MachineChanges \/ SampleNow \/ KernelDecide

KernelSpec == KernelInit /\ [][KernelNext]_kernelVars

-------------------------------------------------------------------------------
Decided == decision # Unknown
Secret(d) == d.request.local \/ "secret" \in d.request.hits

SizedModels == {m \in Range(Matrix) : m.full > 0}

\* The entries of the table that a decision names.
Entry(e) == {m \in Range(Matrix) : m.provider = e.provider /\ m.model = e.model}

\* A request that asks for local-only, or whose text has a secret, is never given
\* a hosted model, as the first choice or as a fallback, whatever the sample says,
\* fails to say or says no longer: every model of the answer is one of the table
\* that runs in memory of its own.
SecretsAreSelfHosted ==
    (Decided /\ Secret(decision)) =>
        \A e \in Range(decision.selection.models) : Entry(e) \cap SizedModels # {}

\* A choice made for a GPU is the best that fits: nothing fits at a higher
\* precision, nothing that fits is larger, no model is named twice, and each fits
\* into what is free, up to half a tenth per card by which rounding may exceed the
\* truth.  The CPU is the answer only where nothing fits.
ChoiceIsTheBestThatFits ==
    (Decided /\ decision.selection.precision # "api") =>
        LET s == decision.selection
            free == FreeMemory(decision.cards)
            truth == Total(decision.cards)
            higher == CASE s.precision = "full" -> {}
                        [] s.precision = "int8" -> {"full"}
                        [] s.precision = "int4" -> {"full", "int8"}
        IN  IF \A m \in SizedModels : m.int4 > free THEN s = OnCPU
            ELSE /\ \A m \in SizedModels, p \in higher : m[p] > free
                 /\ \A m \in SizedModels, best \in Entry(s.models[1]) :
                       m[s.precision] <= free => m.full <= best.full
                 /\ IsInjective(s.models)
                 /\ \A e \in Range(s.models) : \A m \in Entry(e) :
                       m[s.precision] * 1024 <= truth * 10 + 512 * Len(decision.cards)

\* "Secret/confidential must run locally": every model of the answer to a request
\* whose text has a secret is served on the machine.
SecretsStayOnTheMachine ==
    (Decided /\ "secret" \in decision.request.hits) =>
        \A e \in Range(decision.selection.models) : e.provider \in OnMachine
===============================================================================
