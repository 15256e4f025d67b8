----------------------------- MODULE ModelComparison -----------------------------
(***************************************************************************)
(* One question to several models at once (api/v1/compare.py,               *)
(* services/eval_service.py): the models are called concurrently and         *)
(* gathered; the first call that fails answers for all.                      *)
(***************************************************************************)
EXTENDS Ranking, SequencesExt

CONSTANTS
    Registry,    \* the capability registry, a sequence of [provider, model]; a name is
                 \* the sequence of its parts between colons
    Asked,       \* lists of names that are asked for
    Lengths,     \* of answers, in characters
    NotFound,    \* no such model
    Unanswered

ASSUME ComparisonAssumption ==
    /\ Lengths \subseteq Nat
    /\ \A names \in Asked : Len(names) \in Nat /\ DOMAIN names = 1 .. Len(names)
    /\ Unanswered \notin [status : {404, 500}, results : {<<>>}]

VARIABLES
    service,     \* "compare" or "eval"
    models,      \* the models found
    calls,       \* how each call is doing
    ended,       \* history: the calls that ended, in that order
    answer

comparisonVars == <<service, models, calls, ended, answer>>

ComparisonInit ==
    /\ service \in {"compare", "eval"}
    /\ models = <<>> /\ calls = <<>> /\ ended = <<>>
    /\ answer = Unanswered

\* _resolve_model: provider:model first, else any provider's model of that name,
\* which may have colons itself.
Found(name) ==
    LET exact(c) == c.provider = Head(name) /\ c.model = Tail(name)
        named(c) == c.model = name
        hits == SelectSeq(Registry, exact) \o SelectSeq(Registry, named)
    IN  IF hits = <<>> THEN NotFound ELSE Head(hits)

Error(status) == [status |-> status, results |-> <<>>]

\* Comparing takes two models at least.
AskModels ==
    /\ models = <<>> /\ answer = Unanswered
    /\ \E names \in Asked :
          LET found == [i \in DOMAIN names |-> Found(names[i])]
          IN  /\ service = "compare" => Len(names) >= 2
              /\ IF NotFound \in Range(found)
                 THEN answer' = Error(404) /\ UNCHANGED <<models, calls>>
                 ELSE /\ models' = found
                      /\ calls' = [i \in DOMAIN found |-> [state |-> "running"]]
                      /\ UNCHANGED answer
    /\ UNCHANGED <<service, ended>>

\* _score_response
Score(length, finish) ==
    length + CASE finish = "stop" -> 5 [] finish = "stubbed" -> 1 [] OTHER -> 0

\* Everything a call can come to; a ValueError is what a body that is not JSON raises.
Outcomes ==
    [state : {"failed"}, error : {"ValueError", "other"}]
    \cup {[state |-> "answered", score |-> Score(n, f)] : n \in Lengths, f \in {"stop", "stubbed", "length"}}

Succeeded(call) == call.state = "answered"

\* Mutant: results are collected as they come.
Collected_AsTheyCome(done, order) ==
    IF service = "compare" THEN order
    ELSE Descending(DOMAIN done, [i \in DOMAIN done |-> done[i].score])

\* gather lists results as the models were asked for; evaluate then sorts them by
\* score, equals as they are.
Collected(done, order) ==
    IF service = "compare" THEN [i \in DOMAIN done |-> i]
    ELSE Descending(DOMAIN done, [i \in DOMAIN done |-> done[i].score])

\* run_eval answers 404 to any ValueError; what compare does not expect is a 500.
ErrorOf(call) == Error(IF service = "eval" /\ call.error = "ValueError" THEN 404 ELSE 500)

\* After the first failure the other calls go on, and their results are dropped.
CallEnds(i) ==
    /\ calls[i].state = "running"
    /\ \E o \in Outcomes :
          /\ calls' = [calls EXCEPT ![i] = o]
          /\ ended' = Append(ended, i)
          /\ answer' = IF answer # Unanswered THEN answer
                       ELSE IF ~Succeeded(o) THEN ErrorOf(o)
                       ELSE IF \A j \in DOMAIN calls : Succeeded(calls'[j])
                       THEN [status |-> 200, results |-> Collected(calls', ended')]
                       ELSE Unanswered
    /\ UNCHANGED <<service, models>>

ComparisonNext == AskModels \/ \E i \in DOMAIN calls : CallEnds(i)

ComparisonSpec == ComparisonInit /\ [][ComparisonNext]_comparisonVars

-------------------------------------------------------------------------------
\* Whatever order the models answer in, a comparison lists every model in the order
\* in which it was asked, and an evaluation every model from the highest score down,
\* equals in that order; an error is that of the first call to fail, and no answer
\* is given while a call could still change it.
AnswerIsOfTheWhole ==
    LET first(s) == CHOOSE i \in s : \A j \in s : i <= j
        failures == {k \in DOMAIN ended : ~Succeeded(calls[ended[k]])}
        before(i, j) ==
            IF service = "compare" THEN i < j
            ELSE calls[i].score > calls[j].score \/ (calls[i].score = calls[j].score /\ i < j)
    IN  (answer # Unanswered /\ models # <<>>) =>
            IF answer.status = 200
            THEN /\ failures = {} /\ Range(ended) = DOMAIN models
                 /\ Range(answer.results) = DOMAIN models
                 /\ \A x, y \in DOMAIN answer.results :
                       x < y => before(answer.results[x], answer.results[y])
            ELSE /\ failures # {}
                 /\ answer = ErrorOf(calls[ended[first(failures)]])
===============================================================================
