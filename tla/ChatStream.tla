------------------------------- MODULE ChatStream -------------------------------
(***************************************************************************)
(* A streamed answer on its way from a provider through the adapter         *)
(* (providers/ollama_adapter.py, providers/_base_http.py), stream_route and  *)
(* the endpoints (api/v1/chat.py, api/v1/openai_compat.py) to a client, such *)
(* as stream_chat of scripts/xyntra_host_cli.py.  The status 200 is sent     *)
(* before the provider is asked, so all that a client is told about the      *)
(* outcome is how the stream ends.  Pieces of text are numbered.             *)
(***************************************************************************)
EXTENDS Integers, SequencesExt

CONSTANT MaxPieces   \* bound: pieces of an answer

ASSUME StreamAssumption == MaxPieces \in Nat

VARIABLES
    source,     \* pieces sent, those among them that could be read, and the end
    outcome,    \* what the circuit breaker was told
    wire,       \* events under way to the client
    endpoint,   \* the connection as the server sees it
    reader      \* what the client has read, and whether it saw the last event

streamVars == <<source, outcome, wire, endpoint, reader>>

StreamInit ==
    /\ source = [pieces |-> 0, readable |-> <<>>, end |-> "none"]
    /\ outcome = "none"
    /\ wire = <<>>
    /\ endpoint = "idle"
    /\ reader = [state |-> "idle", text |-> <<>>, done |-> FALSE]

\* The first event: the decision, or a chunk with a role and no text.
Opening == <<[event |-> "opening"]>>

Chunk(k) == [event |-> "chunk", piece |-> k]
Done == [event |-> "done"]

Opens(adapter) ==
    /\ endpoint = "idle"
    /\ endpoint' = adapter
    /\ reader' = [reader EXCEPT !.state = "reading"]
    /\ wire' = Opening
    /\ UNCHANGED <<source, outcome>>

\* /chat and /v1/chat/completions; the adapter reads the provider's stream piece by
\* piece, or waits for the whole answer.
OpenChat == \E adapter \in {"stream", "whole"} : Opens(adapter)

\* Routing refuses the request with a 400, or there is no connection at all:
\* stream_chat prints it and returns no text, which is an end like any other.
RefuseChat ==
    /\ endpoint = "idle"
    /\ endpoint' = "broken"
    /\ reader' = [reader EXCEPT !.state = "ended"]
    /\ UNCHANGED <<source, outcome, wire>>

\* The wire once the answer is complete; a generator that was ended by an exception
\* sends nothing more.
\* Mutant: the last event is sent in a finally clause.
Closing_Always(complete) == Append(wire, Done)

Closing(complete) == IF complete THEN Append(wire, Done) ELSE wire

\* How stream_route and the endpoint end: an exception is counted and passed on,
\* and the connection is closed in the middle of the response.
Ends(complete) ==
    /\ outcome' = IF complete THEN "success" ELSE "failure"
    /\ wire' = Closing(complete)
    /\ endpoint' = IF complete THEN "finished" ELSE "broken"
    /\ UNCHANGED reader

\* OllamaAdapter._stream_response: a line that is no JSON is skipped.
RelayLine ==
    /\ endpoint = "stream"
    /\ source.pieces < MaxPieces
    /\ LET k == source.pieces + 1
       IN  \/ /\ source' = [source EXCEPT !.pieces = k, !.readable = Append(@, k)]
              /\ wire' = Append(wire, Chunk(k))
           \/ /\ source' = [source EXCEPT !.pieces = k]
              /\ UNCHANGED wire
    /\ UNCHANGED <<outcome, endpoint, reader>>

\* The provider says that it is done; or its stream ends without a word, or with a
\* line that reports an error and has neither text nor "done", which looks the same.
ProviderEnds ==
    /\ endpoint = "stream"
    /\ \E end \in {"done", "silent"} : source' = [source EXCEPT !.end = end]
    /\ Ends(TRUE)

\* HttpProviderAdapter.stream where nothing can be streamed: the whole answer, which
\* may be empty, is one piece.
AnswerWhole ==
    /\ endpoint = "whole"
    /\ \/ /\ source' = [source EXCEPT !.end = "done"]
          /\ wire' = Append(wire, Done)
       \/ /\ source' = [source EXCEPT !.pieces = 1, !.readable = <<1>>, !.end = "done"]
          /\ wire' = Append(Append(wire, Chunk(1)), Done)
    /\ outcome' = "success"
    /\ endpoint' = "finished"
    /\ UNCHANGED reader

\* An error status, a connection that breaks, a late answer.
ProviderFails ==
    /\ endpoint \in {"stream", "whole"}
    /\ source' = [source EXCEPT !.end = "cut"]
    /\ Ends(FALSE)

\* stream_chat: only pieces of text count.
ReadEvent ==
    /\ reader.state = "reading"
    /\ wire # <<>>
    /\ LET e == Head(wire)
       IN  reader' = [reader EXCEPT !.text = IF e.event = "chunk" THEN Append(@, e.piece) ELSE @,
                                    !.done = e = Done]
    /\ wire' = Tail(wire)
    /\ UNCHANGED <<source, outcome, endpoint>>

\* The end of the response; http.client takes a connection that is closed between
\* two chunks for it too.
StreamEnds ==
    /\ reader.state = "reading"
    /\ wire = <<>>
    /\ endpoint \in {"finished", "broken"}
    /\ reader' = [reader EXCEPT !.state = "ended"]
    /\ UNCHANGED <<source, outcome, wire, endpoint>>

\* The connection between server and client breaks with what is under way: the
\* client reads an end, or fails in the middle of a chunk or after 180 seconds of
\* silence, and the server's generator is closed, which counts as no outcome.
ConnectionBreaks ==
    /\ reader.state = "reading"
    /\ \E state \in {"ended", "died"} : reader' = [reader EXCEPT !.state = state]
    /\ wire' = <<>>
    /\ endpoint' = "broken"
    /\ UNCHANGED <<source, outcome>>

\* chat_once stores what it has as the answer of the assistant.
KeepAnswer ==
    /\ reader.state = "ended"
    /\ reader' = [reader EXCEPT !.state = "kept"]
    /\ UNCHANGED <<source, outcome, wire, endpoint>>

StreamNext ==
    \/ OpenChat \/ RefuseChat \/ RelayLine \/ ProviderEnds \/ AnswerWhole \/ ProviderFails
    \/ ReadEvent \/ StreamEnds \/ ConnectionBreaks \/ KeepAnswer

StreamSpec == StreamInit /\ [][StreamNext]_streamVars

-------------------------------------------------------------------------------
\* A client that has seen the last event has every piece that could be read, and
\* the call counts as a success: no failure of the provider, however late, and no
\* break of the connection is followed by it.  What any other client has, and
\* keeps, is the beginning of the same text: possibly not all of it, although
\* nothing in the kept message says so, but never with a piece missing in between.
DoneMeansWhole ==
    /\ IsPrefix(reader.text, source.readable)
    /\ reader.done =>
          /\ reader.text = source.readable /\ outcome = "success"
          /\ source.end \in {"done", "silent"}
===============================================================================
