------------------------------ MODULE TokenLedger ------------------------------
(***************************************************************************)
(* The ledger of used tokens (memory/token_ledger.py, api/v1/tokens.py): a  *)
(* list in memory, and a JSON file that is truncated and written anew after *)
(* each change.  Entries are recorded on the event loop; the handler that   *)
(* clears the ledger is no coroutine, so FastAPI runs it in a thread of its *)
(* pool, and nothing orders the threads between two bytecodes.  Entries are *)
(* numbered as they are recorded.                                           *)
(***************************************************************************)
EXTENDS Integers, SequencesExt

CONSTANTS
    Loop,         \* the event loop
    Pool,         \* the threads that clear
    MaxRecorded,  \* bound: entries ever recorded
    Garbled       \* the content of a file that json.loads refuses

ASSUME LedgerAssumption == Loop \notin Pool /\ MaxRecorded \in Nat

VARIABLES
    entries,    \* token_ledger._entries
    stored,     \* the file: a list, empty also when just truncated, or Garbled
    recorded,   \* entries recorded so far
    work        \* what each thread is doing; alone: it met no other thread

ledgerVars == <<entries, stored, recorded, work>>

Workers == {Loop} \cup Pool

\* After a change and its persisting, which may have failed; both are returns.
Idle == [step |-> "idle"]
Failed == [step |-> "failed"]
Free(w) == work[w] \in {Idle, Failed}

LedgerInit ==
    /\ entries = <<>>
    /\ stored = <<>>
    /\ recorded = 0
    /\ work = [w \in Workers |-> Idle]

Proceeds(w, r) == work' = [work EXCEPT ![w] = r]

\* A thread that has changed the list goes on to _persist; from now on no thread
\* at work is alone.
Persisting(w) ==
    LET others == {v \in Workers \ {w} : ~Free(v)}
    IN  work' = [v \in Workers |->
                    IF v = w THEN [step |-> "dump", list |-> entries', alone |-> others = {}]
                    ELSE IF v \in others THEN [work[v] EXCEPT !.alone = FALSE]
                    ELSE work[v]]

\* TokenLedger.record
Record ==
    /\ Free(Loop)
    /\ recorded < MaxRecorded
    /\ recorded' = recorded + 1
    /\ entries' = Append(entries, recorded')
    /\ Persisting(Loop)
    /\ UNCHANGED stored

\* clear_token_ledger
Clear(w) ==
    /\ w \in Pool
    /\ Free(w)
    /\ entries' = <<>>
    /\ Persisting(w)
    /\ UNCHANGED <<stored, recorded>>

\* Mutant: the entries are dumped as all() lists them, the newest first.
Dumped_Newest(list) == {Reverse(entries)}

\* The list is read entry by entry: where it is cleared and refilled meanwhile,
\* what was read before is followed by what lies beyond it afterwards.
Dumped(list) ==
    {SubSeq(list, 1, k) \o SubSeq(entries, k + 1, Len(entries)) : k \in 0 .. Len(list)}

Dump(w) ==
    /\ work[w].step = "dump"
    /\ \E text \in Dumped(work[w].list) :
          Proceeds(w, [step |-> "open", text |-> text, alone |-> work[w].alone])
    /\ UNCHANGED <<entries, stored, recorded>>

\* Mutant: the file is opened for update and keeps its content.
Truncated_Kept == stored

Truncated == <<>>

Open(w) ==
    /\ work[w].step = "open"
    /\ stored' = Truncated
    /\ Proceeds(w, [work[w] EXCEPT !.step = "write"])
    /\ UNCHANGED <<entries, recorded>>

\* A text over one that another thread has written since: the longer one's end
\* remains.  Of two lists of the same length either text may be the longer one.
Over(text) ==
    CASE stored = Garbled \/ Len(text) = Len(stored) -> {text, Garbled}
      [] Len(text) < Len(stored) -> {Garbled}
      [] OTHER -> {text}

Write(w) ==
    /\ work[w].step = "write"
    /\ stored' \in IF stored = <<>> THEN {work[w].text} ELSE Over(work[w].text)
    /\ Proceeds(w, Idle)
    /\ UNCHANGED <<entries, recorded>>

\* _persist swallows every exception; one in the middle of a write leaves a part.
PersistFails(w) ==
    /\ ~Free(w)
    /\ stored' = stored \/ (work[w].step = "write" /\ stored' = Garbled)
    /\ Proceeds(w, Failed)
    /\ UNCHANGED <<entries, recorded>>

\* The process dies and starts again: _load takes what it cannot read for nothing.
Restart ==
    /\ entries' = IF stored = Garbled THEN <<>> ELSE stored
    /\ work' = [w \in Workers |-> Idle]
    /\ UNCHANGED <<stored, recorded>>

LedgerNext ==
    \/ Record \/ Restart
    \/ \E w \in Workers : Clear(w) \/ Dump(w) \/ Open(w) \/ Write(w) \/ PersistFails(w)

LedgerSpec == LedgerInit /\ [][LedgerNext]_ledgerVars

-------------------------------------------------------------------------------
InOrder(s) == \A i, j \in DOMAIN s : i < j => s[i] < s[j]

\* Whatever threads overlap, writes fail and processes die, neither the list nor a
\* file that can be read ever holds an entry twice or out of order: the table is
\* at worst short of entries, or has back some that were cleared.
EntriesStayInOrder == InOrder(entries) /\ (stored # Garbled => InOrder(stored))

\* A change that is persisted without failing while no other thread is at work
\* leaves the file as the list is, whatever overlaps, failures and crashes have
\* left in it before.
LonePersistHeals ==
    [][\A w \in Workers : (Write(w) /\ work[w].alone) => stored' = entries']_ledgerVars
===============================================================================
