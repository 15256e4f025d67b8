---------------------------- MODULE ContractPipeline ----------------------------
(***************************************************************************)
(* The contract validation pipeline (services/contract_validation_service.py *)
(* and the command of xyntra_cli.py that starts it): three models refine a   *)
(* document one after the other, then the contract, its release notes and    *)
(* an audit are written as files of one version.  Several terminals may run  *)
(* it on sources of the same folder.                                         *)
(***************************************************************************)
EXTENDS Integers, FiniteSets, Sequences

CONSTANTS
    Validators,   \* terminals
    SlugOf,       \* the sources, each with what _slugify makes of its name
    Majors,       \* major versions asked for
    MaxRuns,      \* bound: runs
    Unwritten,       \* no such file
    Broken        \* a file whose write was cut short

ASSUME ContractAssumption == MaxRuns \in Nat

VARIABLES
    files,      \* the files, each with the run whose text it holds
    job,        \* what each terminal is doing
    runs,       \* runs so far; they are numbered
    disturbed   \* history: targets whose last writers overlapped or were cut short

contractVars == <<files, job, runs, disturbed>>

Kinds == {"contract", "notes", "audit"}
Targets == {<<SlugOf[s], n>> : s \in DOMAIN SlugOf, n \in Majors}

\* Mutant: the release notes are named without the version.
PathOf_Unversioned(target, kind) ==
    IF kind = "notes" THEN <<target[1], kind>> ELSE <<target[1], target[2], kind>>

PathOf(target, kind) == <<target[1], target[2], kind>>

Resting == [step |-> "idle"]

ContractInit ==
    /\ files = [p \in {PathOf(t, k) : t \in Targets, k \in Kinds} |-> Unwritten]
    /\ job = [v \in Validators |-> Resting]
    /\ runs = 0
    /\ disturbed = {}

Advance(v, step) == job' = [job EXCEPT ![v].step = step]

\* handle_contract_validation_command: wrong options and a source that is missing
\* or blank end the command before it does anything.
Validate(v) ==
    /\ job[v] = Resting
    /\ runs < MaxRuns
    /\ runs' = runs + 1
    /\ \E s \in DOMAIN SlugOf, n \in Majors :
          job' = [job EXCEPT ![v] = [step |-> "chatgpt", run |-> runs', target |-> <<SlugOf[s], n>>]]
    /\ UNCHANGED <<files, disturbed>>

\* _run_openai_compatible_stage, for the first two models
RefineStage(v) ==
    /\ \/ job[v].step = "chatgpt" /\ Advance(v, "kimi")
       \/ job[v].step = "kimi" /\ Advance(v, "claude")
    /\ UNCHANGED <<files, runs, disturbed>>

Writing(v) == job[v].step \in Kinds

\* The terminals that are between their first file of this target and their last.
Writers(target) == {v \in Validators : Writing(v) /\ job[v].target = target}

\* _run_claude_stage and _parse_final_output: its text has both parts.
ClaudeStage(v) ==
    /\ job[v].step = "claude"
    /\ Advance(v, "contract")
    /\ disturbed' = IF Writers(job[v].target) # {} THEN disturbed \cup {job[v].target}
                    ELSE disturbed \ {job[v].target}
    /\ UNCHANGED <<files, runs>>

\* No key, no model, an error or an empty answer of the API, a missing marker; or
\* the terminal is closed.
StageFails(v) ==
    /\ job[v].step \in {"chatgpt", "kimi", "claude"}
    /\ job' = [job EXCEPT ![v] = Resting]
    /\ UNCHANGED <<files, runs, disturbed>>

After(kind) == CASE kind = "contract" -> "notes" [] kind = "notes" -> "audit"

WriteFileOf(v) ==
    /\ Writing(v)
    /\ files' = [files EXCEPT ![PathOf(job[v].target, job[v].step)] = job[v].run]
    /\ IF job[v].step = "audit" THEN job' = [job EXCEPT ![v] = Resting]
       ELSE Advance(v, After(job[v].step))
    /\ UNCHANGED <<runs, disturbed>>

\* The disk is full or the terminal is closed: what was there is lost, or not yet.
WriteCut(v) ==
    /\ Writing(v)
    /\ \E left \in {Broken, files[PathOf(job[v].target, job[v].step)]} :
          files' = [files EXCEPT ![PathOf(job[v].target, job[v].step)] = left]
    /\ job' = [job EXCEPT ![v] = Resting]
    /\ disturbed' = disturbed \cup {job[v].target}
    /\ UNCHANGED runs

ContractNext ==
    \E v \in Validators :
        \/ Validate(v) \/ RefineStage(v) \/ ClaudeStage(v) \/ StageFails(v)
        \/ WriteFileOf(v) \/ WriteCut(v)

ContractSpec == ContractInit /\ [][ContractNext]_contractVars

-------------------------------------------------------------------------------
\* The three files of a version are of one run, or none is there: runs for other
\* versions and other sources, and runs that fail before they have a result, leave
\* it alone.  Only writers of the same version that overlapped, or a write cut
\* short, mix it, and the next run that writes alone makes it whole again.
VersionIsOneRun ==
    \A t \in Targets :
        (t \notin disturbed /\ Writers(t) = {}) =>
            Cardinality({files[PathOf(t, k)] : k \in Kinds}) = 1
===============================================================================
