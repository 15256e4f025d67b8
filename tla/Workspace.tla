------------------------------- MODULE Workspace -------------------------------
(***************************************************************************)
(* The record services composed: clients send requests to all of them, and  *)
(* the steps of the handlers interleave in the one API process.             *)
(***************************************************************************)
EXTENDS SessionLog, ArtifactVersions, PromptVersions

sessionVars == <<log, origin, announced>>
artifactVars == <<rows, file, published>>
vars == <<req, sent, sessionVars, artifactVars, prompts>>

Init == RequestsInit /\ SessionsInit /\ ArtifactsInit /\ PromptsInit

Next ==
    \E c \in Clients :
        \/ SessionsNext(c) /\ UNCHANGED <<artifactVars, prompts>>
        \/ ArtifactsNext(c) /\ UNCHANGED <<sessionVars, prompts>>
        \/ PromptsNext(c) /\ UNCHANGED <<sessionVars, artifactVars>>
        \/ Fail(c) /\ UNCHANGED <<sessionVars, artifactVars, prompts>>

Spec == Init /\ [][Next]_vars

-------------------------------------------------------------------------------
TypeOK ==
    /\ \A c \in Clients : sent[c] \in 0 .. MaxRequests
    /\ \A c \in Clients : req[c].op \in {"none", "post", "branch", "save", "prompt"}
    /\ SessionsTypeOK
    /\ ArtifactsTypeOK
    /\ PromptsTypeOK

===============================================================================
