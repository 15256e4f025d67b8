--------------------------- MODULE ArtifactVersions ---------------------------
(***************************************************************************)
(* Versioned artifacts: a row in the database and a text file named after   *)
(* its version (services/artifact_service.py, artifacts/versioning.py,      *)
(* artifacts/storage.py).  The version is max + 1, the file is written      *)
(* before the row is inserted, and neither is protected from another save.  *)
(***************************************************************************)
EXTENDS Requests

CONSTANT Artifacts    \* the names under which artifacts of a project are saved

VARIABLES
    rows,         \* the committed versions of each artifact
    file,         \* file[a][v]: what v<v>.txt of the artifact holds
    published     \* the saves an artifact.created event was stored for

Versions == 1 .. Cardinality(Tickets)
NoFile == [state |-> "missing"]

ArtifactsInit ==
    /\ rows = [a \in Artifacts |-> {}]
    /\ file = [a \in Artifacts |-> [v \in Versions |-> NoFile]]
    /\ published = {}

\* "seen" is history: the saves whose rows were committed when this one was sent.
CreateArtifact(c, a) ==
    /\ Start(c, [op |-> "save", step |-> "max", artifact |-> a, who |-> NextTicket(c),
                 seen |-> {r.who : r \in rows[a]}])
    /\ UNCHANGED <<rows, file, published>>

\* Mutant: the latest version is saved over once there is one.
NextArtifactVersion_NoIncrement(a) == Max({1} \cup {r.version : r \in rows[a]})

NextArtifactVersion(a) == Max({0} \cup {r.version : r \in rows[a]}) + 1

Saving(c, step, version) ==
    [op |-> "save", step |-> step, artifact |-> req[c].artifact, who |-> req[c].who,
     seen |-> req[c].seen, version |-> version]

ReadMaxVersion(c) ==
    /\ At(c, "save", "max")
    /\ Goto(c, Saving(c, "write", NextArtifactVersion(req[c].artifact)))
    /\ UNCHANGED <<rows, file, published>>

\* write_text truncates the file and fills it; a process that dies in between
\* leaves it torn.  Nothing else of the process runs between the two.
SaveText(c) ==
    /\ At(c, "save", "write")
    /\ \E state \in {"whole", "torn"} :
         /\ file' = [file EXCEPT ![req[c].artifact][req[c].version] =
                       [state |-> state, who |-> req[c].who, seen |-> req[c].seen]]
         /\ IF state = "whole"
              THEN Goto(c, Saving(c, "insert", req[c].version))
              ELSE Finish(c)
    /\ UNCHANGED <<rows, published>>

InsertArtifact(c) ==
    /\ At(c, "save", "insert")
    /\ rows' = [rows EXCEPT ![req[c].artifact] = @ \cup
                  {[version |-> req[c].version, who |-> req[c].who]}]
    /\ Goto(c, Saving(c, "emit", req[c].version))
    /\ UNCHANGED <<file, published>>

EmitCreated(c) ==
    /\ At(c, "save", "emit")
    /\ published' = published \cup {<<req[c].artifact, req[c].who>>}
    /\ Finish(c)
    /\ UNCHANGED <<rows, file>>

ArtifactsNext(c) ==
    \/ \E a \in Artifacts : CreateArtifact(c, a)
    \/ ReadMaxVersion(c)
    \/ SaveText(c)
    \/ InsertArtifact(c)
    \/ EmitCreated(c)

-------------------------------------------------------------------------------
ArtifactsTypeOK ==
    /\ \A a \in Artifacts : rows[a] \subseteq [version : Versions, who : Tickets]
    /\ \A a \in Artifacts : \A v \in Versions :
         file[a][v].state \in {"missing", "whole", "torn"}
    /\ published \subseteq Artifacts \X Tickets

\* Every committed version has its file, and the file is whole unless a save that
\* overlapped this one tore it: save_version writes first and commits last, so a
\* save that dies leaves a stray file, never a row export or diff cannot read.
RowsHaveFiles ==
    \A a \in Artifacts : \A r \in rows[a] :
        /\ file[a][r.version] # NoFile
        /\ file[a][r.version].who = r.who => file[a][r.version].state = "whole"

\* The file of a committed version is touched only by saves already under way when
\* it was committed: whoever saves afterwards, however many saves died meanwhile,
\* writes a file of its own.
LaterSavesLeaveFilesAlone ==
    \A a \in Artifacts : \A r \in rows[a] :
        file[a][r.version] # NoFile => r.who \notin file[a][r.version].seen

\* What a committed version may be relied on for: its file is there, and only saves
\* that overlapped its own can have torn or replaced it.
RowsKeepTheirFiles == RowsHaveFiles /\ LaterSavesLeaveFilesAlone
===============================================================================
