CONSTANTS
    Matrix <- HWMatrix
    Machines <- MachineStates
    Questions <- QuestionKinds
    OnMachine = {"ollama"}
    Unknown = Unknown
    Loop = loop
    Pool = {w1, w2}
    MaxRecorded = 3
    Garbled = Garbled
    SpendProjects = {p1, p2}
    Models = {m1, m2}
    Days = {d1, d2}
    NoProject = NoProject
    MaxSpend = 2
    Validators = {v1, v2}
    SlugOf <- Slugs
    Majors = {1, 2}
    MaxRuns = 3
    Unwritten = Unwritten
    Broken = Broken
    Plans <- TaskPlans
    NoError = NoError
    Clients = {c1, c2}
    MaxRequests = 2
    Keys = {k1}
    Approvals = {a1}
    Projects = {q1}
    Names = {n1, n2}
    Approvers = {e1, e2}
    Documents = {x1, x2}
    Branches = {b1, b2}
    Null = Null
    Absent = Absent
    Terminals = {t1, t2}
    Directories = {r1, r2}
    MaxTyped = 6
    None = None
    MaxPieces = 4
    Registry <- Entries
    Asked <- Lists
    Lengths = {0, 4, 5}
    NotFound = NotFound
    Unanswered = Unanswered
    Characters = {"a", "euro", "enter"}
    Width <- Bytes
    Inputs <- Typings
SPECIFICATION Spec
SYMMETRY Symmetric
CHECK_DEADLOCK FALSE
INVARIANTS
    SecretsAreSelfHosted
    ChoiceIsTheBestThatFits
    EntriesStayInOrder
    BreakdownsDifferByLateRecords
    VersionIsOneRun
    OrdersOrRefuses
    ChangesAreSerial
    VerdictIsOneResolution
    OnlyOverlapsLoseUpdates
    HostedOnlyWhenAsked
    DoneMeansWhole
    AnswerIsOfTheWhole
    PromptIsWhatWasMeant
PROPERTIES
    LonePersistHeals
