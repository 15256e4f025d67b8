CONSTANTS
    Matrix <- HWMatrix
    Machines <- LargeMachine
    Questions <- QuestionKinds
    OnMachine = {"ollama"}
    Unknown = Unknown
SPECIFICATION KernelSpec
CHECK_DEADLOCK FALSE
INVARIANT SecretsStayOnTheMachine
