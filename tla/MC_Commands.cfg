SPECIFICATION Spec
CONSTANTS
    t1 = t1
    t2 = t2
    t3 = t3
    p1 = p1
    p2 = p2
    n1 = n1
    none = none
    Task = {t1}
    Persona = {p1}
    PersonaOf <- SoloTask
    Node = {n1}
    Unbound = none
    NodeOf <- OneBound
    UnknownExecutor = {}
    Unnamed = {}
    InvalidHandle = {}
    NativeTask = {t1}
    Commands = {"pause", "cancel", "resume", "retry", "answer"}
    Emits = {"blocked", "completed"}
    MaxRuns = 2
    MaxQueue = 1
INVARIANTS
    TypeOK
    NoLostWakeup
    NoDeafReader
    RunningHasReader
CHECK_DEADLOCK FALSE
