SPECIFICATION Spec
CONSTANTS
    t1 = t1
    t2 = t2
    t3 = t3
    p1 = p1
    p2 = p2
    n1 = n1
    none = none
    Task = {t1, t2}
    Persona = {p1}
    PersonaOf <- OnePersona
    Node = {n1}
    Unbound = none
    NodeOf <- OneBound
    UnknownExecutor = {}
    Unnamed = {t2}
    InvalidHandle = {t2}
    NativeTask = {t1}
    Commands = {"cancel"}
    Emits = {"progress", "blocked", "completed", "failed", "cancelled"}
    MaxRuns = 3
    MaxQueue = 2
INVARIANTS
    PersonaBusyWhileActive
    OneActiveTaskPerPersona
    NoQuestionForCancelled
PROPERTIES
    CancelSticky
CHECK_DEADLOCK FALSE
