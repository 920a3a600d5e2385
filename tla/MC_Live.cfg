SPECIFICATION FairSpec
CONSTANTS
    t1 = t1
    t2 = t2
    t3 = t3
    p1 = p1
    p2 = p2
    n1 = n1
    none = none
    Task = {t1, t2, t3}
    Persona = {p1, p2}
    PersonaOf <- ThreeTasks
    Node = {n1}
    Unbound = none
    NodeOf <- OneAway
    UnknownExecutor = {t3}
    Unnamed = {}
    InvalidHandle = {}
    NativeTask = {}
    Commands = {"agent_event"}
    Emits = {"completed"}
    MaxRuns = 2
    MaxQueue = 1
INVARIANTS
    OneStreamPerTask
PROPERTIES
    RunnableTasksStart
    ParkedTasksResume
CHECK_DEADLOCK FALSE
