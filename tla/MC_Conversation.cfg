SPECIFICATION Spec
CONSTANTS
    Contents <- MCContents
    Notes <- MCNotes
    DraftTasks <- MCDraftTasks
    Corrections <- MCCorrections
    Intents = {"ask", "stop", "continue", "what"}
    Outcomes = {"completed", "waiting_user_input"}
    Commands = {"retry", "pause", "cancel"}
    References = {"paris"}
    MaxTasks = 4
    MaxMessages = 2
    MaxWaiting = 1
    MaxTools = 2
    MaxMoves = 3
INVARIANTS OneLiveCopy CreatedIsTold
CHECK_DEADLOCK FALSE
