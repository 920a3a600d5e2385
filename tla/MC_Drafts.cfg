SPECIFICATION Spec
CONSTANTS
    Client = {c1}
    MaxLag = 2
    Text = {t1, t2}
    Vague = {t2}
    Stamp = {1, 2}
    Interval = 1
    Entry = {"append", "text", "partial", "final"}
    Label = {"delegation", "draft_correction", "confirmation", "clear_draft", "task_control", "other"}
    MaxCalls = 2
    MaxClicks = 2
INVARIANTS ConfirmedIsSent TurnsAreInDraft ShownAtRest PromptedOncePerRevision
CHECK_DEADLOCK FALSE
