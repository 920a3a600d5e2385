SPECIFICATION TimelineSpec
CONSTANTS
    Requests = {q1, q2}
    Typed = {q1}
    MaxTurns = 1
    Nil = Nil
    Scripts <- MCScripts
    MaxPages = 1
    MaxGaps = 1
    MaxLag = 3
CHECK_DEADLOCK FALSE
INVARIANTS CommentaryIsNoAnswer AnswerAtRest OneBubblePerTurn
PROPERTIES SettledStays
