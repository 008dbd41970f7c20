CONSTANTS
    ToolRounds = 3
SPECIFICATION AnswerSpec
CHECK_DEADLOCK FALSE
INVARIANTS
    EveryCallIsAccounted
