CONSTANTS
    Interpreters <- MCInterpreters
    Answers <- MCAnswers
SPECIFICATION Spec
INVARIANTS
    TimeoutIsUnknown
CHECK_DEADLOCK FALSE
