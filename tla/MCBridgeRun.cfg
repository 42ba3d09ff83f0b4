CONSTANTS
    Interpreters <- MCInterpreters
    Answers <- MCAnswers
SPECIFICATION FairSpec
INVARIANTS
    ClearWasSaid
    NoChildForgotten
PROPERTIES
    QuestionReturns
CHECK_DEADLOCK FALSE
