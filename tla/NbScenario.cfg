CONSTANTS
    a = a
    b = b
    Iterations = {a, b}
    NoObject = NoObject
    Objs <- MCObjs
    Parent <- MCParent
    Acls <- MCAcls
    Anything = NoObject
    Program <- MCProgram
SPECIFICATION Spec
INVARIANTS
    TypeOK
    CleanBetweenMethods
    NothingLost
    ExecutedOrWaiting
    HandlesComplete
    ReturnedIterationLeavesItsHandles
PROPERTIES
    ImplementsLedger
    AnswersCoverAllIssued
CHECK_DEADLOCK FALSE
