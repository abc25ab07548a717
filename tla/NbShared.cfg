CONSTANTS
    it1 = it1
    it2 = it2
    it3 = it3
    s1 = s1
    s2 = s2
    Iterations = {it1, it2, it3}
    NoObject = NoObject
    Objs <- MCObjs
    Parent <- MCParent
    Acls <- MCAcls
    Anything = NoObject
    Program <- MCProgram
SPECIFICATION Spec
INVARIANTS
    OneOwner
CHECK_DEADLOCK FALSE
