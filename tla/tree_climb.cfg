CONSTANTS
    Workers = {1, 2, 3}
    Trees <- ClimbTrees
    Infinity = 9
SPECIFICATION Spec
INVARIANTS
    ClimbsAddUp
    OpenPartAgrees
    ClimbsAreApart
CHECK_DEADLOCK FALSE
