SPECIFICATION Spec
CONSTANTS
    Thread = {t1, t2}
    Handle = {h1, h2}
    MayFail = FALSE
    Orderly = FALSE
INVARIANT OpenMeansUp
CHECK_DEADLOCK FALSE
