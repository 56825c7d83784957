SPECIFICATION FairSpec
CONSTANTS
    Thread = {t1, t2}
    Handle = {h1, h2}
    MayFail = TRUE
    Orderly = TRUE
INVARIANTS LibraryUp OneRequest HandleOutlivesItsThread QuietLibrary
PROPERTY EveryCallReturns
CHECK_DEADLOCK FALSE
