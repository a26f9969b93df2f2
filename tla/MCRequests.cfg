SPECIFICATION Spec
CONSTANTS
    Threads = {t1, t2, t3}
    NoThread = NoThread
    MaxChanges = 2
INVARIANTS
    RequestsTypeOK MemoryIsStore EventsInOrder EventsMatchRows AnswersAreStored
PROPERTIES
    EveryRequestAnswered
