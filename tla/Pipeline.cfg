SPECIFICATION Spec
CONSTANTS
    t1 = t1
    t2 = t2
    o1 = o1
    o2 = o2
    Null = null
    Threads = {t1, t2}
    Objects <- MCObjects
    Number <- MCNumber
    Calls <- MCCalls
    MaxLines = 3
    Word = 16
    Idle = idle
    Returning = returning
INVARIANTS Accepted HistoryRead UsesInOrder
PROPERTY ReadToEnd
