SPECIFICATION Spec
CONSTANTS
    Requests = {s1, c1, c2}
    Operations = {s1}
    Collect = {c1, c2}
    HttpWorkers = {w1, w2}
    AsyncWorkers = {a1}
    MaxDepth = 1
    Late = {w2}
    None = None
    NoOp = NoOp
INVARIANTS QueueOutlivesThreads NoRequestStranded ResultDeliveredOnce
    ReportedIsDone ClosedIsQuiet
PROPERTIES EveryRequestAnswered EveryOperationEnds ShutdownCompletes
CHECK_DEADLOCK FALSE
