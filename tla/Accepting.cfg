SPECIFICATION LiveSpec
CONSTANTS
    Conns = {c1}
    Listeners = {l1, l2}
    None = None
    NoScheme = NoScheme
    Sums = {0, 759}
    Buffer = 1
    SkipClient = FALSE
    SkipServer = FALSE
INVARIANTS TypeOK InStep HandshakesSucceed
PROPERTIES HandlersEnd HandshakesEnd ServeReturns
CHECK_DEADLOCK FALSE
