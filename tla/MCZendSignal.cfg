SPECIFICATION FairSpec
CONSTANTS
    Signals = {SIGPROF, SIGTERM}
    QueueSize = 2
    MaxDepth = 2
    MaxSignals = 3
    MaxRequests = 2
    Installs <- MCInstalls
    Builds <- MCBuilds
INVARIANTS TypeOK NodesPartitioned OwedIsQueued NoHandlerInCriticalSection
PROPERTIES FifoDelivery DeferredIsHandled
CHECK_DEADLOCK FALSE
