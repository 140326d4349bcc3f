\* Producers may send while the beans are being initialised.
SPECIFICATION Spec
CONSTANTS
    b1 = b1
    b2 = b2
    t1 = t1
    t2 = t2
    Producers = {p1, p2}
    Beans = {b1}
    Workers = {w1}
    Topics = {t1}
    TopicOf <- OneBean
    NoQueue = NoQueue
    NoMessage = NoMessage
    QueueMaxSize = 1
    StartupFirst = FALSE
    MaxSends = 2
    MaxErrors = 0
    MaxInterrupts = 0
INVARIANTS FactoryHoldsAllQueues
CHECK_DEADLOCK FALSE
