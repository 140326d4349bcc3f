\* Two topics with a bean each; one of the consumer tasks may die.
SPECIFICATION FairSpec
CONSTANTS
    b1 = b1
    b2 = b2
    t1 = t1
    t2 = t2
    Producers = {p1, p2}
    Beans = {b1, b2}
    Workers = {w1, w2}
    Topics = {t1, t2}
    TopicOf <- TwoBeans
    NoQueue = NoQueue
    NoMessage = NoMessage
    QueueMaxSize = 2
    StartupFirst = TRUE
    MaxSends = 2
    MaxErrors = 1
    MaxInterrupts = 1
INVARIANTS FactoryHoldsAllQueues NoMessageIsStranded TakenInSendOrder
PROPERTIES ImplementsTopicQueues SendReturns AcceptedIsTaken
\* A behaviour ends when every producer has sent MaxSends messages.
CHECK_DEADLOCK FALSE
