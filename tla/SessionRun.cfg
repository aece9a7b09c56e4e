SPECIFICATION FairSpec
CONSTANTS
    w1 = w1
    w2 = w2
    Workers = {w1, w2}
    Main = main
    MaxSessions = 1
    MaxSteps <- McSteps
    MaxTroubles = 1
    Nodes = {abandon, evaluate}
    Abandon = abandon
    QwenNodes = {evaluate}
    MustAsk = {}
INVARIANTS
    TypeOK
    PublishedInOrder
    RowIsAnnounced
    BrokerCostsNoSession
    OneProducer
    LiveFloorIsTrue
PROPERTY ShutdownEnds
