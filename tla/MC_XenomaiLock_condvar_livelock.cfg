\* The condvar may be built before Xenomai is initialised; the consumer
\* waits on it in a predicate loop.
CONSTANTS
    p1 = p1
    c1 = c1
    d1 = d1
    NoThread = NoThread
    Producers <- OneProducer
    Consumers <- OneConsumer
    Unpromotable = {}
    InitMayFail = FALSE
    InitBeforeCondVar = FALSE
    Destroyers = {}

SPECIFICATION FairSpec

PROPERTY ConsumerProgress
