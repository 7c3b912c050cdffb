\* A producer, a consumer and the main thread, all starting as plain
\* threads, under the fairness Cobalt scheduling gives: the mutex seen by
\* its callers refines AbstractLock, every consumer that checks the flag
\* eventually consumes, and the main thread's static destructors wake
\* every thread blocked in wait().
CONSTANTS
    p1 = p1
    c1 = c1
    d1 = d1
    NoThread = NoThread
    Producers <- OneProducer
    Consumers <- OneConsumer
    Unpromotable = {}
    InitMayFail = FALSE
    InitBeforeCondVar = TRUE
    Destroyers <- MainThread

SPECIFICATION FairSpec

INVARIANT TypeOK
PROPERTY ImplementsAbstractLock ConsumerProgress WaitersWokenByDestructor
