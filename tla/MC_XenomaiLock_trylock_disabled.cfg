\* Native init may fail after the EPERM retry, leaving the mutex disabled;
\* a producer then calls try_lock() on it.
CONSTANTS
    p1 = p1
    c1 = c1
    d1 = d1
    NoThread = NoThread
    Producers <- OneProducer
    Consumers <- OneConsumer
    Unpromotable = {}
    InitMayFail = TRUE
    InitBeforeCondVar = TRUE
    Destroyers = {}

SPECIFICATION Spec

PROPERTY DisabledTryLockFails
