\* The condvar may be the first static object built, before Xenomai is
\* initialised (its constructor retries init after EPERM), and native init
\* may fail with an error other than EPERM (EAGAIN).
CONSTANTS
    p1 = p1
    c1 = c1
    d1 = d1
    NoThread = NoThread
    Producers <- OneProducer
    Consumers <- OneConsumer
    Unpromotable = {}
    InitMayFail = TRUE
    InitBeforeCondVar = FALSE
    Destroyers = {}

SPECIFICATION Spec

INVARIANT EnabledMatchesNative
