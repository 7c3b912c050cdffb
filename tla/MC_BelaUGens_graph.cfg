\* A unit of each pin-checking class beside a DigitalIn, every rate
\* combination but the one selecting DigitalIO_next_akka_once.
CONSTANTS
    u1 = u1
    u2 = u2
    AnalogInChannels = 2
    AnalogOutChannels = 2
    DigitalChannels = 2
    MultiplexerChannels = 2
    BufLength = 2
    PinValuesOf <- CheckedPins
    InputValues = {0, 20}
    Units <- TwoUnits
    KindOf <- PairKinds
    RatesOf <- RatesNoAkka
SPECIFICATION Spec
INVARIANT TypeOK
INVARIANT NoInvalidAccess
INVARIANT PinFollowsLastOut
