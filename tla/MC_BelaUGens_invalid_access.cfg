\* One unit of a class whose pin handling is at fault for some pin value
\* or rate: MultiplexAnalogIn, DigitalOut or DigitalIO, every rate.
CONSTANTS
    u1 = u1
    u2 = u2
    AnalogInChannels = 2
    AnalogOutChannels = 2
    DigitalChannels = 2
    MultiplexerChannels = 2
    BufLength = 2
    PinValuesOf <- AnyPins
    InputValues = {0}
    Units <- OneUnit
    KindOf <- FaultyKinds
    RatesOf <- AllRates
SPECIFICATION Spec
INVARIANT NoInvalidAccess
