CONSTANTS
    u1 = u1
    u2 = u2
    AnalogInChannels = 2
    AnalogOutChannels = 2
    DigitalChannels = 2
    MultiplexerChannels = 2
    BufLength = 2
    PinValuesOf <- AnyPins
    InputValues = {0, 7, 10}
    Units <- OneUnit
    KindOf <- DigitalIOKind
    RatesOf <- RatesNoAkka
SPECIFICATION Spec
INVARIANT WrittenLevelIsThreshold
