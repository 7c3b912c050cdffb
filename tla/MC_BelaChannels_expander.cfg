CONSTANTS
    HwAudioChannels = 2
    DefaultPeriod = 16
    Options <- WorldOptions
SPECIFICATION Spec
INVARIANT ExpanderWithinAnalog
\* DriverSetup runs once; after it the configuration does not change.
CHECK_DEADLOCK FALSE
