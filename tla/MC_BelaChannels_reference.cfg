CONSTANTS
    HwAudioChannels = 2
    DefaultPeriod = 16
    Options <- WorldOptions
SPECIFICATION Spec
INVARIANT SetupMatchesReference
\* DriverSetup runs once; after it the configuration does not change.
CHECK_DEADLOCK FALSE
