CONSTANTS
    FifoSize = 11
    HighBit = 5
    WaterMarkLevel = 3
    ReadLength = 9
    Settings <- MCSettings
    Thresholds <- MCThresholds
    Timeouts = {7}
    Scales <- MCScales
    SampleValues <- MCSamples
SPECIFICATION Spec
INVARIANTS TypeOK ConfiguredWhenReady RangeInStep EdgeNotLost ReadsWholeSets HandlerBeforeWork
PROPERTY WatermarkServed
