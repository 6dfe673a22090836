SPECIFICATION BoardSpec
CONSTANTS
    DisplayWidth = 2
    DisplayHeight = 2
    RawPoints <- MCRawPoints
    MaxFaults = 1
    VoltageCodes = {85}
    ChargeReadings = {"FastCharge"}
    BusReadings = {TRUE}
    RequestCapacity = 2
PROPERTIES
    TouchSpec
    PowerSteps
    RefreshRecurs
    RequestsAreAnswered
