SPECIFICATION PowerSpec
CONSTANTS
    VoltageCodes <- MCVoltageCodes
    ChargeReadings = {"NotCharging", "PreCharge", "FastCharge", "Done"}
    BusReadings = {FALSE, TRUE}
INVARIANTS
    PowerTypeOK
    MeasuredWithChargingOff
    ProtectionHolds
    ChargingFollowsBoot
    IndicatorShowsLastRead
    IconIsConsistent
