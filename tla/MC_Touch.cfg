SPECIFICATION TouchSpec
CONSTANTS
    DisplayWidth = 3
    DisplayHeight = 2
    RawPoints <- MCRawPoints
    MaxFaults = 2
INVARIANTS
    TouchTypeOK
    PolledTouchpadReports
    SecondPressNeedsFault
PROPERTIES
    PointerSpec
    FingerIsNoticed
    LiftReleases
