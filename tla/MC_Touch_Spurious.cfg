SPECIFICATION TouchSpec
CONSTANTS
    DisplayWidth = 3
    DisplayHeight = 2
    RawPoints <- MCRawPoints
    MaxFaults = 2
PROPERTY SpuriousReportsAreIgnored
