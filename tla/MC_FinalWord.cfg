SPECIFICATION FinalWordSpec
CONSTANTS
    PrefixWordCount = 2
    WordListSize = 16
    EntropyValues = 4
    ChecksumValues = 4
    ByteValues = 32
    EntropyBytes = 2
    Checksum <- MCChecksum
INVARIANTS
    FinalWordTypeOK
    CandidatesAreTheFinalWords
    DirectAgreesWithTable
    SeedIsOfTheseWords
