SPECIFICATION UiSpec
CONSTANTS
    LetterCount = 2
    WordListSize = 2
    EnglishWords <- MCEnglishWords
    PinyinEntries <- MCPinyinEntries
    PrefixWordCount = 1
    MaxEnglishPrefixLen = 2
    MaxPinyinPrefixLen = 1
    PinyinPerPage = 1
    FinalWordsPerPage = 1
    EntropyBitCount = 1
    OctalFaces = 2
    HexFaces = 1
    PassphraseKeys = {"x"}
    OtherKeys = {}
    MaxPassphraseBytes = 1
    MaxAddressIndex = 1
    RequestCapacity = 1
    SymbolKeys = {}
    UncoveredLetters = {0}
INVARIANTS
    UiTypeOK
    ViewIsCurrent
    CacheMatchesFlow
    ScreensMatchFlow
    AddressPageIsOfTheseWords
PROPERTIES
    TapsTakeWhatIsShown
