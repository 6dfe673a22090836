SPECIFICATION UiSpec
CONSTANTS
    LetterCount = 2
    WordListSize = 2
    EnglishWords <- MCEnglishWords
    PinyinEntries <- MCPinyinEntries
    PrefixWordCount = 1
    MaxEnglishPrefixLen = 2
    MaxPinyinPrefixLen = 1
    PinyinPerPage = 1
    FinalWordsPerPage = 1
    EntropyBitCount = 0
    OctalFaces = 1
    HexFaces = 1
    PassphraseKeys = {}
    OtherKeys = {}
    MaxPassphraseBytes = 1
    MaxAddressIndex = 2
    RequestCapacity = 2
    SymbolKeys = {}
    UncoveredLetters = {0}
PROPERTIES
    RequestsAreServed
    BrowserSpec
    FlowSpec
