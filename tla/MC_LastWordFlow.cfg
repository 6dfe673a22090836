SPECIFICATION Spec
CONSTANTS
    LetterCount = 3
    WordListSize = 5
    EnglishWords <- MCEnglishWords
    PinyinEntries <- MCPinyinEntries
    PrefixWordCount = 2
    MaxEnglishPrefixLen = 2
    MaxPinyinPrefixLen = 3
    PinyinPerPage = 2
    FinalWordsPerPage = 3
    EntropyBitCount = 2
    OctalFaces = 2
    HexFaces = 2
    PassphraseKeys = {"x", "y"}
    OtherKeys = {"long"}
    MaxPassphraseBytes = 1
INVARIANTS
    TypeOK
    FieldsBelongTogether
    PrefixCanBecomeWord
    PickersMatchEntry
    FeedbackIsCurrent
    EnabledLettersAreAccepted
    EntryHasAWayForward
PROPERTIES
    ShownIsEntered
    NewWordsNewEntropy
    DiceAreIndependent
    PassphraseComesFromDraft
