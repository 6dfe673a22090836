------------------------------ MODULE WordList ------------------------------
(***************************************************************************)
(* The two BIP39 word lists of the helper and the look-ups the entry       *)
(* screen makes in them (bip39-last-word/src/lib.rs).                      *)
(*                                                                         *)
(* A letter is its offset from 'a'; a spelling is a sequence of letters.   *)
(* The English list is a sequence of spellings; the simplified Chinese     *)
(* list is reached through the pinyin table, a sequence of (spelling,      *)
(* index) entries that build.rs sorts and removes duplicates from.  Words  *)
(* of both lists are numbered from 0, as in the code.                      *)
(***************************************************************************)
EXTENDS Integers, Sequences, FiniteSets, SequencesExt

CONSTANTS
    LetterCount,       \* 26 in the code
    WordListSize,      \* 2048 in the code
    EnglishWords,      \* the bip39 crate's English list
    PinyinEntries      \* SIMPLIFIED_CHINESE_PINYIN_ENTRIES

Letters == 0 .. LetterCount - 1
WordIndices == 0 .. WordListSize - 1
NoIndex == -1                                  \* Option::None of an index

English == "English"
SimplifiedChinese == "SimplifiedChinese"
Languages == {English, SimplifiedChinese}

ASSUME WordListAssumption ==
    /\ LetterCount \in Nat \ {0}
    /\ WordListSize \in Nat \ {0}
    /\ EnglishWords \in Seq(Seq(Letters))
    /\ Len(EnglishWords) = WordListSize
    /\ PinyinEntries \in Seq([spelling : Seq(Letters), index : WordIndices])

-----------------------------------------------------------------------------
(***************************************************************************)
(* Order of the lists.  The English list of BIP39 is alphabetical; the     *)
(* pinyin table is sorted by spelling, then by index.                      *)
(***************************************************************************)
Precedes(s, t) ==
    \/ IsStrictPrefix(s, t)
    \/ \E k \in DOMAIN s \cap DOMAIN t :
          /\ s[k] < t[k]
          /\ \A j \in 1 .. k - 1 : s[j] = t[j]

PinyinSpellings == [i \in DOMAIN PinyinEntries |-> PinyinEntries[i].spelling]

SortedEnglish ==
    \A i, j \in DOMAIN EnglishWords :
        i < j => Precedes(EnglishWords[i], EnglishWords[j])

SortedPinyin ==
    \A i, j \in DOMAIN PinyinEntries :
        i < j => \/ Precedes(PinyinEntries[i].spelling, PinyinEntries[j].spelling)
                 \/ /\ PinyinEntries[i].spelling = PinyinEntries[j].spelling
                    /\ PinyinEntries[i].index < PinyinEntries[j].index

ASSUME SortedAssumption == SortedEnglish /\ SortedPinyin

(***************************************************************************)
(* word starts_with prefix, letter by letter.                              *)
(***************************************************************************)
StartsWith(word, prefix) == IsPrefix(prefix, word)

(***************************************************************************)
(* The contiguous run of list positions found by searching for the first   *)
(* match and taking entries while they match.                              *)
(***************************************************************************)
MatchRun(list, prefix) ==
    {i \in DOMAIN list :
        \E first \in 1 .. i :
            /\ \A j \in 1 .. first - 1 : ~StartsWith(list[j], prefix)
            /\ \A j \in first .. i : StartsWith(list[j], prefix)}

-----------------------------------------------------------------------------
words_by_prefix(prefix) == MatchRun(EnglishWords, prefix)

word_index(word) ==
    IF \E i \in DOMAIN EnglishWords : EnglishWords[i] = word
    THEN (CHOOSE i \in DOMAIN EnglishWords : EnglishWords[i] = word) - 1
    ELSE NoIndex

(***************************************************************************)
(* Pinyin: a character with several pronunciations may have several        *)
(* entries below one prefix; only its first one counts as a candidate.     *)
(***************************************************************************)
PinyinRun(prefix) == MatchRun(PinyinSpellings, prefix)

DistinctEntries(prefix) ==
    {p \in PinyinRun(prefix) :
        \A q \in PinyinRun(prefix) :
            q < p => PinyinEntries[q].index # PinyinEntries[p].index}

PinyinCount(prefix) == Cardinality(DistinctEntries(prefix))

CandidateAt(prefix, p, position) ==
    /\ p \in DistinctEntries(prefix)
    /\ Cardinality({q \in DistinctEntries(prefix) : q < p}) = position

word_index_at(prefix, position) ==
    IF \E p \in DistinctEntries(prefix) : CandidateAt(prefix, p, position)
    THEN PinyinEntries[CHOOSE p \in DistinctEntries(prefix) :
                          CandidateAt(prefix, p, position)].index
    ELSE NoIndex

(***************************************************************************)
(* The letters that follow prefix in some word of the run.                 *)
(***************************************************************************)
FollowingLetters(list, prefix) ==
    {list[i][Len(prefix) + 1] :
        i \in {j \in MatchRun(list, prefix) : Len(list[j]) > Len(prefix)}}

NextLetters(language, prefix) ==
    CASE language = English           -> FollowingLetters(EnglishWords, prefix)
      [] language = SimplifiedChinese -> FollowingLetters(PinyinSpellings, prefix)

prefix_match_count_for(language, prefix) ==
    CASE language = English           -> Cardinality(words_by_prefix(prefix))
      [] language = SimplifiedChinese -> PinyinCount(prefix)

(***************************************************************************)
(* The word a prefix stands for when it names exactly one: in English the  *)
(* word spelt exactly like the prefix comes first, then an only match; in  *)
(* pinyin only an only match.                                              *)
(***************************************************************************)
OnlyMatch(prefix) == CHOOSE i \in words_by_prefix(prefix) : TRUE

IndexForPrefix(language, prefix) ==
    CASE language = English /\ word_index(prefix) # NoIndex -> word_index(prefix)
      [] language = English /\ word_index(prefix) = NoIndex ->
            IF Cardinality(words_by_prefix(prefix)) = 1
            THEN word_index(EnglishWords[OnlyMatch(prefix)])
            ELSE NoIndex
      [] language = SimplifiedChinese ->
            IF PinyinCount(prefix) = 1 THEN word_index_at(prefix, 0) ELSE NoIndex
=============================================================================
