------------------------ MODULE LastWordFlow_proofs ------------------------
(***************************************************************************)
(* LastWordFlow never leaves its invariants, for every pair of word lists, *)
(* every number of words and every size of the pickers, dice and buffers   *)
(* that the module's assumptions allow.                                    *)
(*                                                                         *)
(* The inductive invariant IInv has one part per group of variables that   *)
(* the operations change together: the entry, the entropy, the passphrase. *)
(***************************************************************************)
EXTENDS LastWordFlow, WordList_proofs

-----------------------------------------------------------------------------
(***************************************************************************)
(* Arithmetic of pages, bits and dice                                      *)
(***************************************************************************)
LEMMA Division ==
    \A n \in Nat, k \in Nat \ {0} :
        /\ n \div k \in Nat
        /\ n % k \in 0 .. k - 1
        /\ n = k * (n \div k) + (n % k)
OBVIOUS

\* Dividing what is known as quotient and remainder.
LEMMA QuotientAndRemainder ==
    ASSUME NEW q \in Nat, NEW k \in Nat \ {0}, NEW r \in 0 .. k - 1
    PROVE  (k * q + r) \div k = q /\ (k * q + r) % k = r
OBVIOUS

\* The page of an item is one of the pages.
LEMMA PageOfItem ==
    ASSUME NEW n \in Nat, NEW k \in Nat \ {0}, NEW x \in 0 .. n - 1
    PROVE  /\ x \div k \in Nat
           /\ x \div k < CeilDiv(n, k)
<1>1. x \div k < (n + k - 1) \div k
    OBVIOUS
<1> QED
    BY <1>1, Division DEF CeilDiv

LEMMA PageCount ==
    ASSUME NEW n \in Nat, NEW k \in Nat \ {0}
    PROVE  CeilDiv(n, k) \in Nat /\ (n > 0 => CeilDiv(n, k) > 0)
<1>1. n + k - 1 \in Nat
    OBVIOUS
<1>2. CeilDiv(n, k) \in Nat
    BY <1>1, Division DEF CeilDiv
<1>3. n > 0 => 0 \div k < CeilDiv(n, k)
    BY PageOfItem
<1> QED
    BY <1>2, <1>3

LEMMA PageAfterStays ==
    ASSUME NEW page \in Nat, NEW count \in Nat, page < count, NEW direction \in DirectionInputs
    PROVE  PageAfter(page, direction, count) \in Nat /\ PageAfter(page, direction, count) < count
BY DEF PageAfter, DirectionInputs

\* Every page has a first item.
LEMMA PageStarts ==
    ASSUME NEW n \in Nat, NEW k \in Nat \ {0}, NEW page \in Nat, page < CeilDiv(n, k)
    PROVE  page * k < n
<1> DEFINE m == (n + k) - 1
           q == m \div k
           r == m % k
<1>1. m \in Nat /\ m = (n + k) - 1
    OBVIOUS
<1> HIDE DEF m
<1>2. q \in Nat /\ k * q <= m
  <2>1. q \in Nat /\ r \in 0 .. k - 1 /\ m = k * q + r
      BY ONLY k \in Nat \ {0}, <1>1, Division
  <2> HIDE DEF q, r
  <2>2. k * q \in Nat
      BY <2>1
  <2> QED
      BY <1>1, <2>1, <2>2
<1>3. q >= page + 1
    BY <1>2 DEF CeilDiv, m
<1> HIDE DEF q
<1>4. k * q >= k * (page + 1)
    BY <1>2, <1>3
<1>5. k * (page + 1) = page * k + k
    OBVIOUS
<1>6. page * k \in Nat /\ k * q \in Nat
    BY <1>2
<1> QED
    BY <1>1, <1>2, <1>4, <1>5, <1>6

\* Adding a clear bit's weight stays below a multiple of twice the weight.
LEMMA SettingABit ==
    ASSUME NEW c \in Nat, NEW w \in Nat \ {0}, (c % (2 * w)) = 0,
           NEW b \in 0 .. c - 1, ((b \div w) % 2) # 1
    PROVE  b + w \in 0 .. c - 1
<1>1. PICK m \in Nat, r \in 0 .. w - 1 : m = b \div w /\ b = w * m + r
    BY Division
<1>2. PICK q \in Nat : m = 2 * q
    BY <1>1
<1>3. PICK k \in Nat \ {0} : k = 2 * w
    OBVIOUS
<1>4. PICK d \in Nat : c = k * d
    BY <1>3, Division
<1>5. w * m = k * q /\ k * (q + 1) = k * q + k
    BY <1>2, <1>3
<1>6. q < d
    BY <1>1, <1>3, <1>4, <1>5
<1>7. k * (q + 1) <= k * d
    BY <1>6
<1> QED
    BY <1>1, <1>3, <1>4, <1>5, <1>7

LEMMA DiceToBits ==
    ASSUME NEW h \in Nat \ {0}, NEW o \in Nat \ {0},
           NEW q \in 0 .. o - 1, NEW r \in 0 .. h - 1
    PROVE  h * q + r \in 0 .. o * h - 1
<1>1. /\ h * q + h = h * (q + 1) /\ h * (q + 1) <= h * o
      /\ h * q \in Nat /\ h * o = o * h /\ o * h \in Nat
    OBVIOUS
<1> QED
    BY <1>1

LEMMA BitsToDice ==
    ASSUME NEW h \in Nat \ {0}, NEW o \in Nat \ {0}, NEW b \in 0 .. o * h - 1
    PROVE  /\ b % h \in 0 .. h - 1
           /\ b \div h \in 0 .. o - 1
           /\ b = h * (b \div h) + (b % h)
<1>1. b \div h \in Nat /\ b % h \in 0 .. h - 1 /\ b = h * (b \div h) + (b % h)
    BY Division
<1>2. h * (b \div h) < h * o
    BY <1>1
<1> QED
    BY <1>1, <1>2

\* There is at least one candidate for the final word.
LEMMA SomeCandidate == CandidateCount \in Nat /\ CandidateCount > 0
BY FlowAssumption DEF CandidateCount

\* Flipping a bit keeps the entropy in range.
LEMMA FlipBitType ==
    ASSUME NEW bits \in EntropyValues, NEW bit \in 0 .. EntropyBitCount - 1
    PROVE  FlipBit(bits, bit) \in EntropyValues
<1> DEFINE w == Weight(bit)
<1>1. w \in Nat \ {0} /\ (CandidateCount % (2 * w)) = 0
    BY EntropyAssumption
<1> HIDE DEF w
<1>2. bits \in 0 .. CandidateCount - 1
    BY DEF EntropyValues
<1>3. CASE ((bits \div w) % 2) = 1
  <2>1. bits >= w
      BY <1>1, <1>2, <1>3, SomeCandidate
  <2>2. FlipBit(bits, bit) = bits - w
      BY <1>3 DEF FlipBit, w
  <2> QED
      BY <1>1, <1>2, <2>1, <2>2, SomeCandidate DEF EntropyValues
<1>4. CASE ((bits \div w) % 2) # 1
  <2>1. FlipBit(bits, bit) = bits + w
      BY <1>4 DEF FlipBit, w
  <2> QED
      BY <1>1, <1>2, <1>4, <2>1, SettingABit, SomeCandidate DEF EntropyValues
<1> QED
    BY <1>3, <1>4

\* What a die writes: its own face, beside the other die's.
LEMMA OctalFaceWritten ==
    ASSUME NEW bits \in EntropyValues, NEW face \in 1 .. OctalFaces
    PROVE  /\ WithOctalFace(bits, face) \in EntropyValues
           /\ WithOctalFace(bits, face) \div HexFaces = face - 1
           /\ WithOctalFace(bits, face) % HexFaces = bits % HexFaces
<1>1. OctalFaces \in Nat \ {0} /\ HexFaces \in Nat \ {0}
    BY FlowAssumption
<1>2. bits % HexFaces \in 0 .. HexFaces - 1 /\ face - 1 \in 0 .. OctalFaces - 1
    BY <1>1, BitsToDice DEF EntropyValues, CandidateCount
<1>3. WithOctalFace(bits, face) = HexFaces * (face - 1) + (bits % HexFaces)
    BY <1>1, <1>2 DEF WithOctalFace
<1>4. HexFaces * (face - 1) + (bits % HexFaces) \in EntropyValues
    BY <1>1, <1>2, DiceToBits DEF EntropyValues, CandidateCount
<1>5. PICK q \in Nat, r \in 0 .. HexFaces - 1 : q = face - 1 /\ r = bits % HexFaces
    BY <1>1, <1>2
<1>6. (HexFaces * q + r) \div HexFaces = q /\ (HexFaces * q + r) % HexFaces = r
    BY <1>1, QuotientAndRemainder
<1> QED
    BY <1>3, <1>4, <1>5, <1>6

LEMMA HexFaceWritten ==
    ASSUME NEW bits \in EntropyValues, NEW face \in 1 .. HexFaces
    PROVE  /\ WithHexFace(bits, face) \in EntropyValues
           /\ WithHexFace(bits, face) \div HexFaces = bits \div HexFaces
           /\ WithHexFace(bits, face) % HexFaces = face - 1
<1>1. OctalFaces \in Nat \ {0} /\ HexFaces \in Nat \ {0}
    BY FlowAssumption
<1>2. /\ bits % HexFaces \in 0 .. HexFaces - 1
      /\ bits \div HexFaces \in 0 .. OctalFaces - 1
      /\ bits = HexFaces * (bits \div HexFaces) + (bits % HexFaces)
    BY <1>1, BitsToDice DEF EntropyValues, CandidateCount
<1>3. PICK q \in 0 .. OctalFaces - 1, r \in 0 .. HexFaces - 1 :
          q = bits \div HexFaces /\ r = bits % HexFaces /\ bits = HexFaces * q + r
    BY <1>2
<1>4. PICK f \in 0 .. HexFaces - 1 : f = face - 1
    BY <1>1
<1>5. WithHexFace(bits, face) = HexFaces * q + f
  <2>1. HexFaces * q \in Int
      BY <1>1
  <2> QED
      BY <1>1, <1>3, <1>4, <2>1 DEF WithHexFace
<1>6. HexFaces * q + f \in EntropyValues
    BY <1>1, DiceToBits DEF EntropyValues, CandidateCount
<1>7. q \in Nat
    BY <1>1
<1>8. (HexFaces * q + f) \div HexFaces = q /\ (HexFaces * q + f) % HexFaces = f
    BY <1>1, <1>7, QuotientAndRemainder
<1> QED
    BY <1>3, <1>4, <1>5, <1>6, <1>8
-----------------------------------------------------------------------------
(***************************************************************************)
(* The inductive invariant                                                 *)
(***************************************************************************)
EntryInv ==
    /\ EntryTypes
    /\ PrefixCanBecomeWord
    /\ PinyinPickerMatchesEntry
    /\ FeedbackIsCurrent
    /\ NothingEnteredBeforeLanguage

EntropyInv ==
    /\ EntropyTypes
    /\ ConfirmedWhenComplete
    /\ NoEntropyWithoutWords
    /\ FinalWordPageExists

PassphraseInv ==
    /\ PassphraseTypes
    /\ DraftOnlyInEditor

IInv == EntryInv /\ EntropyInv /\ PassphraseInv

\* Each part holds again after a step that leaves its variables alone.
LEMMA EntryUntouched ==
    ASSUME EntryInv, UNCHANGED <<languageVars, word_indices, entryVars, pinyinVars>>
    PROVE  EntryInv'
BY DEF EntryInv, EntryTypes, PrefixCanBecomeWord, PinyinPickerMatchesEntry,
       FeedbackIsCurrent, NothingEnteredBeforeLanguage, languageVars, entryVars,
       pinyinVars, is_complete, prefix_len_limit, prefix_match_count,
       prefix_has_matches, selected_word_index, can_open_pinyin_candidate_picker,
       pinyin_candidate_page_count

LEMMA EntropyUntouched ==
    ASSUME EntropyInv, UNCHANGED <<word_indices, entropyVars, finalPickerVars>>
    PROVE  EntropyInv'
BY DEF EntropyInv, EntropyTypes, ConfirmedWhenComplete, NoEntropyWithoutWords,
       FinalWordPageExists, entropyVars, finalPickerVars, is_complete,
       final_word_candidate_page_count

LEMMA PassphraseUntouched ==
    ASSUME PassphraseInv, UNCHANGED passphraseVars
    PROVE  PassphraseInv'
BY DEF PassphraseInv, PassphraseTypes, DraftOnlyInEditor, passphraseVars

LEMMA Untouched ==
    ASSUME IInv, UNCHANGED flowVars
    PROVE  IInv'
BY EntryUntouched, EntropyUntouched, PassphraseUntouched DEF IInv, flowVars

\* The entropy belongs to the words: cleared with a new set of them.
LEMMA EntropyCleared ==
    ASSUME NEW complete \in BOOLEAN, clear_entropy(complete), complete <=> is_complete'
    PROVE  EntropyInv'
<1>1. final_word_candidate_page_count > 0
    BY SomeCandidate, PageCount, FlowAssumption DEF final_word_candidate_page_count
<1>2. entropy_bits' \in EntropyValues /\ final_word_candidate_page' \in Nat
    BY SomeCandidate DEF clear_entropy, EntropyValues
<1>3. FinalWordPageExists'
    BY <1>1 DEF clear_entropy, FinalWordPageExists, final_word_candidate_page_count
<1>4. /\ entropy_confirmed' \in BOOLEAN /\ final_word_picker_open' \in BOOLEAN
      /\ ConfirmedWhenComplete' /\ NoEntropyWithoutWords'
    BY DEF clear_entropy, ConfirmedWhenComplete, NoEntropyWithoutWords
<1> QED
    BY <1>2, <1>3, <1>4 DEF EntropyInv, EntropyTypes

LEMMA PassphraseCleared ==
    ASSUME clear_passphrase
    PROVE  PassphraseInv'
<1>1. /\ passphrase' \in Seq(PassphraseKeys) /\ Len(passphrase') <= MaxPassphraseBytes
      /\ passphrase_draft' \in Seq(PassphraseKeys)
      /\ Len(passphrase_draft') <= MaxPassphraseBytes
    BY FlowAssumption DEF clear_passphrase
<1>2. /\ passphrase_editor_open' \in BOOLEAN /\ passphrase_visible' \in BOOLEAN
      /\ DraftOnlyInEditor'
    BY DEF clear_passphrase, DraftOnlyInEditor
<1> QED
    BY <1>1, <1>2 DEF PassphraseInv, PassphraseTypes

\* An empty entry line fits any words.
LEMMA EntryCleared ==
    ASSUME clear_entry,
           language' \in Languages,
           language_selected' \in BOOLEAN,
           word_indices' \in Seq(WordIndices),
           Len(word_indices') <= PrefixWordCount,
           language_selected' \/ word_indices' = <<>>
    PROVE  EntryInv'
<1>1. /\ prefix' \in Seq(Letters) /\ Len(prefix') <= prefix_len_limit'
      /\ pinyin_candidate_page' \in Nat /\ commit_feedback' \in Feedbacks
    BY FlowAssumption
    DEF clear_entry, close_and_rewind_pinyin_picker, NoFeedback, Feedbacks,
        prefix_len_limit
<1>2. /\ last_letter_was_rejected' \in BOOLEAN
      /\ pinyin_candidate_picker_open' \in BOOLEAN
      /\ PrefixCanBecomeWord' /\ PinyinPickerMatchesEntry'
      /\ NothingEnteredBeforeLanguage'
    BY DEF clear_entry, close_and_rewind_pinyin_picker, PrefixCanBecomeWord,
           PinyinPickerMatchesEntry, NothingEnteredBeforeLanguage
<1>3. FeedbackIsCurrent'
    BY DEF clear_entry, FeedbackIsCurrent, NoFeedback
<1> QED
    BY <1>1, <1>2, <1>3 DEF EntryInv, EntryTypes
-----------------------------------------------------------------------------
(***************************************************************************)
(* One lemma per operation                                                 *)
(***************************************************************************)
LEMMA DefaultStep ==
    ASSUME NEW new_language \in Languages, become_default(new_language),
           language_selected' \in BOOLEAN
    PROVE  IInv'
<1>1. /\ clear_entry /\ clear_entropy(FALSE) /\ clear_passphrase
      /\ language' = new_language /\ word_indices' = <<>>
    BY DEF become_default
<1>2. word_indices' \in Seq(WordIndices) /\ Len(word_indices') = 0
    BY <1>1
<1>3. EntryInv'
    BY <1>1, <1>2, EntryCleared, FlowAssumption
<1>4. ~is_complete'
    BY <1>2, FlowAssumption DEF is_complete
<1>5. EntropyInv'
    BY <1>1, <1>4, EntropyCleared
<1>6. PassphraseInv'
    BY <1>1, PassphraseCleared
<1> QED
    BY <1>3, <1>5, <1>6 DEF IInv

LEMMA SelectLanguageStep ==
    ASSUME IInv, NEW new_language, select_language(new_language)
    PROVE  IInv'
<1>1. CASE new_language \in Languages \ {language} /\ become_default(new_language)
           /\ language_selected'
  <2>1. language_selected' \in BOOLEAN
      BY <1>1 DEF select_language
  <2> QED
      BY <1>1, <2>1, DefaultStep
<1>2. CASE /\ language_selected'
           /\ UNCHANGED <<language, word_indices, entryVars, pinyinVars, entropyVars,
                          finalPickerVars, passphraseVars>>
  <2>1. EntropyInv' /\ PassphraseInv'
      BY <1>2, EntropyUntouched, PassphraseUntouched DEF IInv
  <2>2. language_selected' = TRUE
      BY <1>1, <1>2 DEF select_language
  <2>3. EntryInv'
      BY <1>2, <2>2
      DEF IInv, EntryInv, EntryTypes, PrefixCanBecomeWord, PinyinPickerMatchesEntry,
          FeedbackIsCurrent, NothingEnteredBeforeLanguage, entryVars, pinyinVars,
          is_complete, prefix_len_limit, prefix_match_count, prefix_has_matches,
          selected_word_index, can_open_pinyin_candidate_picker,
          pinyin_candidate_page_count
  <2> QED
      BY <2>1, <2>3 DEF IInv
<1> QED
    BY <1>1, <1>2 DEF select_language

LEMMA PushLetterStep ==
    ASSUME IInv, NEW key, push_letter(key)
    PROVE  IInv'
<1> DEFINE longer == Append(prefix, key)
<1>1. CASE /\ accepts_letters /\ key \in Letters /\ prefix_has_matches(longer)
           /\ prefix' = longer /\ language_selected' = TRUE
           /\ last_letter_was_rejected' = FALSE /\ commit_feedback' = NoFeedback
           /\ close_and_rewind_pinyin_picker
           /\ UNCHANGED <<language, word_indices, entropyVars, finalPickerVars,
                          passphraseVars>>
  <2>1. EntropyInv' /\ PassphraseInv'
      BY <1>1, EntropyUntouched, PassphraseUntouched DEF IInv
  <2>2. /\ prefix \in Seq(Letters) /\ Len(prefix) <= prefix_len_limit
        /\ Len(prefix) # prefix_len_limit
      BY <1>1 DEF IInv, EntryInv, EntryTypes, accepts_letters
  <2>3. /\ longer \in Seq(Letters) /\ Len(longer) = Len(prefix) + 1
        /\ Len(prefix) \in Nat
      BY <1>1, <2>2
  <2>4. prefix_len_limit' = prefix_len_limit /\ prefix_len_limit \in Nat
      BY <1>1, FlowAssumption DEF prefix_len_limit
  <2>5. Len(longer) <= prefix_len_limit'
      BY <2>2, <2>3, <2>4
  <2>6. prefix_has_matches(prefix)'
      BY <1>1 DEF prefix_has_matches
  <2>7. ~is_complete'
      BY <1>1 DEF accepts_letters, is_complete
  <2> HIDE DEF longer
  <2> QED
      BY <1>1, <2>1, <2>3, <2>5, <2>6, <2>7
      DEF IInv, EntryInv, EntryTypes, PrefixCanBecomeWord, PinyinPickerMatchesEntry,
          FeedbackIsCurrent, NothingEnteredBeforeLanguage, NoFeedback, Feedbacks,
          close_and_rewind_pinyin_picker
<1>2. CASE /\ last_letter_was_rejected' = TRUE
           /\ UNCHANGED <<languageVars, word_indices, prefix, commit_feedback,
                          pinyinVars, entropyVars, finalPickerVars, passphraseVars>>
  <2>1. EntropyInv' /\ PassphraseInv'
      BY <1>2, EntropyUntouched, PassphraseUntouched DEF IInv
  <2>2. EntryInv'
      BY <1>2
      DEF IInv, EntryInv, EntryTypes, PrefixCanBecomeWord, PinyinPickerMatchesEntry,
          FeedbackIsCurrent, NothingEnteredBeforeLanguage, languageVars, pinyinVars,
          is_complete, prefix_len_limit, prefix_match_count, prefix_has_matches,
          selected_word_index, can_open_pinyin_candidate_picker,
          pinyin_candidate_page_count
  <2> QED
      BY <2>1, <2>2 DEF IInv
<1>3. CASE UNCHANGED flowVars
    BY <1>3, Untouched
<1> QED
    BY <1>1, <1>2, <1>3 DEF push_letter

LEMMA BackspaceStep ==
    ASSUME IInv, backspace
    PROVE  IInv'
<1>1. /\ last_letter_was_rejected' = FALSE /\ commit_feedback' = NoFeedback
      /\ close_and_rewind_pinyin_picker
      /\ UNCHANGED <<languageVars, passphraseVars>>
    BY DEF backspace
<1>2. PassphraseInv'
    BY <1>1, PassphraseUntouched DEF IInv
<1>3. EntryTypes /\ prefix_len_limit' = prefix_len_limit /\ prefix_len_limit \in Nat
    BY <1>1, FlowAssumption DEF IInv, EntryInv, prefix_len_limit, languageVars
<1>4. CASE /\ prefix # <<>> /\ prefix' = SubSeq(prefix, 1, Len(prefix) - 1)
           /\ UNCHANGED <<word_indices, entropyVars, finalPickerVars>>
  <2>1. EntropyInv'
      BY <1>4, EntropyUntouched DEF IInv
  <2>2. /\ prefix \in Seq(Letters) /\ language \in Languages
        /\ prefix_match_count_for(language, prefix) > 0
        /\ language_selected
      BY <1>3, <1>4 DEF EntryTypes, IInv, EntryInv, PrefixCanBecomeWord,
                        prefix_has_matches, NothingEnteredBeforeLanguage
  <2>3. prefix' \in Seq(Letters) /\ Len(prefix') = Len(prefix) - 1 /\ Len(prefix) \in Nat
      BY <1>4, <2>2, DropLast
  <2>4. Len(prefix') <= prefix_len_limit'
      BY <1>3, <2>3 DEF EntryTypes
  <2>5. prefix_has_matches(prefix)'
      BY <1>1, <1>4, <2>2, ShorterPrefixMatches DEF prefix_has_matches, languageVars
  <2>6. ~is_complete'
      BY <1>4 DEF is_complete, IInv, EntryInv, PrefixCanBecomeWord
  <2> QED
      BY <1>1, <1>2, <1>3, <1>4, <2>1, <2>2, <2>3, <2>4, <2>5, <2>6
      DEF IInv, EntryInv, EntryTypes, PrefixCanBecomeWord, PinyinPickerMatchesEntry,
          FeedbackIsCurrent, NothingEnteredBeforeLanguage, NoFeedback, Feedbacks,
          close_and_rewind_pinyin_picker, languageVars
<1>5. CASE /\ prefix = <<>> /\ word_indices # <<>>
           /\ word_indices' = SubSeq(word_indices, 1, Len(word_indices) - 1)
           /\ clear_entropy(FALSE) /\ UNCHANGED prefix
  <2>1. word_indices \in Seq(WordIndices) /\ Len(word_indices) <= PrefixWordCount
      BY <1>3 DEF EntryTypes
  <2>2. /\ word_indices' \in Seq(WordIndices)
        /\ Len(word_indices') = Len(word_indices) - 1 /\ Len(word_indices) \in Nat
      BY <1>5, <2>1, DropLast
  <2>3. Len(word_indices') <= PrefixWordCount /\ ~is_complete'
      BY <2>1, <2>2, FlowAssumption DEF is_complete
  <2>4. EntropyInv'
      BY <1>5, <2>3, EntropyCleared
  <2>5. language_selected
      BY <1>5 DEF IInv, EntryInv, NothingEnteredBeforeLanguage
  <2>6. clear_entry
      BY <1>1, <1>5 DEF clear_entry
  <2>7. EntryInv'
      BY <1>1, <1>3, <2>2, <2>3, <2>5, <2>6, EntryCleared DEF EntryTypes, languageVars
  <2> QED
      BY <1>2, <2>4, <2>7 DEF IInv
<1>6. CASE /\ prefix = <<>> /\ word_indices = <<>>
           /\ UNCHANGED <<prefix, word_indices, entropyVars, finalPickerVars>>
  <2>1. EntropyInv'
      BY <1>6, EntropyUntouched DEF IInv
  <2>2. clear_entry
      BY <1>1, <1>6 DEF clear_entry
  <2>3. EntryInv'
      BY <1>1, <1>3, <1>6, <2>2, EntryCleared DEF EntryTypes, languageVars
  <2> QED
      BY <1>2, <2>1, <2>3 DEF IInv
<1> QED
    BY <1>4, <1>5, <1>6 DEF backspace

\* A word of the list joins the words, and the entry starts over.
LEMMA AcceptStep ==
    ASSUME IInv, NEW index \in WordIndices, ~is_complete, prefix # <<>>,
           accept_word_index(index)
    PROVE  IInv'
<1>1. /\ word_indices' = Append(word_indices, index)
      /\ clear_entry
      /\ clear_entropy(Len(word_indices) + 1 = PrefixWordCount)
      /\ UNCHANGED languageVars /\ UNCHANGED passphraseVars
    BY DEF accept_word_index
<1>2. /\ word_indices \in Seq(WordIndices) /\ Len(word_indices) <= PrefixWordCount
      /\ language \in Languages /\ language_selected
      /\ Len(word_indices) # PrefixWordCount
    BY DEF IInv, EntryInv, EntryTypes, NothingEnteredBeforeLanguage, is_complete
<1>3. /\ word_indices' \in Seq(WordIndices)
      /\ Len(word_indices') = Len(word_indices) + 1
      /\ Len(word_indices) \in Nat
    BY <1>1, <1>2
<1>4. Len(word_indices') <= PrefixWordCount
    BY <1>2, <1>3, FlowAssumption
<1>5. EntryInv'
    BY <1>1, <1>2, <1>3, <1>4, EntryCleared DEF languageVars, IInv, EntryInv, EntryTypes
<1>6. (Len(word_indices) + 1 = PrefixWordCount) <=> is_complete'
    BY <1>3 DEF is_complete
<1>7. EntropyInv'
    BY <1>1, <1>6, EntropyCleared
<1>8. PassphraseInv'
    BY <1>1, PassphraseUntouched DEF IInv
<1> QED
    BY <1>5, <1>7, <1>8 DEF IInv

LEMMA CommitWordStep ==
    ASSUME IInv, commit_word
    PROVE  IInv'
<1>1. CASE ~is_complete /\ selected_word_index # NoIndex
           /\ accept_word_index(selected_word_index)
  <2>1. prefix # <<>> /\ selected_word_index = IndexForPrefix(language, prefix)
      BY <1>1 DEF selected_word_index
  <2>2. language \in Languages
      BY DEF IInv, EntryInv, EntryTypes
  <2>3. selected_word_index \in WordIndices
      BY <1>1, <2>1, <2>2, IndexForPrefixIsAWord
  <2> QED
      BY <1>1, <2>1, <2>3, AcceptStep
<1>2. CASE /\ ~is_complete
           /\ \/ prefix = <<>> /\ commit_feedback' = EnterLetters
              \/ /\ prefix # <<>> /\ selected_word_index = NoIndex
                 /\ commit_feedback' = MoreMatches(prefix_match_count)
           /\ UNCHANGED <<languageVars, word_indices, prefix, last_letter_was_rejected,
                          pinyinVars, entropyVars, finalPickerVars, passphraseVars>>
  <2>1. EntropyInv' /\ PassphraseInv'
      BY <1>2, EntropyUntouched, PassphraseUntouched DEF IInv
  <2>2. language \in Languages /\ (prefix # <<>> => prefix_match_count > 0)
      BY DEF IInv, EntryInv, EntryTypes, PrefixCanBecomeWord, prefix_match_count,
             prefix_has_matches
  <2>3. prefix_match_count \in Nat
      BY <2>2, CountIsOfRun DEF prefix_match_count
  <2>4. prefix # <<>> /\ selected_word_index = NoIndex => prefix_match_count > 1
    <3>1. prefix # <<>> /\ selected_word_index = NoIndex => prefix_match_count # 1
        BY <2>2, IndexForPrefixIsAWord DEF selected_word_index, prefix_match_count
    <3> QED
        BY <2>2, <2>3, <3>1
  <2>5. commit_feedback' \in Feedbacks
      BY <1>2, <2>3 DEF Feedbacks, EnterLetters, MoreMatches
  <2>6. FeedbackIsCurrent'
    <3>1. UNCHANGED <<prefix, prefix_match_count, is_complete>>
        BY <1>2 DEF prefix_match_count, is_complete, languageVars
    <3> QED
        BY <1>2, <2>4, <3>1 DEF FeedbackIsCurrent, EnterLetters, MoreMatches
  <2>7. EntryInv'
      BY <1>2, <2>5, <2>6
      DEF IInv, EntryInv, EntryTypes, PrefixCanBecomeWord, PinyinPickerMatchesEntry,
          NothingEnteredBeforeLanguage, languageVars, pinyinVars, is_complete,
          prefix_len_limit, prefix_match_count, prefix_has_matches,
          selected_word_index, can_open_pinyin_candidate_picker,
          pinyin_candidate_page_count
  <2> QED
      BY <2>1, <2>7 DEF IInv
<1>3. CASE UNCHANGED flowVars
    BY <1>3, Untouched
<1> QED
    BY <1>1, <1>2, <1>3 DEF commit_word

LEMMA ResetStep ==
    ASSUME IInv, reset
    PROVE  IInv'
BY DefaultStep DEF reset, IInv, EntryInv, EntryTypes

LEMMA LoadStep ==
    ASSUME IInv, NEW indices, load_word_indices(indices)
    PROVE  IInv'
<1>1. CASE /\ indices \in [1 .. PrefixWordCount -> WordIndices]
           /\ word_indices' = indices /\ language_selected' = TRUE
           /\ clear_entry /\ clear_passphrase /\ clear_entropy(TRUE)
           /\ UNCHANGED language
  <2>1. indices \in Seq(WordIndices) /\ Len(indices) = PrefixWordCount
      BY <1>1, FlowAssumption
  <2>2. language \in Languages
      BY DEF IInv, EntryInv, EntryTypes
  <2>3. EntryInv'
      BY <1>1, <2>1, <2>2, EntryCleared, FlowAssumption
  <2>4. EntropyInv'
      BY <1>1, <2>1, EntropyCleared DEF is_complete
  <2> QED
      BY <1>1, <2>3, <2>4, PassphraseCleared DEF IInv
<1>2. CASE UNCHANGED flowVars
    BY <1>2, Untouched
<1> QED
    BY <1>1, <1>2 DEF load_word_indices

\* The pinyin picker opens only on a choice, turns only to pages there are,
\* and enters a word of the list.
LEMMA PinyinPickerStep ==
    ASSUME IInv,
           \/ open_pinyin_candidate_picker
           \/ close_pinyin_candidate_picker
           \/ \E direction \in DirectionInputs : change_pinyin_candidate_page(direction)
    PROVE  IInv'
<1> DEFINE OnlyPicker ==
        UNCHANGED <<languageVars, word_indices, prefix, last_letter_was_rejected,
                    entropyVars, finalPickerVars, passphraseVars>>
<1>1. ASSUME OnlyPicker, PinyinPickerMatchesEntry',
             pinyin_candidate_page' \in Nat, pinyin_candidate_picker_open' \in BOOLEAN,
             commit_feedback' \in {commit_feedback, NoFeedback}
      PROVE  IInv'
  <2>1. EntropyInv' /\ PassphraseInv'
      BY <1>1, EntropyUntouched, PassphraseUntouched DEF IInv
  <2>2. EntryTypes' /\ PrefixCanBecomeWord' /\ NothingEnteredBeforeLanguage'
      BY <1>1 DEF IInv, EntryInv, EntryTypes, PrefixCanBecomeWord,
                  NothingEnteredBeforeLanguage, languageVars, is_complete,
                  prefix_len_limit, prefix_has_matches, NoFeedback, Feedbacks
  <2>3. FeedbackIsCurrent'
      BY <1>1 DEF IInv, EntryInv, FeedbackIsCurrent, languageVars, is_complete,
                  prefix_match_count, NoFeedback
  <2> QED
      BY <1>1, <2>1, <2>2, <2>3 DEF IInv, EntryInv
<1>2. /\ PinyinPickerMatchesEntry
      /\ pinyin_candidate_page \in Nat /\ pinyin_candidate_picker_open \in BOOLEAN
      /\ language \in Languages
    BY DEF IInv, EntryInv, EntryTypes
<1>3. ASSUME OnlyPicker
      PROVE  UNCHANGED <<can_open_pinyin_candidate_picker, pinyin_candidate_page_count>>
    BY <1>3 DEF languageVars, can_open_pinyin_candidate_picker, selected_word_index,
                prefix_match_count, pinyin_candidate_page_count
<1>4. CASE open_pinyin_candidate_picker
  <2>1. CASE UNCHANGED flowVars
      BY <2>1, Untouched
  <2>2. CASE /\ can_open_pinyin_candidate_picker /\ pinyin_candidate_picker_open' = TRUE
             /\ commit_feedback' = NoFeedback /\ OnlyPicker
             /\ UNCHANGED pinyin_candidate_page
    <3>1. PinyinPickerMatchesEntry'
        BY <1>2, <1>3, <2>2 DEF PinyinPickerMatchesEntry
    <3> QED
        BY <1>1, <1>2, <2>2, <3>1
  <2> QED
      BY <1>4, <2>1, <2>2 DEF open_pinyin_candidate_picker
<1>5. CASE close_pinyin_candidate_picker
  <2>1. /\ pinyin_candidate_picker_open' = FALSE /\ OnlyPicker
        /\ UNCHANGED <<pinyin_candidate_page, commit_feedback>>
      BY <1>5 DEF close_pinyin_candidate_picker, entryVars
  <2>2. PinyinPickerMatchesEntry'
      BY <1>2, <1>3, <2>1 DEF PinyinPickerMatchesEntry
  <2> QED
      BY <1>1, <1>2, <2>1, <2>2
<1>6. ASSUME NEW direction \in DirectionInputs, change_pinyin_candidate_page(direction)
      PROVE  IInv'
  <2> DEFINE page_count == pinyin_candidate_page_count
  <2>1. CASE UNCHANGED flowVars
      BY <2>1, Untouched
  <2>2. CASE /\ pinyin_candidate_picker_open /\ page_count # 0
             /\ pinyin_candidate_page' =
                   PageAfter(pinyin_candidate_page, direction, page_count)
             /\ OnlyPicker
             /\ UNCHANGED <<pinyin_candidate_picker_open, commit_feedback>>
    <3>1. page_count \in Nat
        BY <1>2, CountIsOfRun, PageCount, FlowAssumption
        DEF pinyin_candidate_page_count, prefix_match_count
    <3>2. can_open_pinyin_candidate_picker /\ pinyin_candidate_page < page_count
        BY <1>2, <2>2, <3>1 DEF PinyinPickerMatchesEntry
    <3> HIDE DEF page_count
    <3>3. pinyin_candidate_page' \in Nat /\ pinyin_candidate_page' < page_count
        BY <1>2, <2>2, <3>1, <3>2, PageAfterStays
    <3>4. PinyinPickerMatchesEntry'
        BY <1>3, <2>2, <3>2, <3>3 DEF PinyinPickerMatchesEntry, page_count
    <3> QED
        BY <1>1, <1>2, <2>2, <3>3, <3>4
  <2> QED
      BY <1>6, <2>1, <2>2 DEF change_pinyin_candidate_page, entryVars
<1> QED
    BY <1>4, <1>5, <1>6

LEMMA SelectPinyinStep ==
    ASSUME IInv, NEW offset, select_pinyin_candidate(offset)
    PROVE  IInv'
<1>1. CASE /\ pinyin_candidate_at(offset) # NoIndex
           /\ accept_word_index(pinyin_candidate_at(offset))
  <2>1. /\ pinyin_candidate_picker_open
        /\ pinyin_candidate_at(offset) =
              word_index_at(prefix, pinyin_candidate_position(offset))
      BY <1>1 DEF pinyin_candidate_at
  <2>2. pinyin_candidate_at(offset) \in WordIndices
      BY <1>1, <2>1, WordIndexAtType
  <2>3. prefix # <<>> /\ ~is_complete
      BY <2>1 DEF IInv, EntryInv, PinyinPickerMatchesEntry,
                  can_open_pinyin_candidate_picker, PrefixCanBecomeWord
  <2> QED
      BY <1>1, <2>2, <2>3, AcceptStep
<1>2. CASE UNCHANGED flowVars
    BY <1>2, Untouched
<1> QED
    BY <1>1, <1>2 DEF select_pinyin_candidate

\* Choosing bits, by whatever means, while the words are complete.
LEMMA ChooseEntropyStep ==
    ASSUME IInv, is_complete, NEW bits \in EntropyValues, choose_entropy(bits),
           FinalWordPageExists', final_word_candidate_page' \in Nat,
           final_word_picker_open' \in BOOLEAN
    PROVE  IInv'
<1>1. EntryInv' /\ PassphraseInv'
    BY EntryUntouched, PassphraseUntouched DEF IInv, choose_entropy
<1>2. is_complete'
    BY DEF choose_entropy, is_complete
<1>3. EntropyInv'
    BY <1>2 DEF choose_entropy, EntropyInv, EntropyTypes, ConfirmedWhenComplete,
                NoEntropyWithoutWords
<1> QED
    BY <1>1, <1>3 DEF IInv

LEMMA BitsAndDiceStep ==
    ASSUME IInv,
           \/ \E bit \in -1 .. EntropyBitCount : toggle_entropy_bit(bit)
           \/ \E die \in 0 .. 2, face \in FaceInputs : set_entropy_die_face(die, face)
    PROVE  IInv'
<1>1. entropy_bits \in EntropyValues
    BY DEF IInv, EntropyInv, EntropyTypes
<1>2. ASSUME NEW bits \in EntropyValues, is_complete, choose_entropy(bits),
             UNCHANGED finalPickerVars
      PROVE  IInv'
  <2>1. /\ FinalWordPageExists' /\ final_word_candidate_page' \in Nat
        /\ final_word_picker_open' \in BOOLEAN
      BY <1>2 DEF IInv, EntropyInv, EntropyTypes, FinalWordPageExists,
                  final_word_candidate_page_count, finalPickerVars
  <2> QED
      BY <1>2, <2>1, ChooseEntropyStep
<1>3. ASSUME NEW bit, toggle_entropy_bit(bit)
      PROVE  IInv'
    BY <1>1, <1>2, <1>3, FlipBitType, Untouched DEF toggle_entropy_bit
<1>4. ASSUME NEW die, NEW face, set_entropy_die_face(die, face)
      PROVE  IInv'
    BY <1>1, <1>2, <1>4, OctalFaceWritten, HexFaceWritten, Untouched
    DEF set_entropy_die_face
<1> QED
    BY <1>3, <1>4

LEMMA FinalPickerStep ==
    ASSUME IInv,
           \/ open_final_word_picker
           \/ close_final_word_picker
           \/ \E direction \in DirectionInputs : change_final_word_candidate_page(direction)
           \/ \E offset \in OffsetInputs(FinalWordsPerPage) :
                 select_final_word_candidate(offset)
    PROVE  IInv'
<1>1. /\ entropy_bits \in EntropyValues /\ FinalWordPageExists
      /\ final_word_candidate_page \in Nat /\ final_word_picker_open \in BOOLEAN
      /\ NoEntropyWithoutWords /\ ConfirmedWhenComplete
    BY DEF IInv, EntropyInv, EntropyTypes
<1>2. FinalWordsPerPage \in Nat \ {0} /\ CandidateCount \in Nat
    BY FlowAssumption, SomeCandidate
<1>3. ASSUME UNCHANGED <<languageVars, word_indices, entryVars, pinyinVars, entropyVars,
                         passphraseVars>>,
             FinalWordPageExists', final_word_candidate_page' \in Nat,
             final_word_picker_open' \in BOOLEAN,
             is_complete \/ (final_word_candidate_page' = 0 /\ ~final_word_picker_open')
      PROVE  IInv'
  <2>1. EntryInv' /\ PassphraseInv'
      BY <1>3, EntryUntouched, PassphraseUntouched DEF IInv
  <2>2. EntropyTypes' /\ ConfirmedWhenComplete'
      BY <1>3 DEF IInv, EntropyInv, EntropyTypes, ConfirmedWhenComplete, entropyVars,
                  is_complete
  <2>3. NoEntropyWithoutWords'
      BY <1>1, <1>3 DEF NoEntropyWithoutWords, entropyVars, is_complete
  <2> QED
      BY <1>3, <2>1, <2>2, <2>3 DEF IInv, EntropyInv
<1>4. CASE open_final_word_picker
  <2>1. CASE is_complete
    <3>1. /\ final_word_candidate_page' = entropy_bits \div FinalWordsPerPage
          /\ final_word_picker_open' = TRUE
          /\ UNCHANGED <<languageVars, word_indices, entryVars, pinyinVars,
                         entropyVars, passphraseVars>>
        BY <1>4, <2>1 DEF open_final_word_picker
    <3>2. /\ entropy_bits \div FinalWordsPerPage \in Nat
          /\ entropy_bits \div FinalWordsPerPage < CeilDiv(CandidateCount, FinalWordsPerPage)
        BY <1>1, <1>2, PageOfItem DEF EntropyValues
    <3>3. FinalWordPageExists' /\ final_word_candidate_page' \in Nat
        BY <3>1, <3>2 DEF FinalWordPageExists, final_word_candidate_page_count
    <3> QED
        BY <1>3, <2>1, <3>1, <3>3
  <2>2. CASE ~is_complete
      BY <1>4, <2>2, Untouched DEF open_final_word_picker
  <2> QED
      BY <2>1, <2>2
<1>5. CASE close_final_word_picker
  <2>1. /\ final_word_picker_open' = FALSE
        /\ UNCHANGED final_word_candidate_page
        /\ UNCHANGED <<languageVars, word_indices, entryVars, pinyinVars, entropyVars,
                       passphraseVars>>
      BY <1>5 DEF close_final_word_picker
  <2>2. FinalWordPageExists'
      BY <1>1, <2>1 DEF FinalWordPageExists, final_word_candidate_page_count
  <2> QED
      BY <1>1, <1>3, <2>1, <2>2 DEF NoEntropyWithoutWords
<1>6. ASSUME NEW direction \in DirectionInputs, change_final_word_candidate_page(direction)
      PROVE  IInv'
  <2> DEFINE page_count == final_word_candidate_page_count
  <2>1. CASE UNCHANGED flowVars
      BY <2>1, Untouched
  <2>2. CASE /\ final_word_picker_open
             /\ final_word_candidate_page' =
                   PageAfter(final_word_candidate_page, direction, page_count)
             /\ UNCHANGED final_word_picker_open
             /\ UNCHANGED <<languageVars, word_indices, entryVars, pinyinVars,
                            entropyVars, passphraseVars>>
    <3>1. page_count \in Nat /\ page_count' = page_count
        BY <1>2, PageCount DEF final_word_candidate_page_count
    <3>2. final_word_candidate_page < page_count
        BY <1>1 DEF FinalWordPageExists
    <3> HIDE DEF page_count
    <3>3. final_word_candidate_page' \in Nat /\ final_word_candidate_page' < page_count
        BY <1>1, <2>2, <3>1, <3>2, PageAfterStays
    <3>4. FinalWordPageExists'
        BY <3>1, <3>3 DEF FinalWordPageExists, page_count
    <3>5. is_complete
        BY <1>1, <2>2 DEF NoEntropyWithoutWords
    <3> QED
        BY <1>1, <1>3, <2>2, <3>3, <3>4, <3>5
  <2> QED
      BY <1>6, <2>1, <2>2 DEF change_final_word_candidate_page
<1>7. ASSUME NEW offset \in OffsetInputs(FinalWordsPerPage),
             select_final_word_candidate(offset)
      PROVE  IInv'
  <2>1. CASE UNCHANGED flowVars
      BY <2>1, Untouched
  <2>2. CASE /\ selectable_final_word(offset)
             /\ choose_entropy(final_word_position(offset))
             /\ final_word_picker_open' = FALSE
             /\ UNCHANGED final_word_candidate_page
    <3>1. is_complete
        BY <1>1, <2>2 DEF selectable_final_word, NoEntropyWithoutWords
    <3>2. final_word_position(offset) \in EntropyValues
      <4>1. /\ offset \in Nat
            /\ final_word_candidate_page * FinalWordsPerPage + offset < CandidateCount
          BY <1>2, <2>2 DEF selectable_final_word, final_word_position
      <4>2. final_word_candidate_page * FinalWordsPerPage \in Nat
          BY <1>1, <1>2
      <4> QED
          BY <1>2, <4>1, <4>2 DEF final_word_position, EntropyValues
    <3>3. FinalWordPageExists'
        BY <1>1, <2>2 DEF FinalWordPageExists, final_word_candidate_page_count
    <3> QED
        BY <1>1, <2>2, <3>1, <3>2, <3>3, ChooseEntropyStep
  <2> QED
      BY <1>7, <2>1, <2>2 DEF select_final_word_candidate
<1> QED
    BY <1>4, <1>5, <1>6, <1>7

LEMMA PassphraseEditorStep ==
    ASSUME IInv, PassphraseStep
    PROVE  IInv'
<1>1. UNCHANGED <<languageVars, word_indices, entryVars, pinyinVars, entropyVars,
                  finalPickerVars>>
    BY DEF PassphraseStep, open_passphrase_editor, append_passphrase_key,
           backspace_passphrase, toggle_passphrase_visibility, save_passphrase,
           cancel_passphrase_editor, flowVars
<1>2. EntryInv' /\ EntropyInv'
    BY <1>1, EntryUntouched, EntropyUntouched DEF IInv
<1>3. PassphraseTypes /\ DraftOnlyInEditor
    BY DEF IInv, PassphraseInv
<1>4. CASE UNCHANGED flowVars
    BY <1>4, Untouched
<1>5. CASE open_passphrase_editor
    BY <1>2, <1>3, <1>5 DEF open_passphrase_editor, IInv, PassphraseInv,
                            PassphraseTypes, DraftOnlyInEditor
<1>6. ASSUME NEW key, append_passphrase_key(key), can_append_passphrase_key(key)
      PROVE  IInv'
  <2>1. /\ key \in PassphraseKeys /\ Len(passphrase_draft) + 1 <= MaxPassphraseBytes
        /\ passphrase_draft \in Seq(PassphraseKeys)
        /\ passphrase_draft' = Append(passphrase_draft, key)
        /\ passphrase_editor_open
        /\ UNCHANGED <<passphrase, passphrase_editor_open, passphrase_visible>>
      BY <1>3, <1>6 DEF append_passphrase_key, can_append_passphrase_key, PassphraseTypes
  <2>2. /\ passphrase_draft' \in Seq(PassphraseKeys)
        /\ Len(passphrase_draft') = Len(passphrase_draft) + 1
      BY <2>1
  <2> QED
      BY <1>2, <1>3, <2>1, <2>2 DEF IInv, PassphraseInv, PassphraseTypes, DraftOnlyInEditor
<1>7. CASE /\ passphrase_editor_open /\ passphrase_draft # <<>>
           /\ passphrase_draft' = SubSeq(passphrase_draft, 1, Len(passphrase_draft) - 1)
           /\ UNCHANGED <<passphrase, passphrase_editor_open, passphrase_visible>>
  <2>1. passphrase_draft \in Seq(PassphraseKeys) /\ Len(passphrase_draft) <= MaxPassphraseBytes
      BY <1>3 DEF PassphraseTypes
  <2>2. /\ passphrase_draft' \in Seq(PassphraseKeys)
        /\ Len(passphrase_draft') = Len(passphrase_draft) - 1
        /\ Len(passphrase_draft) \in Nat
      BY <1>7, <2>1, DropLast
  <2>3. Len(passphrase_draft') <= MaxPassphraseBytes
      BY <2>1, <2>2, FlowAssumption
  <2> QED
      BY <1>2, <1>3, <1>7, <2>2, <2>3
      DEF IInv, PassphraseInv, PassphraseTypes, DraftOnlyInEditor
<1>8. CASE /\ passphrase_editor_open /\ passphrase_visible' = ~passphrase_visible
           /\ UNCHANGED <<passphrase, passphrase_draft, passphrase_editor_open>>
    BY <1>2, <1>3, <1>8 DEF IInv, PassphraseInv, PassphraseTypes, DraftOnlyInEditor
<1>9. CASE /\ passphrase' \in {passphrase, passphrase_draft}
           /\ passphrase_draft' = <<>> /\ passphrase_editor_open' = FALSE
           /\ passphrase_visible' = FALSE
  <2>1. /\ passphrase' \in Seq(PassphraseKeys) /\ Len(passphrase') <= MaxPassphraseBytes
        /\ passphrase_draft' \in Seq(PassphraseKeys)
        /\ Len(passphrase_draft') <= MaxPassphraseBytes
      BY <1>3, <1>9, FlowAssumption DEF PassphraseTypes
  <2>2. /\ passphrase_editor_open' \in BOOLEAN /\ passphrase_visible' \in BOOLEAN
        /\ DraftOnlyInEditor'
      BY <1>9 DEF DraftOnlyInEditor
  <2> QED
      BY <1>2, <2>1, <2>2 DEF IInv, PassphraseInv, PassphraseTypes
<1> QED
    BY <1>4, <1>5, <1>6, <1>7, <1>8, <1>9
    DEF PassphraseStep, append_passphrase_key, backspace_passphrase,
        toggle_passphrase_visibility, save_passphrase, cancel_passphrase_editor
-----------------------------------------------------------------------------
(***************************************************************************)
(* The invariants of the specification                                     *)
(***************************************************************************)
LEMMA InitInv == Init => IInv
<1> SUFFICES ASSUME Init PROVE IInv
    OBVIOUS
<1>1. EntryInv
  <2>1. /\ language \in Languages
        /\ word_indices \in Seq(WordIndices) /\ Len(word_indices) <= PrefixWordCount
        /\ prefix \in Seq(Letters) /\ Len(prefix) <= prefix_len_limit
        /\ pinyin_candidate_page \in Nat /\ commit_feedback \in Feedbacks
      BY FlowAssumption DEF Init, Languages, NoFeedback, Feedbacks, prefix_len_limit
  <2>2. /\ language_selected \in BOOLEAN /\ last_letter_was_rejected \in BOOLEAN
        /\ pinyin_candidate_picker_open \in BOOLEAN
        /\ PrefixCanBecomeWord /\ PinyinPickerMatchesEntry
        /\ NothingEnteredBeforeLanguage
      BY DEF Init, PrefixCanBecomeWord, PinyinPickerMatchesEntry,
             NothingEnteredBeforeLanguage
  <2>3. FeedbackIsCurrent
      BY DEF Init, FeedbackIsCurrent, NoFeedback
  <2> QED
      BY <2>1, <2>2, <2>3 DEF EntryInv, EntryTypes
<1>2. ~is_complete
    BY FlowAssumption DEF Init, is_complete
<1>3. EntropyInv
  <2>1. entropy_bits \in EntropyValues /\ final_word_candidate_page \in Nat
      BY SomeCandidate DEF Init, EntropyValues
  <2>2. FinalWordPageExists
      BY SomeCandidate, PageCount, FlowAssumption
      DEF Init, FinalWordPageExists, final_word_candidate_page_count
  <2>3. /\ entropy_confirmed \in BOOLEAN /\ final_word_picker_open \in BOOLEAN
        /\ ConfirmedWhenComplete /\ NoEntropyWithoutWords
      BY <1>2 DEF Init, ConfirmedWhenComplete, NoEntropyWithoutWords
  <2> QED
      BY <2>1, <2>2, <2>3 DEF EntropyInv, EntropyTypes
<1>4. PassphraseInv
  <2>1. /\ passphrase \in Seq(PassphraseKeys) /\ Len(passphrase) <= MaxPassphraseBytes
        /\ passphrase_draft \in Seq(PassphraseKeys)
        /\ Len(passphrase_draft) <= MaxPassphraseBytes
      BY FlowAssumption DEF Init
  <2>2. /\ passphrase_editor_open \in BOOLEAN /\ passphrase_visible \in BOOLEAN
        /\ DraftOnlyInEditor
      BY DEF Init, DraftOnlyInEditor
  <2> QED
      BY <2>1, <2>2 DEF PassphraseInv, PassphraseTypes
<1> QED
    BY <1>1, <1>3, <1>4 DEF IInv

LEMMA NextInv == IInv /\ [Next]_flowVars => IInv'
<1> SUFFICES ASSUME IInv, [Next]_flowVars PROVE IInv'
    OBVIOUS
<1>1. CASE EntryStep
    BY <1>1, SelectLanguageStep, PushLetterStep, BackspaceStep, CommitWordStep,
       ResetStep, LoadStep DEF EntryStep
<1>2. CASE PinyinStep
    BY <1>2, PinyinPickerStep, SelectPinyinStep DEF PinyinStep
<1>3. CASE EntropyStep
    BY <1>3, BitsAndDiceStep, FinalPickerStep DEF EntropyStep
<1>4. CASE PassphraseStep
    BY <1>4, PassphraseEditorStep
<1>5. CASE UNCHANGED flowVars
    BY <1>5, Untouched
<1> QED
    BY <1>1, <1>2, <1>3, <1>4, <1>5 DEF Next

LEMMA Invariance == Spec => []IInv
BY InitInv, NextInv, PTL DEF Spec

\* The fields of the flow keep to their types and limits.
THEOREM TypeCorrect == Spec => []TypeOK
<1>1. IInv => TypeOK
    BY DEF IInv, EntryInv, EntropyInv, PassphraseInv, TypeOK
<1> QED
    BY <1>1, Invariance, PTL

\* Words, language choice, entropy and passphrase editor are about the same
\* mnemonic after every operation.
THEOREM FieldsStayTogether == Spec => []FieldsBelongTogether
<1>1. IInv => FieldsBelongTogether
    BY DEF IInv, EntryInv, EntropyInv, PassphraseInv, FieldsBelongTogether
<1> QED
    BY <1>1, Invariance, PTL

\* Typing and backspacing never leave the beginnings of the list's words.
THEOREM TypingStaysInTheList == Spec => []PrefixCanBecomeWord
<1>1. IInv => PrefixCanBecomeWord
    BY DEF IInv, EntryInv
<1> QED
    BY <1>1, Invariance, PTL

\* An open picker offers the words of the prefix on screen, on a page there is.
THEOREM PickersFollowEntry == Spec => []PickersMatchEntry
<1>1. IInv => PickersMatchEntry
    BY DEF IInv, EntryInv, EntropyInv, PickersMatchEntry
<1> QED
    BY <1>1, Invariance, PTL

\* The complaint about the entry counts the matches of the entry on screen.
THEOREM FeedbackFollowsEntry == Spec => []FeedbackIsCurrent
<1>1. IInv => FeedbackIsCurrent
    BY DEF IInv, EntryInv
<1> QED
    BY <1>1, Invariance, PTL

\* The keys the keyboard enables are the keys push_letter accepts.
THEOREM KeyboardAgreesWithEntry == Spec => []EnabledLettersAreAccepted
<1>1. ASSUME IInv
      PROVE  EnabledLettersAreAccepted
  <2>1. language \in Languages /\ prefix \in Seq(Letters)
      BY <1>1 DEF IInv, EntryInv, EntryTypes
  <2>2. NextLetters(language, prefix) =
            {letter \in Letters : prefix_has_matches(Append(prefix, letter))}
      BY <2>1, NextLettersExtend DEF prefix_has_matches
  <2> QED
      BY <2>2 DEF EnabledLettersAreAccepted, next_letter_enabled
<1> QED
    BY <1>1, Invariance, PTL

\* A prefix as long as may be typed is the beginning of at most one English word.
LEMMA LimitIdentifies ==
    ASSUME NEW spelling \in Seq(Letters), Len(spelling) = MaxEnglishPrefixLen,
           Run(English, spelling) # {}
    PROVE  prefix_match_count_for(English, spelling) = 1
<1> DEFINE R == Run(English, spelling)
<1>1. R = {i \in DOMAIN EnglishWords : StartsWith(EnglishWords[i], spelling)}
    BY SearchFindsEveryWord DEF Beginning, Spellings, Languages, English, SimplifiedChinese
<1>2. \A i \in DOMAIN EnglishWords : EnglishWords[i] \in Seq(Letters)
    BY WordListAssumption
<1>3. \A i \in R :
          /\ i \in DOMAIN EnglishWords
          /\ Len(EnglishWords[i]) >= MaxEnglishPrefixLen
          /\ \A k \in 1 .. MaxEnglishPrefixLen : EnglishWords[i][k] = spelling[k]
  <2> HIDE DEF R
  <2> QED
      BY <1>1, <1>2, StartsWithLetters
<1> HIDE DEF R
<1>4. \A i, j \in R : i = j
    BY <1>3, SpellingAssumption
<1>5. PICK i \in R : R = {i}
    BY <1>4 DEF R
<1>6. Cardinality(R) = 1
    BY <1>5, FS_Singleton
<1>7. prefix_match_count_for(English, spelling) = Cardinality(R)
    BY RunOf DEF prefix_match_count_for, R, English, SimplifiedChinese
<1> QED
    BY <1>6, <1>7

\* Where no word goes on after the prefix, the prefix is a word itself.
LEMMA NoLetterMeansWord ==
    ASSUME NEW lang \in Languages, NEW spelling \in Seq(Letters),
           Run(lang, spelling) # {},
           NextLetters(lang, spelling) = {}
    PROVE  \E i \in DOMAIN Spellings(lang) : Spellings(lang)[i] = spelling
<1> DEFINE list == Spellings(lang)
<1>1. PICK i \in DOMAIN list : i \in Run(lang, spelling) /\ StartsWith(list[i], spelling)
    BY SearchFindsEveryWord DEF Beginning
<1>2. list[i] \in Seq(Letters)
    BY <1>1, SpellingsType
<1>3. NextLetters(lang, spelling) = FollowingLetters(list, spelling)
    BY DEF NextLetters, Spellings, Languages, English, SimplifiedChinese
<1>4. ~(Len(list[i]) > Len(spelling))
  <2>1. FollowingLetters(list, spelling) = {}
      BY <1>3
  <2> QED
      BY <1>1, <2>1 DEF FollowingLetters, Run
<1> HIDE DEF list
<1>5. /\ Len(spelling) <= Len(list[i])
      /\ \A k \in 1 .. Len(spelling) : spelling[k] = list[i][k]
    BY <1>1, <1>2, StartsWithLetters
<1>6. list[i] = spelling
    BY <1>2, <1>4, <1>5
<1> QED
    BY <1>1, <1>6 DEF list

\* The keyboard of an empty entry has a key.
LEMMA FirstLetters ==
    ASSUME NEW lang \in Languages
    PROVE  NextLetters(lang, <<>>) # {}
<1> DEFINE list == Spellings(lang)
<1>0. <<>> \in Seq(Letters) /\ Len(<<>>) = 0
    OBVIOUS
<1>1. /\ \A i \in DOMAIN list : list[i] \in Seq(Letters) /\ list[i] # <<>>
      /\ DOMAIN list # {}
  <2>1. CASE lang = English
    <3>1. list = EnglishWords
        BY <2>1 DEF Spellings, English, SimplifiedChinese
    <3>2. DOMAIN list = 1 .. WordListSize /\ 1 \in 1 .. WordListSize
        BY <3>1, WordListAssumption
    <3>3. \A i \in DOMAIN list : list[i] \in Seq(Letters)
        BY SpellingsType
    <3> QED
        BY <3>1, <3>2, <3>3, SpellingAssumption
  <2>2. CASE lang = SimplifiedChinese
    <3>1. list = PinyinSpellings
        BY <2>2 DEF Spellings, English, SimplifiedChinese
    <3>2. DOMAIN list = DOMAIN PinyinEntries
        BY <3>1 DEF PinyinSpellings
    <3>3. \A i \in DOMAIN list : list[i] = PinyinEntries[i].spelling
        BY <3>1 DEF PinyinSpellings
    <3>4. \A i \in DOMAIN list : list[i] \in Seq(Letters)
        BY SpellingsType
    <3>5. DOMAIN PinyinEntries # {}
      <4>1. \A S : \A q \in Seq(S) : q # <<>> => 1 \in DOMAIN q
          OBVIOUS
      <4> QED
          BY <4>1, WordListAssumption, SpellingAssumption
    <3> QED
        BY <3>2, <3>3, <3>4, <3>5, SpellingAssumption
  <2> QED
      BY <2>1, <2>2 DEF Languages
<1> HIDE DEF list
<1>2. PICK i \in DOMAIN list : list[i] \in Seq(Letters) /\ list[i] # <<>>
    BY <1>1
<1>3. StartsWith(list[i], <<>>)
  <2>1. Len(<<>>) <= Len(list[i]) /\ \A k \in 1 .. Len(<<>>) : FALSE
      BY <1>0, <1>2
  <2>2. StartsWith(list[i], <<>>) <=>
            /\ Len(<<>>) <= Len(list[i])
            /\ \A k \in 1 .. Len(<<>>) : <<>>[k] = list[i][k]
      BY ONLY <1>0, <1>2, StartsWithLetters
  <2> QED
      BY <2>1, <2>2
<1>4. i \in Run(lang, <<>>)
    BY <1>0, <1>2, <1>3, SearchFindsEveryWord DEF Beginning, list
<1>5. ASSUME NextLetters(lang, <<>>) = {}
      PROVE  FALSE
  <2>1. PICK j \in DOMAIN list : list[j] = <<>>
      BY <1>0, <1>4, <1>5, NoLetterMeansWord DEF list
  <2> QED
      BY <1>1, <2>1
<1> QED
    BY <1>5

\* As long as a word is missing a letter can be typed, or "Use word" accepts a
\* word or opens a choice.
THEOREM EntryGoesOn == Spec => []EntryHasAWayForward
<1>1. ASSUME IInv, ~is_complete
      PROVE  next_letter_enabled # {} \/ can_commit_or_choose
  <2>1. /\ language \in Languages /\ prefix \in Seq(Letters)
        /\ prefix # <<>> => prefix_match_count > 0
      BY <1>1 DEF IInv, EntryInv, EntryTypes, PrefixCanBecomeWord, prefix_has_matches,
                  prefix_match_count
  <2>2. CASE prefix = <<>>
    <3>1. accepts_letters
        BY <1>1, <2>2, FlowAssumption DEF accepts_letters, prefix_len_limit
    <3> QED
        BY <2>1, <2>2, <3>1, FirstLetters DEF next_letter_enabled
  <2>3. CASE prefix # <<>> /\ language = SimplifiedChinese
      BY <2>1, <2>3 DEF can_commit_or_choose, can_open_pinyin_candidate_picker
  <2>4. CASE prefix # <<>> /\ language = English
    <3>1. Run(English, prefix) # {}
        BY <2>1, <2>4, CountIsOfRun DEF prefix_match_count
    <3>2. selected_word_index = IndexForPrefix(English, prefix)
        BY <2>4 DEF selected_word_index
    <3>3. CASE accepts_letters /\ NextLetters(English, prefix) # {}
        BY <2>4, <3>3 DEF next_letter_enabled
    <3>4. CASE NextLetters(English, prefix) = {}
      <4>1. PICK i \in DOMAIN EnglishWords : EnglishWords[i] = prefix
          BY <2>1, <3>1, <3>4, NoLetterMeansWord
          DEF Spellings, Languages, English, SimplifiedChinese
      <4>2. word_index(prefix) # NoIndex
          BY <4>1, WordIndexOfWord
      <4>3. IndexForPrefix(English, prefix) = word_index(prefix)
          BY <4>2 DEF IndexForPrefix, English, SimplifiedChinese
      <4> QED
          BY <3>2, <4>2, <4>3 DEF can_commit_or_choose
    <3>5. CASE ~accepts_letters
      <4>1. Len(prefix) = MaxEnglishPrefixLen
          BY <1>1, <2>4, <3>5 DEF accepts_letters, prefix_len_limit
      <4>2. prefix_match_count_for(English, prefix) = 1
          BY <2>1, <3>1, <4>1, LimitIdentifies
      <4>3. IndexForPrefix(English, prefix) # NoIndex
          BY <4>2, IndexForPrefixIsAWord DEF Languages
      <4> QED
          BY <3>2, <4>3 DEF can_commit_or_choose
    <3> QED
        BY <3>3, <3>4, <3>5
  <2> QED
      BY <2>1, <2>2, <2>3, <2>4 DEF Languages
<1>2. IInv => EntryHasAWayForward
    BY <1>1 DEF EntryHasAWayForward
<1> QED
    BY <1>2, Invariance, PTL

\* Turning the pages of the pinyin picker meets every character whose pinyin
\* starts with the prefix, on one button of one page.
THEOREM EveryMatchHasOneButton ==
    ASSUME NEW spelling \in Seq(Letters), NEW p \in DOMAIN PinyinEntries,
           StartsWith(PinyinEntries[p].spelling, spelling)
    PROVE  \E page \in 0 .. CeilDiv(PinyinCount(spelling), PinyinPerPage) - 1,
              offset \in 0 .. PinyinPerPage - 1 :
               /\ word_index_at(spelling, page * PinyinPerPage + offset) =
                      PinyinEntries[p].index
               /\ \A position \in Nat :
                      word_index_at(spelling, position) = PinyinEntries[p].index =>
                          position = page * PinyinPerPage + offset
<1> DEFINE n == PinyinCount(spelling)
<1> DEFINE k == PinyinPerPage
<1> DEFINE at(position) == word_index_at(spelling, position)
<1>1. /\ n \in Nat
      /\ \A position \in Nat : at(position) # NoIndex => position < n
      /\ \A position, other \in 0 .. n - 1 : at(position) = at(other) => position = other
    BY CandidatesAreTheMatches
<1>2. PICK position \in 0 .. n - 1 : at(position) = PinyinEntries[p].index
  <2>1. p \in {e \in DOMAIN PinyinEntries : StartsWith(PinyinEntries[e].spelling, spelling)}
      OBVIOUS
  <2>2. {word_index_at(spelling, position) : position \in 0 .. PinyinCount(spelling) - 1} =
            {PinyinEntries[q].index :
                q \in {e \in DOMAIN PinyinEntries :
                         StartsWith(PinyinEntries[e].spelling, spelling)}}
      BY CandidatesAreTheMatches
  <2>3. PinyinEntries[p].index \in
            {word_index_at(spelling, position) :
                position \in 0 .. PinyinCount(spelling) - 1}
    <3> HIDE DEF n, at
    <3> QED
        BY <2>1, <2>2
  <2> QED
      BY <2>3
<1>3. at(position) # NoIndex
    BY <1>2, EntryIndexType DEF WordIndices, NoIndex
<1>4. k \in Nat \ {0}
    BY FlowAssumption
<1> HIDE DEF n, k, at
<1>5. \A other \in Nat : at(other) = at(position) => other = position
  <2>1. ASSUME NEW other \in Nat, at(other) = at(position)
        PROVE  other = position
    <3>1. other \in 0 .. n - 1
        BY <1>1, <1>3, <2>1
    <3> QED
        BY <1>1, <1>2, <2>1, <3>1
  <2> QED
      BY <2>1
<1>6. /\ position \div k \in 0 .. CeilDiv(n, k) - 1
      /\ position % k \in 0 .. k - 1
      /\ position = (position \div k) * k + (position % k)
  <2>1. position \in Nat
      BY <1>1, <1>2
  <2>2. /\ position \div k \in Nat /\ position % k \in 0 .. k - 1
        /\ position = k * (position \div k) + (position % k)
      BY <1>4, <2>1, Division
  <2>3. position \div k < CeilDiv(n, k)
      BY <1>1, <1>4, PageOfItem
  <2>4. CeilDiv(n, k) \in Nat
      BY <1>1, <1>4, PageCount
  <2>5. k * (position \div k) = (position \div k) * k
      BY <1>4, <2>2
  <2> QED
      BY <2>2, <2>3, <2>4, <2>5
<1>7. \E page \in 0 .. CeilDiv(n, k) - 1, offset \in 0 .. k - 1 :
          position = page * k + offset
    BY <1>6
<1>8. /\ at(position) = PinyinEntries[p].index
      /\ \A other \in Nat : at(other) = PinyinEntries[p].index => other = position
    BY <1>2, <1>5
<1>9. \E page \in 0 .. CeilDiv(n, k) - 1, offset \in 0 .. k - 1 :
          /\ at(page * k + offset) = PinyinEntries[p].index
          /\ \A other \in Nat :
                 at(other) = PinyinEntries[p].index => other = page * k + offset
    BY <1>7, <1>8
<1> QED
    BY <1>9 DEF n, k, at

\* A picker never opens, pages or stays on a page without a word: its first
\* button always has a label.
NoBlankPage ==
    /\ pinyin_candidate_picker_open => pinyin_candidate_labels[0] # NoIndex
    /\ final_word_picker_open => final_word_candidate_labels[0] # NoIndex

\* Whatever is typed, removed, reset or paged, an open picker shows a word.
THEOREM PagesAreNeverBlank == Spec => []NoBlankPage
<1>1. ASSUME IInv, pinyin_candidate_picker_open
      PROVE  pinyin_candidate_labels[0] # NoIndex
  <2>1. /\ language = SimplifiedChinese /\ prefix \in Seq(Letters)
        /\ pinyin_candidate_page \in Nat
        /\ prefix_match_count > 0
        /\ pinyin_candidate_page # 0 => pinyin_candidate_page < pinyin_candidate_page_count
      BY <1>1 DEF IInv, EntryInv, EntryTypes, PinyinPickerMatchesEntry,
                  can_open_pinyin_candidate_picker
  <2>2. PinyinPerPage \in Nat \ {0}
      BY FlowAssumption
  <2>3. prefix_match_count = PinyinCount(prefix) /\ PinyinCount(prefix) \in Nat
      BY <2>1, DistinctFinite
      DEF prefix_match_count, prefix_match_count_for, English, SimplifiedChinese
  <2>4. pinyin_candidate_page < CeilDiv(PinyinCount(prefix), PinyinPerPage)
      BY <2>1, <2>2, <2>3, PageCount DEF pinyin_candidate_page_count
  <2>5. pinyin_candidate_page * PinyinPerPage < PinyinCount(prefix)
      BY <2>1, <2>2, <2>3, <2>4, PageStarts
  <2>6. pinyin_candidate_position(0) = pinyin_candidate_page * PinyinPerPage
        /\ pinyin_candidate_position(0) \in Nat
      BY <2>1, <2>2 DEF pinyin_candidate_position
  <2>7. word_index_at(prefix, pinyin_candidate_position(0)) # NoIndex
      BY <2>1, <2>5, <2>6, CandidatesAreTheMatches
  <2>8. 0 \in 0 .. PinyinPerPage - 1
      BY <2>2
  <2> QED
      BY <2>1, <2>7, <2>8 DEF pinyin_candidate_labels
<1>2. ASSUME IInv, final_word_picker_open
      PROVE  final_word_candidate_labels[0] # NoIndex
  <2>1. is_complete /\ final_word_candidate_page \in Nat
        /\ final_word_candidate_page < CeilDiv(CandidateCount, FinalWordsPerPage)
      BY <1>2 DEF IInv, EntropyInv, EntropyTypes, NoEntropyWithoutWords,
                  FinalWordPageExists, final_word_candidate_page_count
  <2>2. FinalWordsPerPage \in Nat \ {0}
      BY FlowAssumption
  <2>3. final_word_candidate_page * FinalWordsPerPage < CandidateCount
      BY <2>1, <2>2, SomeCandidate, PageStarts
  <2>4. final_word_position(0) = final_word_candidate_page * FinalWordsPerPage
        /\ final_word_position(0) \in Nat
      BY <2>1, <2>2 DEF final_word_position
  <2>5. 0 \in 0 .. FinalWordsPerPage - 1
      BY <2>2
  <2>6. final_word_candidate_labels[0] = final_word_position(0)
      BY <1>2, <2>1, <2>3, <2>4, <2>5 DEF final_word_candidate_labels
  <2> QED
      BY <2>4, <2>6 DEF NoIndex
<1>3. IInv => NoBlankPage
    BY <1>1, <1>2 DEF NoBlankPage
<1> QED
    BY <1>3, Invariance, PTL
-----------------------------------------------------------------------------
(***************************************************************************)
(* What a step may do                                                      *)
(***************************************************************************)
\* Every change of the words starts from entropy zero and a closed picker.
THEOREM NewWordsStartNewEntropy == Spec => NewWordsNewEntropy
<1>1. ASSUME [Next]_flowVars, word_indices' # word_indices
      PROVE  entropy_bits' = 0 /\ ~final_word_picker_open'
  <2>1. \E complete \in BOOLEAN : clear_entropy(complete)
      BY <1>1 DEF Next, EntryStep, PinyinStep, EntropyStep, PassphraseStep,
         select_language, push_letter, backspace, commit_word, reset,
         load_word_indices, become_default, accept_word_index,
         open_pinyin_candidate_picker, close_pinyin_candidate_picker,
         change_pinyin_candidate_page, select_pinyin_candidate, toggle_entropy_bit,
         set_entropy_die_face, choose_entropy, open_final_word_picker,
         close_final_word_picker, change_final_word_candidate_page,
         select_final_word_candidate, open_passphrase_editor, append_passphrase_key,
         backspace_passphrase, toggle_passphrase_visibility, save_passphrase,
         cancel_passphrase_editor, flowVars
  <2> QED
      BY <2>1 DEF clear_entropy
<1>2. [Next]_flowVars =>
          [word_indices' # word_indices =>
              entropy_bits' = 0 /\ ~final_word_picker_open']_flowVars
    BY <1>1
<1> QED
    BY <1>2, PTL DEF Spec, NewWordsNewEntropy

\* One die never turns the other.
THEOREM DiceDoNotDisturb == Spec => DiceAreIndependent
<1> DEFINE A ==
        /\ \A face \in 1 .. OctalFaces :
             is_complete /\ set_entropy_die_face(0, face) =>
                octal_face' = face /\ hex_face' = hex_face
        /\ \A face \in 1 .. HexFaces :
             is_complete /\ set_entropy_die_face(1, face) =>
                hex_face' = face /\ octal_face' = octal_face
<1>1. ASSUME IInv
      PROVE  A
  <2>1. entropy_bits \in EntropyValues
      BY <1>1 DEF IInv, EntropyInv, EntropyTypes
  <2>2. OctalFaces \in Nat \ {0} /\ HexFaces \in Nat \ {0}
      BY FlowAssumption
  <2>3. ASSUME NEW face \in 1 .. OctalFaces, is_complete, set_entropy_die_face(0, face)
        PROVE  octal_face' = face /\ hex_face' = hex_face
    <3>1. entropy_bits' = WithOctalFace(entropy_bits, face)
        BY <2>3 DEF set_entropy_die_face, choose_entropy
    <3>2. octal_face' = (face - 1) + 1 /\ hex_face' = hex_face
        BY <2>1, <3>1, OctalFaceWritten DEF octal_face, hex_face
    <3> QED
        BY <2>2, <3>2
  <2>4. ASSUME NEW face \in 1 .. HexFaces, is_complete, set_entropy_die_face(1, face)
        PROVE  hex_face' = face /\ octal_face' = octal_face
    <3>1. entropy_bits' = WithHexFace(entropy_bits, face)
        BY <2>4 DEF set_entropy_die_face, choose_entropy
    <3>2. hex_face' = (face - 1) + 1 /\ octal_face' = octal_face
        BY <2>1, <3>1, HexFaceWritten DEF octal_face, hex_face
    <3> QED
        BY <2>2, <3>2
  <2> QED
      BY <2>3, <2>4
<1>2. IInv /\ [Next]_flowVars => [A]_flowVars
    BY <1>1
<1> QED
    BY <1>2, Invariance, PTL DEF Spec, DiceAreIndependent

-----------------------------------------------------------------------------
(***************************************************************************)
(* Entered is what was shown                                               *)
(***************************************************************************)
LEMMA EntryLineNamesSelection ==
    ASSUME IInv, prefix # <<>>
    PROVE  entry_text_word = selected_word_index
<1>1. language \in Languages
    BY DEF IInv, EntryInv, EntryTypes
<1>2. CASE language = English
    BY <1>2 DEF entry_text_word, selected_word_index, IndexForPrefix, English,
       SimplifiedChinese
<1>3. CASE language = SimplifiedChinese
    BY <1>3 DEF entry_text_word, English, SimplifiedChinese
<1> QED
    BY <1>1, <1>2, <1>3 DEF Languages

\* The operations that make the words longer.
LEMMA LongerWords ==
    ASSUME IInv, Next, Len(word_indices') = Len(word_indices) + 1
    PROVE  \/ commit_word
           \/ \E indices \in LoadedIndices : load_word_indices(indices)
           \/ \E offset : select_pinyin_candidate(offset)
<1>1. word_indices \in Seq(WordIndices) /\ Len(word_indices) \in Nat
    BY DEF IInv, EntryInv, EntryTypes
<1>2. word_indices' # word_indices /\ Len(word_indices') > 0
    BY <1>1
<1>3. ~(word_indices' = <<>>)
    BY <1>2
<1>4. ~backspace
  <2>1. SUFFICES ASSUME backspace PROVE FALSE
      OBVIOUS
  <2>2. word_indices # <<>> /\ word_indices' = SubSeq(word_indices, 1, Len(word_indices) - 1)
      BY <1>2, <2>1 DEF backspace
  <2>3. Len(word_indices') = Len(word_indices) - 1
      BY <1>1, <2>2
  <2> QED
      BY <1>1, <2>3
<1> QED
    BY <1>2, <1>3, <1>4 DEF Next, EntryStep, PinyinStep, EntropyStep, PassphraseStep,
       select_language, push_letter, reset, become_default,
       open_pinyin_candidate_picker, close_pinyin_candidate_picker,
       change_pinyin_candidate_page, toggle_entropy_bit,
       set_entropy_die_face, choose_entropy, open_final_word_picker,
       close_final_word_picker, change_final_word_candidate_page,
       select_final_word_candidate, open_passphrase_editor, append_passphrase_key,
       backspace_passphrase, toggle_passphrase_visibility, save_passphrase,
       cancel_passphrase_editor, flowVars

LEMMA OpenFinalPicker ==
    ASSUME Next, ~final_word_picker_open, final_word_picker_open'
    PROVE  is_complete /\ open_final_word_picker
BY DEF Next, EntryStep, PinyinStep, EntropyStep, PassphraseStep,
   select_language, push_letter, backspace, commit_word, reset,
   load_word_indices, become_default, accept_word_index, clear_entropy,
   open_pinyin_candidate_picker, close_pinyin_candidate_picker,
   change_pinyin_candidate_page, select_pinyin_candidate, toggle_entropy_bit,
   set_entropy_die_face, choose_entropy, open_final_word_picker,
   close_final_word_picker, change_final_word_candidate_page,
   select_final_word_candidate, open_passphrase_editor, append_passphrase_key,
   backspace_passphrase, toggle_passphrase_visibility, save_passphrase,
   cancel_passphrase_editor, finalPickerVars, flowVars

\* A word or a final word that a button enters is the one on the screen: the
\* entry line, the pinyin picker and the final-word picker each name what the
\* operation then looks up for itself.
THEOREM EnteredIsShown == Spec => ShownIsEntered
<1> DEFINE
      entered == word_indices'[Len(word_indices')]
      Typed == entered = entry_text_word
      Picked ==
        /\ pinyin_candidate_picker_open
        /\ \E offset \in DOMAIN pinyin_candidate_labels :
              /\ select_pinyin_candidate(offset)
              /\ entered = pinyin_candidate_labels[offset]
      Words == Len(word_indices') = Len(word_indices) + 1 =>
          \/ load_word_indices(word_indices')
          \/ /\ word_indices' = Append(word_indices, entered)
             /\ entered # NoIndex
             /\ Typed \/ Picked
      Opened == ~final_word_picker_open /\ final_word_picker_open' =>
          \E offset \in DOMAIN final_word_candidate_labels :
              final_word_candidate_labels'[offset] = entropy_bits'
      Taken == \A offset \in DOMAIN final_word_candidate_labels :
          flowVars' # flowVars /\ select_final_word_candidate(offset) =>
             /\ final_word_candidate_labels[offset] # NoIndex
             /\ entropy_bits' = final_word_candidate_labels[offset]
<1>1. ASSUME NEW index, accept_word_index(index), IInv
      PROVE  word_indices' = Append(word_indices, entered) /\ entered = index
  <2>1. word_indices' = Append(word_indices, index) /\ word_indices \in Seq(WordIndices)
      BY <1>1 DEF accept_word_index, IInv, EntryInv, EntryTypes
  <2> QED
      BY <2>1
<1>2. ASSUME IInv, Next, Len(word_indices') = Len(word_indices) + 1
      PROVE  \/ load_word_indices(word_indices')
             \/ /\ word_indices' = Append(word_indices, entered)
                /\ entered # NoIndex
                /\ Typed \/ Picked
  <2>1. word_indices' # word_indices
    <3>1. Len(word_indices) \in Nat
        BY <1>2 DEF IInv, EntryInv, EntryTypes
    <3> QED
        BY <1>2, <3>1
  <2>2. CASE commit_word
    <3>1. selected_word_index # NoIndex /\ accept_word_index(selected_word_index)
        BY <2>1, <2>2 DEF commit_word, flowVars
    <3>2. prefix # <<>>
        BY <3>1 DEF selected_word_index
    <3>3. Typed
        BY <1>1, <1>2, <3>1, <3>2, EntryLineNamesSelection
    <3> QED
        BY <1>1, <1>2, <3>1, <3>3
  <2>3. ASSUME NEW indices \in LoadedIndices, load_word_indices(indices)
        PROVE  load_word_indices(word_indices')
    <3>1. word_indices' = indices
        BY <2>1, <2>3 DEF load_word_indices, flowVars
    <3> QED
        BY <2>3, <3>1
  <2>4. ASSUME NEW offset, select_pinyin_candidate(offset)
        PROVE  /\ word_indices' = Append(word_indices, entered)
               /\ entered # NoIndex
               /\ Picked
    <3>1. /\ pinyin_candidate_at(offset) # NoIndex
          /\ accept_word_index(pinyin_candidate_at(offset))
        BY <2>1, <2>4 DEF select_pinyin_candidate, flowVars
    <3>2. /\ pinyin_candidate_picker_open
          /\ offset \in 0 .. PinyinPerPage - 1
          /\ pinyin_candidate_at(offset) =
                word_index_at(prefix, pinyin_candidate_position(offset))
        BY <3>1 DEF pinyin_candidate_at
    <3>3. language = SimplifiedChinese
        BY <1>2, <3>2 DEF IInv, EntryInv, PinyinPickerMatchesEntry,
                          can_open_pinyin_candidate_picker
    <3>4. /\ offset \in DOMAIN pinyin_candidate_labels
          /\ pinyin_candidate_labels[offset] = pinyin_candidate_at(offset)
        BY <3>2, <3>3 DEF pinyin_candidate_labels
    <3> QED
        BY <1>1, <1>2, <2>4, <3>1, <3>2, <3>4
  <2> QED
      BY <1>2, <2>2, <2>3, <2>4, LongerWords
<1>3. ASSUME IInv, Next, ~final_word_picker_open, final_word_picker_open'
      PROVE  \E offset \in DOMAIN final_word_candidate_labels :
                 final_word_candidate_labels'[offset] = entropy_bits'
  <2>1. /\ final_word_candidate_page' = entropy_bits \div FinalWordsPerPage
        /\ UNCHANGED <<entropy_bits, word_indices>>
        /\ is_complete
      BY <1>3, OpenFinalPicker DEF open_final_word_picker, flowVars, entropyVars
  <2>2. FinalWordsPerPage \in Nat \ {0} /\ CandidateCount \in Nat
      BY FlowAssumption, SomeCandidate
  <2>3. entropy_bits \in 0 .. CandidateCount - 1
      BY <1>3 DEF IInv, EntropyInv, EntropyTypes, EntropyValues
  <2>4. PICK offset \in 0 .. FinalWordsPerPage - 1 :
           /\ entropy_bits \div FinalWordsPerPage \in Nat
           /\ entropy_bits = FinalWordsPerPage * (entropy_bits \div FinalWordsPerPage) + offset
    <3>1. entropy_bits \in Nat
        BY <2>2, <2>3
    <3>2. /\ entropy_bits % FinalWordsPerPage \in 0 .. FinalWordsPerPage - 1
          /\ entropy_bits \div FinalWordsPerPage \in Nat
          /\ entropy_bits = FinalWordsPerPage * (entropy_bits \div FinalWordsPerPage)
                              + (entropy_bits % FinalWordsPerPage)
        BY <2>2, <3>1, Division
    <3> QED
        BY <3>2
  <2>5. final_word_candidate_page' \in Nat
        /\ entropy_bits = FinalWordsPerPage * final_word_candidate_page' + offset
      BY <2>1, <2>4
  <2>6. final_word_position(offset)' = entropy_bits
      BY <2>2, <2>5 DEF final_word_position
  <2>7. final_word_position(offset)' < CandidateCount
      BY <2>2, <2>3, <2>6
  <2>8. is_complete'
      BY <2>1 DEF is_complete
  <2>9. offset \in DOMAIN final_word_candidate_labels
      BY <2>4 DEF final_word_candidate_labels
  <2>10. final_word_candidate_labels'[offset] = final_word_position(offset)'
      BY <1>3, <2>4, <2>7, <2>8 DEF final_word_candidate_labels, final_word_position
  <2> QED
      BY <2>1, <2>6, <2>9, <2>10
<1>4. ASSUME IInv PROVE Taken
  <2> SUFFICES ASSUME NEW offset \in DOMAIN final_word_candidate_labels,
                      flowVars' # flowVars, select_final_word_candidate(offset)
               PROVE  /\ final_word_candidate_labels[offset] # NoIndex
                      /\ entropy_bits' = final_word_candidate_labels[offset]
      OBVIOUS
  <2>1. selectable_final_word(offset) /\ entropy_bits' = final_word_position(offset)
      BY DEF select_final_word_candidate, choose_entropy
  <2>2. is_complete
      BY <1>4, <2>1 DEF selectable_final_word, IInv, EntropyInv, NoEntropyWithoutWords
  <2>3. final_word_candidate_labels[offset] = final_word_position(offset)
      BY <2>1, <2>2 DEF selectable_final_word, final_word_candidate_labels
  <2>4. final_word_position(offset) # NoIndex
    <3>1. final_word_candidate_page \in Nat /\ FinalWordsPerPage \in Nat
        BY <1>4, FlowAssumption DEF IInv, EntropyInv, EntropyTypes
    <3>2. final_word_candidate_page * FinalWordsPerPage \in Nat
        BY <3>1
    <3>3. offset \in Nat
        BY <2>1 DEF selectable_final_word
    <3> QED
        BY <3>2, <3>3 DEF final_word_position, NoIndex
  <2> QED
      BY <2>1, <2>3, <2>4
<1>5. IInv /\ [Next]_flowVars => [Words]_flowVars
    BY <1>2
<1>6. IInv /\ [Next]_flowVars => [Opened /\ Taken]_flowVars
    BY <1>3, <1>4
<1> QED
    BY <1>5, <1>6, Invariance, PTL DEF Spec, ShownIsEntered, EnteredWordWasShown,
       FinalPickerShowsAndTakes

\* The operations that change the words.
LEMMA WordSteps ==
    ASSUME Next, word_indices' # word_indices
    PROVE  \/ clear_passphrase
           \/ \E index : accept_word_index(index)
           \/ word_indices' = SubSeq(word_indices, 1, Len(word_indices) - 1)
BY DEF Next, EntryStep, PinyinStep, EntropyStep, PassphraseStep,
   select_language, push_letter, backspace, commit_word, reset,
   load_word_indices, become_default,
   open_pinyin_candidate_picker, close_pinyin_candidate_picker,
   change_pinyin_candidate_page, select_pinyin_candidate, toggle_entropy_bit,
   set_entropy_die_face, choose_entropy, open_final_word_picker,
   close_final_word_picker, change_final_word_candidate_page,
   select_final_word_candidate, open_passphrase_editor, append_passphrase_key,
   backspace_passphrase, toggle_passphrase_visibility, save_passphrase,
   cancel_passphrase_editor, flowVars

\* The operations that change the passphrase.
LEMMA PassphraseSteps ==
    ASSUME Next, passphrase' # passphrase
    PROVE  \/ passphrase_editor_open /\ save_passphrase
           \/ /\ clear_passphrase
              /\ \/ word_indices' = <<>>
                 \/ word_indices' \in [1 .. PrefixWordCount -> WordIndices]
BY DEF Next, EntryStep, PinyinStep, EntropyStep, PassphraseStep,
   select_language, push_letter, backspace, commit_word, reset,
   load_word_indices, become_default, accept_word_index,
   open_pinyin_candidate_picker, close_pinyin_candidate_picker,
   change_pinyin_candidate_page, select_pinyin_candidate, toggle_entropy_bit,
   set_entropy_die_face, choose_entropy, open_final_word_picker,
   close_final_word_picker, change_final_word_candidate_page,
   select_final_word_candidate, open_passphrase_editor, append_passphrase_key,
   backspace_passphrase, toggle_passphrase_visibility, save_passphrase,
   cancel_passphrase_editor, passphraseVars, flowVars

\* Done is the only way to a passphrase, and takes what the editor held; a
\* passphrase stays with its words and goes when others replace them.
THEOREM PassphraseOnlyFromDraft == Spec => PassphraseComesFromDraft
<1> DEFINE
      Saved ==
        /\ passphrase_editor_open /\ ~passphrase_editor_open'
        /\ passphrase' = passphrase_draft
        /\ UNCHANGED word_indices
      Cleared ==
        /\ passphrase' = <<>> /\ ~passphrase_editor_open'
        /\ word_indices' = <<>> \/ is_complete'
<1>1. ASSUME Next, passphrase' # passphrase
      PROVE  Saved \/ Cleared
  <2>1. CASE passphrase_editor_open /\ save_passphrase
      BY <2>1 DEF save_passphrase
  <2>2. CASE clear_passphrase /\ word_indices' = <<>>
      BY <2>2 DEF clear_passphrase
  <2>3. CASE clear_passphrase /\ word_indices' \in [1 .. PrefixWordCount -> WordIndices]
    <3>1. PrefixWordCount \in Nat
        BY FlowAssumption
    <3>2. Len(word_indices') = PrefixWordCount
        BY <2>3, <3>1
    <3> QED
        BY <2>3, <3>2 DEF clear_passphrase, is_complete
  <2> QED
      BY <1>1, <2>1, <2>2, <2>3, PassphraseSteps
<1>2. ASSUME IInv, Next, WordsReplaced
      PROVE  passphrase' = <<>>
  <2>1. ASSUME NEW index, accept_word_index(index)
        PROVE  word_indices = SubSeq(word_indices', 1, Len(word_indices') - 1)
    <3>1. word_indices \in Seq(WordIndices) /\ word_indices' = Append(word_indices, index)
        BY <1>2, <2>1 DEF accept_word_index, IInv, EntryInv, EntryTypes
    <3> QED
        BY <3>1
  <2>2. clear_passphrase
      BY <1>2, <2>1, WordSteps DEF WordsReplaced
  <2> QED
      BY <2>2 DEF clear_passphrase
<1>3. IInv /\ [Next]_flowVars =>
         [/\ passphrase' # passphrase => Saved \/ Cleared
          /\ WordsReplaced => passphrase' = <<>>]_flowVars
    BY <1>1, <1>2
<1> QED
    BY <1>3, Invariance, PTL DEF Spec, PassphraseComesFromDraft
=============================================================================
