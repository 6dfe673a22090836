---------------------------- MODULE LastWordFlow ----------------------------
(***************************************************************************)
(* LastWordFlow (bitcoin-ui/src/mnemonic): the state behind the touch      *)
(* screen - language, the words confirmed so far, the prefix being typed,  *)
(* the pinyin picker, the seven bits that choose the final word, the       *)
(* final-word picker and the BIP39 passphrase editor.                      *)
(*                                                                         *)
(* One action per operation of the struct.  An operation that returns      *)
(* early is still a step: it is the last disjunct of the action, and       *)
(* changes nothing.  word_indices stands for the fixed array together with *)
(* word_count (the array's first word_count entries), prefix for prefix    *)
(* and prefix_len.                                                         *)
(***************************************************************************)
EXTENDS WordList

CONSTANTS
    PrefixWordCount,        \* PREFIX_WORD_COUNT, 11
    MaxEnglishPrefixLen,    \* MAX_ENGLISH_PREFIX_LEN, 4
    MaxPinyinPrefixLen,     \* MAX_PINYIN_PREFIX_LEN, 6
    PinyinPerPage,          \* PINYIN_CANDIDATES_PER_PAGE, 6
    FinalWordsPerPage,      \* FINAL_WORD_CANDIDATES_PER_PAGE, 12
    EntropyBitCount,        \* 7
    OctalFaces,             \* faces of the first die, 8
    HexFaces,               \* faces of the second die, 16
    PassphraseKeys,         \* one-byte printable ASCII keys
    OtherKeys,              \* every other string a key could carry
    MaxPassphraseBytes      \* MAX_PASSPHRASE_BYTES, 128

CandidateCount == OctalFaces * HexFaces        \* CANDIDATE_COUNT, 128
EntropyValues == 0 .. CandidateCount - 1
Weight(bit) == 2 ^ bit

ASSUME FlowAssumption ==
    /\ PrefixWordCount \in Nat \ {0}
    /\ MaxEnglishPrefixLen \in Nat \ {0}
    /\ MaxPinyinPrefixLen \in Nat \ {0}
    /\ PinyinPerPage \in Nat \ {0}
    /\ FinalWordsPerPage \in Nat \ {0}
    /\ EntropyBitCount \in Nat
    /\ OctalFaces \in Nat \ {0}
    /\ HexFaces \in Nat \ {0}
    /\ MaxPassphraseBytes \in Nat
    /\ PassphraseKeys \cap OtherKeys = {}

\* The dice and the bits are two ways to write one number: every bit's
\* weight divides the candidates into pairs.
ASSUME EntropyAssumption ==
    \A bit \in 0 .. EntropyBitCount - 1 :
        /\ Weight(bit) \in Nat \ {0}
        /\ (CandidateCount % (2 * Weight(bit))) = 0

\* No word is spelt with no letters (BIP39's are not empty, and build.rs gives
\* every character a pronunciation), and as many letters of an English word as
\* may be typed identify it (entry.rs:192).
ASSUME SpellingAssumption ==
    /\ PinyinEntries # <<>>
    /\ \A p \in DOMAIN PinyinEntries : PinyinEntries[p].spelling # <<>>
    /\ \A i \in DOMAIN EnglishWords : EnglishWords[i] # <<>>
    /\ \A i, j \in DOMAIN EnglishWords :
          /\ i # j
          /\ Len(EnglishWords[i]) >= MaxEnglishPrefixLen
          /\ Len(EnglishWords[j]) >= MaxEnglishPrefixLen
          => \E k \in 1 .. MaxEnglishPrefixLen : EnglishWords[i][k] # EnglishWords[j][k]

VARIABLES
    language,
    language_selected,
    word_indices,
    prefix,
    last_letter_was_rejected,
    commit_feedback,
    pinyin_candidate_page,
    pinyin_candidate_picker_open,
    entropy_bits,
    entropy_confirmed,
    final_word_candidate_page,
    final_word_picker_open,
    passphrase,
    passphrase_draft,
    passphrase_editor_open,
    passphrase_visible

languageVars == <<language, language_selected>>
entryVars == <<prefix, last_letter_was_rejected, commit_feedback>>
pinyinVars == <<pinyin_candidate_page, pinyin_candidate_picker_open>>
finalPickerVars == <<final_word_candidate_page, final_word_picker_open>>
entropyVars == <<entropy_bits, entropy_confirmed>>
passphraseVars ==
    <<passphrase, passphrase_draft, passphrase_editor_open, passphrase_visible>>

flowVars == <<languageVars, word_indices, entryVars, pinyinVars, entropyVars,
              finalPickerVars, passphraseVars>>

-----------------------------------------------------------------------------
(***************************************************************************)
(* What the operations read                                                *)
(***************************************************************************)
NoFeedback == [kind |-> "None", count |-> 0]
EnterLetters == [kind |-> "EnterLetters", count |-> 0]
MoreMatches(count) == [kind |-> "MoreMatches", count |-> count]

is_complete == Len(word_indices) = PrefixWordCount

\* Fault: one letter too few.
prefix_len_limit_too_short ==
    (IF language = English THEN MaxEnglishPrefixLen ELSE MaxPinyinPrefixLen) - 1

prefix_len_limit ==
    IF language = English THEN MaxEnglishPrefixLen ELSE MaxPinyinPrefixLen

prefix_match_count == prefix_match_count_for(language, prefix)

prefix_has_matches(candidate) == prefix_match_count_for(language, candidate) > 0

selected_word_index ==
    IF prefix = <<>> THEN NoIndex ELSE IndexForPrefix(language, prefix)

can_open_pinyin_candidate_picker ==
    /\ language = SimplifiedChinese
    /\ prefix # <<>>
    /\ selected_word_index = NoIndex
    /\ prefix_match_count > 0

can_commit_or_choose ==
    selected_word_index # NoIndex \/ can_open_pinyin_candidate_picker

accepts_letters == ~is_complete /\ Len(prefix) # prefix_len_limit

\* Fault: the keyboard forgets the length limit.
next_letter_enabled_without_limit ==
    IF ~is_complete THEN NextLetters(language, prefix) ELSE {}

next_letter_enabled ==
    IF accepts_letters THEN NextLetters(language, prefix) ELSE {}

CeilDiv(a, b) == (a + b - 1) \div b

pinyin_candidate_page_count == CeilDiv(prefix_match_count, PinyinPerPage)

pinyin_candidate_position(offset) == pinyin_candidate_page * PinyinPerPage + offset

\* The word indices behind the picker's labels, NoIndex for an empty label.
pinyin_candidate_labels ==
    [offset \in 0 .. PinyinPerPage - 1 |->
        IF language = SimplifiedChinese
        THEN word_index_at(prefix, pinyin_candidate_position(offset))
        ELSE NoIndex]

final_word_candidate_page_count == CeilDiv(CandidateCount, FinalWordsPerPage)

final_word_position(offset) == final_word_candidate_page * FinalWordsPerPage + offset

\* The final word of a candidate is a function of the words and its seven
\* bits, so a label is the value of those bits; NoIndex is an empty label.
final_word_candidate_labels ==
    [offset \in 0 .. FinalWordsPerPage - 1 |->
        IF final_word_picker_open /\ is_complete
           /\ final_word_position(offset) < CandidateCount
        THEN final_word_position(offset)
        ELSE NoIndex]

\* XOR with one bit.
FlipBit(bits, bit) ==
    IF ((bits \div Weight(bit)) % 2) = 1 THEN bits - Weight(bit) ELSE bits + Weight(bit)

\* Replace the high bits (D8) or the low bits (D16).
WithOctalFace(bits, face) == (bits % HexFaces) + (face - 1) * HexFaces
\* Fault: the old face is not removed first.
WithHexFace_added(bits, face) == bits + (face - 1)

WithHexFace(bits, face) == (bits - (bits % HexFaces)) + (face - 1)

-----------------------------------------------------------------------------
(***************************************************************************)
(* Steps shared by operations                                              *)
(***************************************************************************)
\* Faults: one of the fields is forgotten.
clear_entropy_keeping_bits(complete) ==
    /\ entropy_confirmed' = complete
    /\ final_word_candidate_page' = 0
    /\ final_word_picker_open' = FALSE
    /\ UNCHANGED entropy_bits

clear_entropy_keeping_page(complete) ==
    /\ entropy_bits' = 0
    /\ entropy_confirmed' = complete
    /\ final_word_picker_open' = FALSE
    /\ UNCHANGED final_word_candidate_page

clear_entropy(complete) ==
    /\ entropy_bits' = 0
    /\ entropy_confirmed' = complete
    /\ final_word_candidate_page' = 0
    /\ final_word_picker_open' = FALSE

\* Fault: only the draft is cleared.
clear_passphrase_keeping_passphrase ==
    /\ passphrase_draft' = <<>>
    /\ passphrase_editor_open' = FALSE
    /\ passphrase_visible' = FALSE
    /\ UNCHANGED passphrase

clear_passphrase ==
    /\ passphrase' = <<>>
    /\ passphrase_draft' = <<>>
    /\ passphrase_editor_open' = FALSE
    /\ passphrase_visible' = FALSE

\* Fault: the picker stays open.
rewind_pinyin_picker ==
    /\ pinyin_candidate_page' = 0
    /\ UNCHANGED pinyin_candidate_picker_open

close_and_rewind_pinyin_picker ==
    /\ pinyin_candidate_page' = 0
    /\ pinyin_candidate_picker_open' = FALSE

\* Fault: the complaint stays.
clear_entry_keeping_feedback ==
    /\ prefix' = <<>>
    /\ last_letter_was_rejected' = FALSE
    /\ close_and_rewind_pinyin_picker
    /\ UNCHANGED commit_feedback

clear_entry ==
    /\ prefix' = <<>>
    /\ last_letter_was_rejected' = FALSE
    /\ commit_feedback' = NoFeedback
    /\ close_and_rewind_pinyin_picker

\* Self::default() with a language
become_default(new_language) ==
    /\ language' = new_language
    /\ word_indices' = <<>>
    /\ clear_entry
    /\ clear_entropy(FALSE)
    /\ clear_passphrase

\* Fault: the letters of the accepted word stay.
accept_word_index_keeping_prefix(index) ==
    /\ word_indices' = Append(word_indices, index)
    /\ commit_feedback' = NoFeedback
    /\ close_and_rewind_pinyin_picker
    /\ clear_entropy(Len(word_indices) + 1 = PrefixWordCount)
    /\ UNCHANGED <<languageVars, prefix, last_letter_was_rejected, passphraseVars>>

accept_word_index(index) ==
    /\ word_indices' = Append(word_indices, index)
    /\ clear_entry
    /\ clear_entropy(Len(word_indices) + 1 = PrefixWordCount)
    /\ UNCHANGED <<languageVars, passphraseVars>>

Init ==
    /\ language = English
    /\ language_selected = FALSE
    /\ word_indices = <<>>
    /\ prefix = <<>>
    /\ last_letter_was_rejected = FALSE
    /\ commit_feedback = NoFeedback
    /\ pinyin_candidate_page = 0
    /\ pinyin_candidate_picker_open = FALSE
    /\ entropy_bits = 0
    /\ entropy_confirmed = FALSE
    /\ final_word_candidate_page = 0
    /\ final_word_picker_open = FALSE
    /\ passphrase = <<>>
    /\ passphrase_draft = <<>>
    /\ passphrase_editor_open = FALSE
    /\ passphrase_visible = FALSE

-----------------------------------------------------------------------------
(***************************************************************************)
(* Language and letters                                                    *)
(***************************************************************************)
select_language(new_language) ==
    \/ /\ new_language \in Languages \ {language}
       /\ become_default(new_language)
       /\ language_selected' = TRUE
    \/ /\ new_language = language
       /\ language_selected' = TRUE
       /\ UNCHANGED <<language, word_indices, entryVars, pinyinVars, entropyVars,
                      finalPickerVars, passphraseVars>>

push_letter(key) ==
    \/ /\ accepts_letters
       /\ key \in Letters
       /\ prefix_has_matches(Append(prefix, key))
       /\ prefix' = Append(prefix, key)
       /\ language_selected' = TRUE
       /\ last_letter_was_rejected' = FALSE
       /\ commit_feedback' = NoFeedback
       /\ close_and_rewind_pinyin_picker
       /\ UNCHANGED <<language, word_indices, entropyVars, finalPickerVars,
                      passphraseVars>>
    \/ /\ accepts_letters
       /\ key \in Letters
       /\ ~prefix_has_matches(Append(prefix, key))
       /\ last_letter_was_rejected' = TRUE
       /\ UNCHANGED <<languageVars, word_indices, prefix, commit_feedback, pinyinVars,
                      entropyVars, finalPickerVars, passphraseVars>>
    \/ /\ ~accepts_letters \/ key \notin Letters
       /\ UNCHANGED flowVars

backspace ==
    /\ last_letter_was_rejected' = FALSE
    /\ commit_feedback' = NoFeedback
    /\ close_and_rewind_pinyin_picker
    /\ UNCHANGED <<languageVars, passphraseVars>>
    /\ \/ /\ prefix # <<>>
          /\ prefix' = SubSeq(prefix, 1, Len(prefix) - 1)
          /\ UNCHANGED <<word_indices, entropyVars, finalPickerVars>>
       \/ /\ prefix = <<>>
          /\ word_indices # <<>>
          /\ word_indices' = SubSeq(word_indices, 1, Len(word_indices) - 1)
          /\ clear_entropy(FALSE)
          /\ UNCHANGED prefix
       \/ /\ prefix = <<>>
          /\ word_indices = <<>>
          /\ UNCHANGED <<prefix, word_indices, entropyVars, finalPickerVars>>

commit_word ==
    \/ /\ ~is_complete
       /\ prefix = <<>>
       /\ commit_feedback' = EnterLetters
       /\ UNCHANGED <<languageVars, word_indices, prefix, last_letter_was_rejected,
                      pinyinVars, entropyVars, finalPickerVars, passphraseVars>>
    \/ /\ ~is_complete
       /\ prefix # <<>>
       /\ selected_word_index = NoIndex
       /\ commit_feedback' = MoreMatches(prefix_match_count)
       /\ UNCHANGED <<languageVars, word_indices, prefix, last_letter_was_rejected,
                      pinyinVars, entropyVars, finalPickerVars, passphraseVars>>
    \/ /\ ~is_complete
       /\ selected_word_index # NoIndex
       /\ accept_word_index(selected_word_index)
    \/ /\ is_complete
       /\ UNCHANGED flowVars

reset ==
    /\ become_default(language)
    /\ language_selected' = FALSE

\* Indices are validated before anything changes, so a bad one changes nothing.
load_word_indices(indices) ==
    \/ /\ indices \in [1 .. PrefixWordCount -> WordIndices]
       /\ word_indices' = indices
       /\ language_selected' = TRUE
       /\ clear_entry
       /\ clear_passphrase
       /\ clear_entropy(TRUE)
       /\ UNCHANGED language
    \/ /\ indices \notin [1 .. PrefixWordCount -> WordIndices]
       /\ UNCHANGED flowVars

-----------------------------------------------------------------------------
(***************************************************************************)
(* Pinyin picker                                                           *)
(***************************************************************************)
open_pinyin_candidate_picker ==
    \/ /\ can_open_pinyin_candidate_picker
       /\ pinyin_candidate_picker_open' = TRUE
       /\ commit_feedback' = NoFeedback
       /\ UNCHANGED <<languageVars, word_indices, prefix, last_letter_was_rejected,
                      pinyin_candidate_page, entropyVars, finalPickerVars,
                      passphraseVars>>
    \/ /\ ~can_open_pinyin_candidate_picker
       /\ UNCHANGED flowVars

close_pinyin_candidate_picker ==
    /\ pinyin_candidate_picker_open' = FALSE
    /\ UNCHANGED <<languageVars, word_indices, entryVars, pinyin_candidate_page,
                   entropyVars, finalPickerVars, passphraseVars>>

\* Fault: one page too far.
PageAfter_last_page(page, direction, page_count) ==
    CASE direction < 0 -> IF page = 0 THEN 0 ELSE page - 1
      [] direction > 0 -> IF page < page_count THEN page + 1 ELSE page_count
      [] direction = 0 -> page

\* One page back or forward, held inside the pages there are.
PageAfter(page, direction, page_count) ==
    CASE direction < 0 -> IF page = 0 THEN 0 ELSE page - 1
      [] direction > 0 -> IF page + 1 < page_count THEN page + 1 ELSE page_count - 1
      [] direction = 0 -> page

change_pinyin_candidate_page(direction) ==
    \/ /\ pinyin_candidate_picker_open
       /\ pinyin_candidate_page_count # 0
       /\ pinyin_candidate_page' =
             PageAfter(pinyin_candidate_page, direction, pinyin_candidate_page_count)
       /\ UNCHANGED <<languageVars, word_indices, entryVars,
                      pinyin_candidate_picker_open, entropyVars, finalPickerVars,
                      passphraseVars>>
    \/ /\ ~pinyin_candidate_picker_open \/ pinyin_candidate_page_count = 0
       /\ UNCHANGED flowVars

\* Fault: the page is forgotten.
pinyin_candidate_at_first_page(offset) ==
    IF pinyin_candidate_picker_open /\ offset \in 0 .. PinyinPerPage - 1
    THEN word_index_at(prefix, offset)
    ELSE NoIndex

pinyin_candidate_at(offset) ==
    IF pinyin_candidate_picker_open /\ offset \in 0 .. PinyinPerPage - 1
    THEN word_index_at(prefix, pinyin_candidate_position(offset))
    ELSE NoIndex

select_pinyin_candidate(offset) ==
    \/ /\ pinyin_candidate_at(offset) # NoIndex
       /\ accept_word_index(pinyin_candidate_at(offset))
    \/ /\ pinyin_candidate_at(offset) = NoIndex
       /\ UNCHANGED flowVars

-----------------------------------------------------------------------------
(***************************************************************************)
(* The bits that choose the final word: by bit, by die, or by picking the  *)
(* word itself                                                             *)
(***************************************************************************)
choose_entropy(bits) ==
    /\ entropy_bits' = bits
    /\ entropy_confirmed' = TRUE
    /\ UNCHANGED <<languageVars, word_indices, entryVars, pinyinVars, passphraseVars>>

toggle_entropy_bit(bit) ==
    \/ /\ is_complete
       /\ bit \in 0 .. EntropyBitCount - 1
       /\ choose_entropy(FlipBit(entropy_bits, bit))
       /\ UNCHANGED finalPickerVars
    \/ /\ ~is_complete \/ bit \notin 0 .. EntropyBitCount - 1
       /\ UNCHANGED flowVars

set_entropy_die_face(die, face) ==
    \/ /\ is_complete
       /\ die = 0
       /\ face \in 1 .. OctalFaces
       /\ choose_entropy(WithOctalFace(entropy_bits, face))
       /\ UNCHANGED finalPickerVars
    \/ /\ is_complete
       /\ die = 1
       /\ face \in 1 .. HexFaces
       /\ choose_entropy(WithHexFace(entropy_bits, face))
       /\ UNCHANGED finalPickerVars
    \/ /\ \/ ~is_complete
          \/ die \notin {0, 1}
          \/ die = 0 /\ face \notin 1 .. OctalFaces
          \/ die = 1 /\ face \notin 1 .. HexFaces
       /\ UNCHANGED flowVars

open_final_word_picker ==
    \/ /\ is_complete
       /\ final_word_candidate_page' = entropy_bits \div FinalWordsPerPage
       /\ final_word_picker_open' = TRUE
       /\ UNCHANGED <<languageVars, word_indices, entryVars, pinyinVars, entropyVars,
                      passphraseVars>>
    \/ /\ ~is_complete
       /\ UNCHANGED flowVars

close_final_word_picker ==
    /\ final_word_picker_open' = FALSE
    /\ UNCHANGED <<languageVars, word_indices, entryVars, pinyinVars, entropyVars,
                   final_word_candidate_page, passphraseVars>>

change_final_word_candidate_page(direction) ==
    \/ /\ final_word_picker_open
       /\ final_word_candidate_page' =
             PageAfter(final_word_candidate_page, direction,
                       final_word_candidate_page_count)
       /\ UNCHANGED <<languageVars, word_indices, entryVars, pinyinVars, entropyVars,
                      final_word_picker_open, passphraseVars>>
    \/ /\ ~final_word_picker_open
       /\ UNCHANGED flowVars

selectable_final_word(offset) ==
    /\ final_word_picker_open
    /\ offset \in 0 .. FinalWordsPerPage - 1
    /\ final_word_position(offset) < CandidateCount

select_final_word_candidate(offset) ==
    \/ /\ selectable_final_word(offset)
       /\ choose_entropy(final_word_position(offset))
       /\ final_word_picker_open' = FALSE
       /\ UNCHANGED final_word_candidate_page
    \/ /\ ~selectable_final_word(offset)
       /\ UNCHANGED flowVars

-----------------------------------------------------------------------------
(***************************************************************************)
(* Passphrase editor                                                       *)
(***************************************************************************)
open_passphrase_editor ==
    /\ passphrase_draft' = passphrase
    /\ passphrase_editor_open' = TRUE
    /\ passphrase_visible' = FALSE
    /\ UNCHANGED <<languageVars, word_indices, entryVars, pinyinVars, entropyVars,
                   finalPickerVars, passphrase>>

\* Fault: the length is checked before the key is counted.
can_append_passphrase_key_too_late(key) ==
    /\ passphrase_editor_open
    /\ key \in PassphraseKeys
    /\ Len(passphrase_draft) <= MaxPassphraseBytes

can_append_passphrase_key(key) ==
    /\ passphrase_editor_open
    /\ key \in PassphraseKeys
    /\ Len(passphrase_draft) + 1 <= MaxPassphraseBytes

append_passphrase_key(key) ==
    \/ /\ can_append_passphrase_key(key)
       /\ passphrase_draft' = Append(passphrase_draft, key)
       /\ UNCHANGED <<languageVars, word_indices, entryVars, pinyinVars, entropyVars,
                      finalPickerVars, passphrase, passphrase_editor_open,
                      passphrase_visible>>
    \/ /\ ~can_append_passphrase_key(key)
       /\ UNCHANGED flowVars

backspace_passphrase ==
    \/ /\ passphrase_editor_open
       /\ passphrase_draft # <<>>
       /\ passphrase_draft' = SubSeq(passphrase_draft, 1, Len(passphrase_draft) - 1)
       /\ UNCHANGED <<languageVars, word_indices, entryVars, pinyinVars, entropyVars,
                      finalPickerVars, passphrase, passphrase_editor_open,
                      passphrase_visible>>
    \/ /\ ~passphrase_editor_open \/ passphrase_draft = <<>>
       /\ UNCHANGED flowVars

toggle_passphrase_visibility ==
    \/ /\ passphrase_editor_open
       /\ passphrase_visible' = ~passphrase_visible
       /\ UNCHANGED <<languageVars, word_indices, entryVars, pinyinVars, entropyVars,
                      finalPickerVars, passphrase, passphrase_draft,
                      passphrase_editor_open>>
    \/ /\ ~passphrase_editor_open
       /\ UNCHANGED flowVars

\* save_passphrase returns this: was there a change to save?
passphrase_changes == passphrase_editor_open /\ passphrase # passphrase_draft

save_passphrase ==
    \/ /\ passphrase_editor_open
       /\ passphrase' = passphrase_draft
       /\ passphrase_draft' = <<>>
       /\ passphrase_editor_open' = FALSE
       /\ passphrase_visible' = FALSE
       /\ UNCHANGED <<languageVars, word_indices, entryVars, pinyinVars, entropyVars,
                      finalPickerVars>>
    \/ /\ ~passphrase_editor_open
       /\ UNCHANGED flowVars

cancel_passphrase_editor ==
    /\ passphrase_draft' = <<>>
    /\ passphrase_editor_open' = FALSE
    /\ passphrase_visible' = FALSE
    /\ UNCHANGED <<languageVars, word_indices, entryVars, pinyinVars, entropyVars,
                   finalPickerVars, passphrase>>

-----------------------------------------------------------------------------
(***************************************************************************)
(* Every argument a caller can pass: the code takes plain integers, so     *)
(* each set reaches one past both ends of what the operation accepts.      *)
(***************************************************************************)
KeyInputs == -1 .. LetterCount
LanguageInputs == Languages \cup {"other"}
OffsetInputs(per_page) == -1 .. per_page
DirectionInputs == {-1, 0, 1}
FaceInputs == (-1 .. OctalFaces + 1) \cup (-1 .. HexFaces + 1)
LoadedIndices == [1 .. PrefixWordCount -> 0 .. WordListSize]

EntryStep ==
    \/ \E new_language \in LanguageInputs : select_language(new_language)
    \/ \E key \in KeyInputs : push_letter(key)
    \/ backspace
    \/ commit_word
    \/ reset
    \/ \E indices \in LoadedIndices : load_word_indices(indices)

PinyinStep ==
    \/ open_pinyin_candidate_picker
    \/ close_pinyin_candidate_picker
    \/ \E direction \in DirectionInputs : change_pinyin_candidate_page(direction)
    \/ \E offset \in OffsetInputs(PinyinPerPage) : select_pinyin_candidate(offset)

EntropyStep ==
    \/ \E bit \in -1 .. EntropyBitCount : toggle_entropy_bit(bit)
    \/ \E die \in 0 .. 2, face \in FaceInputs : set_entropy_die_face(die, face)
    \/ open_final_word_picker
    \/ close_final_word_picker
    \/ \E direction \in DirectionInputs : change_final_word_candidate_page(direction)
    \/ \E offset \in OffsetInputs(FinalWordsPerPage) : select_final_word_candidate(offset)

PassphraseStep ==
    \/ open_passphrase_editor
    \/ \E key \in PassphraseKeys \cup OtherKeys : append_passphrase_key(key)
    \/ backspace_passphrase
    \/ toggle_passphrase_visibility
    \/ save_passphrase
    \/ cancel_passphrase_editor

Next == EntryStep \/ PinyinStep \/ EntropyStep \/ PassphraseStep

Spec == Init /\ [][Next]_flowVars
-----------------------------------------------------------------------------
(***************************************************************************)
(* Properties                                                              *)
(***************************************************************************)
Feedbacks == [kind : {"None", "EnterLetters", "MoreMatches"}, count : Nat]

EntryTypes ==
    /\ language \in Languages
    /\ language_selected \in BOOLEAN
    /\ word_indices \in Seq(WordIndices)
    /\ Len(word_indices) <= PrefixWordCount
    /\ prefix \in Seq(Letters)
    /\ Len(prefix) <= prefix_len_limit
    /\ last_letter_was_rejected \in BOOLEAN
    /\ commit_feedback \in Feedbacks
    /\ pinyin_candidate_page \in Nat
    /\ pinyin_candidate_picker_open \in BOOLEAN

EntropyTypes ==
    /\ entropy_bits \in EntropyValues
    /\ entropy_confirmed \in BOOLEAN
    /\ final_word_candidate_page \in Nat
    /\ final_word_picker_open \in BOOLEAN

PassphraseTypes ==
    /\ passphrase \in Seq(PassphraseKeys)
    /\ passphrase_draft \in Seq(PassphraseKeys)
    /\ Len(passphrase) <= MaxPassphraseBytes
    /\ Len(passphrase_draft) <= MaxPassphraseBytes
    /\ passphrase_editor_open \in BOOLEAN
    /\ passphrase_visible \in BOOLEAN

\* Every field holds a value its Rust type and its limits allow: confirmed
\* words exist in the list, a prefix and a passphrase fit their buffers and
\* the entropy fits seven bits.
TypeOK == EntryTypes /\ EntropyTypes /\ PassphraseTypes

\* A final word is on offer (and with it the Address button) exactly while
\* all the words are there: neither a removed word nor a reset leaves a
\* confirmed entropy behind, and the default bits count as chosen at once.
ConfirmedWhenComplete == entropy_confirmed <=> is_complete

\* Entropy bits and the final-word picker belong to one complete prefix.
NoEntropyWithoutWords ==
    ~is_complete => /\ entropy_bits = 0
                    /\ final_word_candidate_page = 0
                    /\ ~final_word_picker_open

\* What is being typed can always still become a word, also after any number
\* of backspaces, and nothing is being typed once the words are complete.
PrefixCanBecomeWord ==
    /\ prefix # <<>> => prefix_has_matches(prefix)
    /\ is_complete => prefix = <<>>

PinyinPickerMatchesEntry ==
    /\ pinyin_candidate_picker_open => can_open_pinyin_candidate_picker
    /\ pinyin_candidate_page # 0 =>
          /\ can_open_pinyin_candidate_picker
          /\ pinyin_candidate_page < pinyin_candidate_page_count

FinalWordPageExists == final_word_candidate_page < final_word_candidate_page_count

\* An open pinyin picker is a choice among several words of the prefix now
\* on screen, and the pages of both pickers exist.
PickersMatchEntry == PinyinPickerMatchesEntry /\ FinalWordPageExists

\* The complaint below the entry field is about the prefix above it: the
\* number of matching words is the current one, and "enter letters" is only
\* said while there are none.
FeedbackIsCurrent ==
    /\ commit_feedback.kind = "MoreMatches" =>
          /\ prefix # <<>>
          /\ commit_feedback.count = prefix_match_count
          /\ commit_feedback.count > 1
    /\ commit_feedback.kind = "EnterLetters" => prefix = <<>> /\ ~is_complete

\* The keys the keyboard enables and the keys push_letter accepts, computed
\* along different paths, are the same.
EnabledLettersAreAccepted ==
    next_letter_enabled =
        {letter \in Letters :
            accepts_letters /\ prefix_has_matches(Append(prefix, letter))}

\* Entry never gets stuck: as long as a word is missing there is a letter to
\* type, or "Use word" accepts a word or opens a choice.
EntryHasAWayForward ==
    ~is_complete => next_letter_enabled # {} \/ can_commit_or_choose

\* The comment on next_letter_enabled (entry.rs): letter entry is closed once a
\* word can be confirmed.  The code closes it at the length limit only.
LettersCloseOnceConfirmable == selected_word_index # NoIndex => next_letter_enabled = {}

\* Until a language was chosen, explicitly or by typing, nothing is entered:
\* hiding the language choice never strands words of the other language.
NothingEnteredBeforeLanguage ==
    ~language_selected => word_indices = <<>> /\ prefix = <<>>

\* A passphrase being typed exists only inside the editor: no draft and no
\* unmasked display outlives Done, Cancel, a reset or a load.
DraftOnlyInEditor ==
    ~passphrase_editor_open => passphrase_draft = <<>> /\ ~passphrase_visible

\* Words, language choice, entropy and passphrase editor are fields of their
\* own, and seven operations replace the words: after each of them the fields
\* are about the same mnemonic.
FieldsBelongTogether ==
    /\ ConfirmedWhenComplete /\ NoEntropyWithoutWords
    /\ NothingEnteredBeforeLanguage /\ DraftOnlyInEditor

\* The word the entry line names for the prefix (presentation.rs).
entry_text_word ==
    CASE prefix = <<>> -> NoIndex
      [] prefix # <<>> /\ language = English ->
            IF word_index(prefix) # NoIndex THEN word_index(prefix)
            ELSE IF Cardinality(words_by_prefix(prefix)) = 1
                 THEN word_index(EnglishWords[OnlyMatch(prefix)])
                 ELSE NoIndex
      [] prefix # <<>> /\ language = SimplifiedChinese -> selected_word_index

\* A typed or picked word is the one that was on screen: the one the entry
\* line named, or the one on some button of the open picker.  A button without
\* a label enters none.
EnteredWordWasShown ==
    [][Len(word_indices') = Len(word_indices) + 1 =>
          \/ load_word_indices(word_indices')
          \/ LET entered == word_indices'[Len(word_indices')] IN
             /\ word_indices' = Append(word_indices, entered)
             /\ entered # NoIndex
             /\ \/ entered = entry_text_word
                \/ /\ pinyin_candidate_picker_open
                   /\ \E offset \in DOMAIN pinyin_candidate_labels :
                         /\ select_pinyin_candidate(offset)
                         /\ entered = pinyin_candidate_labels[offset]]_flowVars

\* Bits chosen for one list of words never carry over to another.
NewWordsNewEntropy ==
    [][word_indices' # word_indices => entropy_bits' = 0 /\ ~final_word_picker_open']_flowVars

octal_face == (entropy_bits \div HexFaces) + 1
hex_face == (entropy_bits % HexFaces) + 1

\* Rolling one die shows its face and leaves the other die alone.
DiceAreIndependent ==
    [][/\ \A face \in 1 .. OctalFaces :
             is_complete /\ set_entropy_die_face(0, face) =>
                octal_face' = face /\ hex_face' = hex_face
       /\ \A face \in 1 .. HexFaces :
             is_complete /\ set_entropy_die_face(1, face) =>
                hex_face' = face /\ octal_face' = octal_face]_flowVars

\* The final-word picker opens on the page that holds the current word, and
\* closes with the word of the button that was tapped; the buttons left empty
\* on its last page change nothing.
FinalPickerShowsAndTakes ==
    [][/\ ~final_word_picker_open /\ final_word_picker_open' =>
             \E offset \in DOMAIN final_word_candidate_labels :
                 final_word_candidate_labels'[offset] = entropy_bits'
       /\ \A offset \in DOMAIN final_word_candidate_labels :
             flowVars' # flowVars /\ select_final_word_candidate(offset) =>
                /\ final_word_candidate_labels[offset] # NoIndex
                /\ entropy_bits' = final_word_candidate_labels[offset]]_flowVars

\* What is entered is what was on screen, in both pickers and while typing,
\* and nothing where nothing was, although the buttons pass an offset and the
\* word is looked up again.
ShownIsEntered == EnteredWordWasShown /\ FinalPickerShowsAndTakes

\* The words were replaced, rather than one entered or the last one removed.
WordsReplaced ==
    /\ word_indices' # word_indices
    /\ word_indices' # SubSeq(word_indices, 1, Len(word_indices) - 1)
    /\ word_indices # SubSeq(word_indices', 1, Len(word_indices') - 1)

\* The passphrase in use changes only to what the editor held when Done was
\* tapped, or to none together with the words; and words that replace others
\* (a reset, another language, random words) never inherit their passphrase.
PassphraseComesFromDraft ==
    [][/\ passphrase' # passphrase =>
             \/ /\ passphrase_editor_open /\ ~passphrase_editor_open'
                /\ passphrase' = passphrase_draft
                /\ UNCHANGED word_indices
             \/ /\ passphrase' = <<>> /\ ~passphrase_editor_open'
                /\ word_indices' = <<>> \/ is_complete'
       /\ WordsReplaced => passphrase' = <<>>]_flowVars
=============================================================================
