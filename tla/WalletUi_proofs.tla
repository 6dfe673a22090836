--------------------------- MODULE WalletUi_proofs ---------------------------
(***************************************************************************)
(* The window implements the flow: every tap, timer and message is one     *)
(* operation of LastWordFlow or none, so what is proved of the flow holds  *)
(* behind the touch screen.  On top of that the window shows the flow as   *)
(* it is, its cache of addresses belongs to the words on the screen, and   *)
(* no screen comes up before its words are there.                          *)
(***************************************************************************)
EXTENDS WalletUi, LastWordFlow_proofs

(***************************************************************************)
(* Operations called with the window's arguments are steps of the flow     *)
(***************************************************************************)
LEMMA LettersAreSteps ==
    ASSUME NEW key, push_letter(key)
    PROVE  [Next]_flowVars
<1>1. CASE key \in Letters
  <2>1. key \in KeyInputs
      BY <1>1, WordListAssumption DEF Letters, KeyInputs
  <2> QED
      BY <2>1 DEF Next, EntryStep
<1>2. CASE key \notin Letters
    BY <1>2 DEF push_letter
<1> QED
    BY <1>1, <1>2

LEMMA LanguagesAreSteps ==
    ASSUME NEW new_language \in Languages, select_language(new_language)
    PROVE  Next
BY DEF Next, EntryStep, LanguageInputs

LEMMA LoadsAreSteps ==
    ASSUME NEW indices \in [1 .. PrefixWordCount -> WordIndices], load_word_indices(indices)
    PROVE  Next
<1>1. WordIndices \subseteq 0 .. WordListSize
    BY WordListAssumption DEF WordIndices
<1>2. indices \in LoadedIndices
    BY <1>1 DEF LoadedIndices
<1> QED
    BY <1>2 DEF Next, EntryStep

LEMMA PinyinIsAStep ==
    ASSUME \/ open_pinyin_candidate_picker
           \/ close_pinyin_candidate_picker
           \/ \E direction \in {-1, 1} : change_pinyin_candidate_page(direction)
           \/ \E offset \in 0 .. PinyinPerPage - 1 : select_pinyin_candidate(offset)
    PROVE  Next
<1>1. 0 .. PinyinPerPage - 1 \subseteq OffsetInputs(PinyinPerPage)
    BY FlowAssumption DEF OffsetInputs
<1>2. {-1, 1} \subseteq DirectionInputs
    BY DEF DirectionInputs
<1> QED
    BY <1>1, <1>2 DEF Next, PinyinStep

LEMMA FinalWordIsAStep ==
    ASSUME \/ open_final_word_picker
           \/ close_final_word_picker
           \/ \E direction \in {-1, 1} : change_final_word_candidate_page(direction)
           \/ \E offset \in 0 .. FinalWordsPerPage - 1 : select_final_word_candidate(offset)
    PROVE  Next
<1>1. 0 .. FinalWordsPerPage - 1 \subseteq OffsetInputs(FinalWordsPerPage)
    BY FlowAssumption DEF OffsetInputs
<1>2. {-1, 1} \subseteq DirectionInputs
    BY DEF DirectionInputs
<1> QED
    BY <1>1, <1>2 DEF Next, EntropyStep

LEMMA BitsAndDiceAreSteps ==
    ASSUME \/ \E bit \in 0 .. EntropyBitCount - 1 : toggle_entropy_bit(bit)
           \/ \E face \in 1 .. OctalFaces : set_entropy_die_face(0, face)
           \/ \E face \in 1 .. HexFaces : set_entropy_die_face(1, face)
    PROVE  Next
<1>1. 0 .. EntropyBitCount - 1 \subseteq -1 .. EntropyBitCount
    BY FlowAssumption
<1>2. 1 .. OctalFaces \subseteq FaceInputs /\ 1 .. HexFaces \subseteq FaceInputs
    BY FlowAssumption DEF FaceInputs
<1>3. 0 \in 0 .. 2 /\ 1 \in 0 .. 2
    OBVIOUS
<1> QED
    BY <1>1, <1>2, <1>3 DEF Next, EntropyStep

(***************************************************************************)
(* Every step of the window is a step of the flow or leaves it alone       *)
(***************************************************************************)
LEMMA EntryTapsAreSteps ==
    ASSUME TapEntryScreen
    PROVE  [Next]_flowVars
<1>1. CASE \E new_language \in Languages : on_mnemonic_select_language(new_language)
    BY <1>1, LanguagesAreSteps DEF on_mnemonic_select_language
<1>2. CASE \E key \in view.next_letters : on_mnemonic_key(key)
    BY <1>2, LettersAreSteps DEF on_mnemonic_key
<1>3. CASE on_mnemonic_backspace \/ on_mnemonic_reset
    BY <1>3 DEF on_mnemonic_backspace, on_mnemonic_reset, Next, EntryStep
<1>4. CASE on_mnemonic_commit
    BY <1>4, PinyinIsAStep DEF on_mnemonic_commit, Next, EntryStep
<1> QED
    BY <1>1, <1>2, <1>3, <1>4 DEF TapEntryScreen

LEMMA PickerTapsAreSteps ==
    ASSUME TapPinyinPicker \/ TapFinalWordPicker
    PROVE  Next
<1>1. CASE TapPinyinPicker
    BY <1>1, PinyinIsAStep
    DEF TapPinyinPicker, on_mnemonic_select_pinyin_candidate,
        on_mnemonic_change_pinyin_page, on_mnemonic_dismiss_pinyin_picker
<1>2. CASE TapFinalWordPicker
    BY <1>2, FinalWordIsAStep
    DEF TapFinalWordPicker, on_select_final_word_candidate, on_final_word_change_page,
        on_dismiss_final_word_picker
<1> QED
    BY <1>1, <1>2

LEMMA EntropyTapsAreSteps ==
    ASSUME TapEntropyScreen \/ TapDiePicker
    PROVE  [Next]_flowVars
<1>1. CASE TapEntropyScreen
  <2>1. CASE \E bit \in 0 .. EntropyBitCount - 1 : on_entropy_toggle(bit)
      BY <2>1, BitsAndDiceAreSteps DEF on_entropy_toggle
  <2>2. CASE on_open_final_word_picker
      BY <2>2, FinalWordIsAStep DEF on_open_final_word_picker
  <2>3. CASE on_open_passphrase_editor
      BY <2>3 DEF on_open_passphrase_editor, Next, PassphraseStep
  <2>4. CASE on_open_addresses
      BY <2>4 DEF on_open_addresses, flow_untouched
  <2>5. CASE on_mnemonic_reset
      BY <2>5 DEF on_mnemonic_reset, Next, EntryStep
  <2> QED
      BY <1>1, <2>1, <2>2, <2>3, <2>4, <2>5 DEF TapEntropyScreen
<1>2. CASE TapDiePicker
    BY <1>2, BitsAndDiceAreSteps DEF TapDiePicker, on_entropy_select_die, flow_untouched
<1> QED
    BY <1>1, <1>2

LEMMA PassphraseTapsAreSteps ==
    ASSUME TapPassphraseEditor
    PROVE  [Next]_flowVars
<1>1. SymbolKeys \subseteq PassphraseKeys
    BY UiAssumption
<1>2. ASSUME NEW key \in IF symbol_page THEN SymbolKeys ELSE PassphraseKeys \ SymbolKeys,
             on_passphrase_key(key)
      PROVE  Next
    BY <1>1, <1>2 DEF on_passphrase_key, Next, PassphraseStep
<1>3. CASE \/ on_passphrase_backspace \/ on_passphrase_toggle_visibility
           \/ on_passphrase_cancel \/ on_passphrase_save
    BY <1>3 DEF on_passphrase_backspace, on_passphrase_toggle_visibility,
        on_passphrase_cancel, on_passphrase_save, Next, PassphraseStep
<1> QED
    BY <1>2, <1>3 DEF TapPassphraseEditor, flow_untouched

LEMMA WindowStepsAreSteps ==
    ASSUME UiNext
    PROVE  [Next]_flowVars
<1>1. CASE \/ TapRandom \/ TapEntropyNavigation \/ TapAddressScreen
           \/ RunTimers \/ NoTap
    BY <1>1 DEF TapRandom, TapEntropyNavigation, TapAddressScreen, RunTimers, NoTap,
        flow_untouched, on_address_change_page, on_address_back
<1>2. CASE generate_random_words
    BY <1>2, LoadsAreSteps DEF generate_random_words, load_mnemonic_word_indices
<1> QED
    BY <1>1, <1>2, EntryTapsAreSteps, PickerTapsAreSteps, EntropyTapsAreSteps,
       PassphraseTapsAreSteps DEF UiNext, RenderTask, Tap

\* The window implements the flow.
THEOREM WindowImplementsFlow == UiSpec => FlowSpec
<1>1. UiInit => Init
    BY DEF UiInit
<1>2. [UiNext]_uiVars => [Next]_flowVars
    BY WindowStepsAreSteps DEF uiVars
<1> QED
    BY <1>1, <1>2, PTL DEF UiSpec, FlowSpec, Spec

\* The invariants of the flow therefore hold behind the window.
LEMMA FlowInvariance == UiSpec => []IInv
BY WindowImplementsFlow, Invariance, PTL DEF FlowSpec

-----------------------------------------------------------------------------
(***************************************************************************)
(* The window shows the flow                                               *)
(***************************************************************************)
LEMMA ViewFollowsFlow ==
    ASSUME UNCHANGED flowVars
    PROVE  UNCHANGED View
<1>1. UNCHANGED <<is_complete, selected_word_index, prefix_match_count>>
    BY DEF flowVars, languageVars, entryVars, is_complete, selected_word_index,
           prefix_match_count
<1>2. UNCHANGED <<can_commit_or_choose, next_letter_enabled>>
    BY <1>1 DEF flowVars, languageVars, entryVars, can_commit_or_choose,
                can_open_pinyin_candidate_picker, next_letter_enabled, accepts_letters,
                prefix_len_limit
<1>3. UNCHANGED <<pinyin_candidate_labels, pinyin_candidate_page_count>>
    BY <1>1 DEF flowVars, languageVars, entryVars, pinyinVars, pinyin_candidate_labels,
                pinyin_candidate_position, pinyin_candidate_page_count
<1>4. UNCHANGED <<final_word_candidate_labels, final_word_candidate_page_count>>
    BY <1>1 DEF flowVars, finalPickerVars, final_word_candidate_labels,
                final_word_position, final_word_candidate_page_count
<1> QED
    BY <1>1, <1>2, <1>3, <1>4
    DEF View, flowVars, languageVars, entryVars, pinyinVars, entropyVars,
        finalPickerVars, passphraseVars

\* A step of the window writes the view anew or leaves the flow alone.
LEMMA StepsSync ==
    ASSUME UiNext
    PROVE  sync_mnemonic_view \/ (UNCHANGED flowVars /\ UNCHANGED view)
<1>1. CASE TapEntryScreen \/ TapPinyinPicker
    BY <1>1 DEF TapEntryScreen, TapPinyinPicker, on_mnemonic_select_language,
        on_mnemonic_key, on_mnemonic_backspace, on_mnemonic_commit, on_mnemonic_reset,
        on_mnemonic_select_pinyin_candidate, on_mnemonic_change_pinyin_page,
        on_mnemonic_dismiss_pinyin_picker
<1>2. CASE TapEntropyScreen \/ TapDiePicker \/ TapFinalWordPicker
    BY <1>2 DEF TapEntropyScreen, TapDiePicker, TapFinalWordPicker, on_entropy_toggle,
        on_open_final_word_picker, on_open_passphrase_editor, on_open_addresses,
        on_mnemonic_reset, on_entropy_select_die, on_select_final_word_candidate,
        on_final_word_change_page, on_dismiss_final_word_picker, flow_untouched
<1>3. CASE TapPassphraseEditor
    BY <1>3 DEF TapPassphraseEditor, on_passphrase_key, on_passphrase_backspace,
        on_passphrase_toggle_visibility, on_passphrase_cancel, on_passphrase_save,
        flow_untouched
<1>4. CASE \/ TapRandom \/ TapEntropyNavigation \/ TapAddressScreen
           \/ RunTimers \/ NoTap
    BY <1>4 DEF TapRandom, TapEntropyNavigation, TapAddressScreen, RunTimers, NoTap,
        flow_untouched, on_address_change_page, on_address_back
<1>5. CASE generate_random_words
    BY <1>5 DEF generate_random_words, load_mnemonic_word_indices
<1> QED
    BY <1>1, <1>2, <1>3, <1>4, <1>5 DEF UiNext, RenderTask, Tap

\* What is on the screen is the flow as it is, after every step of every task.
THEOREM WindowShowsFlow == UiSpec => []ViewIsCurrent
<1>1. UiInit => ViewIsCurrent
    BY DEF UiInit, ViewIsCurrent
<1>2. ViewIsCurrent /\ [UiNext]_uiVars => ViewIsCurrent'
    BY StepsSync, ViewFollowsFlow DEF ViewIsCurrent, sync_mnemonic_view, uiVars
<1> QED
    BY <1>1, <1>2, PTL DEF UiSpec
-----------------------------------------------------------------------------
(***************************************************************************)
(* The cache belongs to the flow                                           *)
(***************************************************************************)
keyVars == <<language, word_indices, entropy_bits, entropy_confirmed, passphrase>>

\* Operations that leave the words, the bits and the passphrase in use alone.
LEMMA OperationsThatKeepTheKey ==
    ASSUME \/ open_passphrase_editor
           \/ \E key : append_passphrase_key(key)
           \/ backspace_passphrase
           \/ toggle_passphrase_visibility
           \/ cancel_passphrase_editor
           \/ save_passphrase /\ ~passphrase_changes
           \/ \E direction : change_pinyin_candidate_page(direction)
           \/ close_pinyin_candidate_picker
           \/ open_final_word_picker
           \/ close_final_word_picker
           \/ \E direction : change_final_word_candidate_page(direction)
    PROVE  UNCHANGED keyVars
BY DEF keyVars, open_passphrase_editor, append_passphrase_key, backspace_passphrase,
       toggle_passphrase_visibility, cancel_passphrase_editor, save_passphrase,
       passphrase_changes, change_pinyin_candidate_page, close_pinyin_candidate_picker,
       open_final_word_picker, close_final_word_picker,
       change_final_word_candidate_page, flowVars, languageVars, entropyVars,
       passphraseVars

\* A step of the window drops the cache, keeps it for the same key, or fills it.
LEMMA StepsOnTheCache ==
    ASSUME UiNext
    PROVE  \/ drop_cache
           \/ UNCHANGED <<keyVars, receive_address_cache>>
           \/ /\ UNCHANGED flowVars
              /\ \E start_index : show_receive_addresses(start_index)
<1>1. CASE UNCHANGED <<flowVars, receive_address_cache>>
    BY <1>1 DEF flowVars, keyVars, languageVars, entropyVars, passphraseVars
<1>2. CASE TapEntryScreen
    BY <1>2 DEF TapEntryScreen, on_mnemonic_select_language, on_mnemonic_key,
        on_mnemonic_backspace, on_mnemonic_commit, on_mnemonic_reset
<1>3. CASE TapPinyinPicker
    BY <1>3, OperationsThatKeepTheKey
    DEF TapPinyinPicker, on_mnemonic_select_pinyin_candidate,
        on_mnemonic_change_pinyin_page, on_mnemonic_dismiss_pinyin_picker, keep_cache
<1>4. CASE TapEntropyScreen
    BY <1>1, <1>4, OperationsThatKeepTheKey
    DEF TapEntropyScreen, on_entropy_toggle, on_open_final_word_picker,
        on_open_passphrase_editor, on_open_addresses, on_mnemonic_reset,
        flow_untouched, keep_cache
<1>5. CASE TapDiePicker
    BY <1>1, <1>5 DEF TapDiePicker, on_entropy_select_die, flow_untouched
<1>6. CASE TapFinalWordPicker
    BY <1>6, OperationsThatKeepTheKey
    DEF TapFinalWordPicker, on_select_final_word_candidate, on_final_word_change_page,
        on_dismiss_final_word_picker, keep_cache
<1>7. CASE TapPassphraseEditor
    BY <1>1, <1>7, OperationsThatKeepTheKey
    DEF TapPassphraseEditor, on_passphrase_key, on_passphrase_backspace,
        on_passphrase_toggle_visibility, on_passphrase_cancel, on_passphrase_save,
        flow_untouched, keep_cache
<1>8. CASE TapRandom \/ TapEntropyNavigation \/ TapAddressScreen \/ NoTap
    BY <1>1, <1>8 DEF TapRandom, TapEntropyNavigation, TapAddressScreen, NoTap,
        flow_untouched, on_address_change_page, on_address_back
<1>9. CASE RunTimers
    BY <1>1, <1>9 DEF RunTimers
<1>10. CASE generate_random_words
    BY <1>10 DEF generate_random_words, load_mnemonic_word_indices
<1> QED
    BY <1>2, <1>3, <1>4, <1>5, <1>6, <1>7, <1>8, <1>9, <1>10
    DEF UiNext, RenderTask, Tap

\* Deriving a page finds the cache of the present key, or fills it for that key.
LEMMA DerivingKeepsTheKey ==
    ASSUME CacheMatchesFlow, UNCHANGED flowVars,
           NEW start_index, show_receive_addresses(start_index)
    PROVE  CacheMatchesFlow'
<1>1. UNCHANGED <<finalized_key, has_finalized_entropy>>
    BY DEF flowVars, languageVars, entropyVars, passphraseVars, finalized_key,
           has_finalized_entropy, is_complete
<1>2. CacheFor.filled => has_finalized_entropy /\ CacheFor.key = finalized_key
    BY DEF CacheMatchesFlow, CacheFor, Cache
<1>3. \/ receive_address_cache' = CacheFor
      \/ \E pages : CacheFor.filled /\ receive_address_cache' = Cache(CacheFor.key, pages)
    BY DEF show_receive_addresses
<1> QED
    BY <1>1, <1>2, <1>3 DEF CacheMatchesFlow, Cache

\* Addresses are never taken from a cache of other words, bits or another
\* passphrase than those in the flow.
THEOREM CacheBelongsToFlow == UiSpec => []CacheMatchesFlow
<1>1. UiInit => CacheMatchesFlow
    BY DEF UiInit, CacheMatchesFlow, NoCache
<1>2. CacheMatchesFlow /\ [UiNext]_uiVars => CacheMatchesFlow'
  <2> SUFFICES ASSUME CacheMatchesFlow, [UiNext]_uiVars
               PROVE  CacheMatchesFlow'
      OBVIOUS
  <2>1. CASE drop_cache
      BY <2>1 DEF drop_cache, NoCache, CacheMatchesFlow
  <2>2. CASE UNCHANGED <<keyVars, receive_address_cache>>
    <3>1. UNCHANGED <<finalized_key, has_finalized_entropy>>
        BY <2>2 DEF keyVars, finalized_key, has_finalized_entropy, is_complete
    <3> QED
        BY <2>2, <3>1 DEF CacheMatchesFlow
  <2>3. CASE UNCHANGED uiVars
    <3>1. UNCHANGED <<keyVars, receive_address_cache>>
        BY <2>3 DEF uiVars, keyVars, flowVars, languageVars, entropyVars, passphraseVars
    <3> QED
        BY <2>2, <3>1
  <2> QED
      BY <2>1, <2>2, <2>3, StepsOnTheCache, DerivingKeepsTheKey
<1> QED
    BY <1>1, <1>2, PTL DEF UiSpec
-----------------------------------------------------------------------------
(***************************************************************************)
(* Screens and overlays                                                    *)
(***************************************************************************)
ScreenInv == LaterScreensNeedWords /\ OverlaysBelongToScreens

\* What the screens need to know of the flow and of the view.
LEMMA FlowBehindScreens ==
    ASSUME IInv, ViewIsCurrent
    PROVE  /\ entropy_confirmed => is_complete
           /\ final_word_picker_open => is_complete
           /\ pinyin_candidate_picker_open => ~is_complete
           /\ view.pinyin_picker_open = pinyin_candidate_picker_open
           /\ view.final_word_picker_open = final_word_picker_open
           /\ view.passphrase_editor_open = passphrase_editor_open
           /\ view.entropy_confirmed = entropy_confirmed
           /\ view.next_letters = next_letter_enabled
BY DEF IInv, EntryInv, EntropyInv, ConfirmedWhenComplete, NoEntropyWithoutWords,
       PinyinPickerMatchesEntry, PrefixCanBecomeWord, can_open_pinyin_candidate_picker,
       ViewIsCurrent, View

\* The overlays and the words after a step, as far as the screens look at them.
overlayVars == <<word_indices, pinyin_candidate_picker_open, final_word_picker_open,
                 passphrase_editor_open>>

LEMMA ScreensUntouched ==
    ASSUME ScreenInv, UNCHANGED <<overlayVars, navigationVars>>
    PROVE  ScreenInv'
<1>1. UNCHANGED is_complete
    BY DEF overlayVars, is_complete
<1> QED
    BY <1>1 DEF ScreenInv, LaterScreensNeedWords, OverlaysBelongToScreens, overlayVars,
                navigationVars

LEMMA EntryTapsKeepScreens ==
    ASSUME IInv, ViewIsCurrent, ScreenInv, TapEntryScreen
    PROVE  ScreenInv'
<1>1. /\ current_screen = EntryScreen /\ entropy_picker = 0
      /\ ~pinyin_candidate_picker_open /\ ~final_word_picker_open
    BY FlowBehindScreens
    DEF TapEntryScreen, entry_screen, reachable, ScreenInv, OverlaysBelongToScreens,
        EntryScreen, EntropyScreen
<1>2. ~final_word_picker_open'
    BY <1>1
    DEF TapEntryScreen, on_mnemonic_select_language, on_mnemonic_key,
        on_mnemonic_backspace, on_mnemonic_commit, on_mnemonic_reset, select_language,
        push_letter, backspace, commit_word, accept_word_index,
        open_pinyin_candidate_picker, reset, become_default, clear_entropy,
        finalPickerVars, flowVars
<1>3. entropy_picker' = 0
    BY <1>1
    DEF TapEntryScreen, on_mnemonic_select_language, on_mnemonic_key,
        on_mnemonic_backspace, on_mnemonic_commit, on_mnemonic_reset, go_to, stay,
        navigationVars
<1>4. \/ current_screen' = EntryScreen
      \/ /\ current_screen' = EntropyScreen /\ is_complete'
         /\ on_mnemonic_commit
    BY <1>1
    DEF TapEntryScreen, on_mnemonic_select_language, on_mnemonic_key,
        on_mnemonic_backspace, on_mnemonic_commit, on_mnemonic_reset, go_to, stay,
        navigationVars
<1>5. CASE current_screen' = EntryScreen
    BY <1>2, <1>3, <1>5 DEF ScreenInv, LaterScreensNeedWords, OverlaysBelongToScreens
<1>6. CASE current_screen' = EntropyScreen /\ is_complete' /\ on_mnemonic_commit
  <2>1. ~pinyin_candidate_picker_open'
    <3>1. CASE is_complete /\ UNCHANGED flowVars
        BY <1>1, <3>1 DEF flowVars, pinyinVars
    <3>2. CASE ~is_complete /\ open_pinyin_candidate_picker
      <4>1. UNCHANGED is_complete
          BY <3>2 DEF open_pinyin_candidate_picker, is_complete, flowVars
      <4> QED
          BY <1>6, <3>2, <4>1
    <3>3. CASE commit_word
        BY <1>1, <3>3 DEF commit_word, accept_word_index, clear_entry,
                          close_and_rewind_pinyin_picker, pinyinVars, flowVars
    <3> QED
        BY <1>6, <3>1, <3>2, <3>3 DEF on_mnemonic_commit
  <2> QED
      BY <1>2, <1>3, <1>6, <2>1
      DEF ScreenInv, LaterScreensNeedWords, OverlaysBelongToScreens
<1> QED
    BY <1>4, <1>5, <1>6

LEMMA PinyinTapsKeepScreens ==
    ASSUME IInv, ViewIsCurrent, ScreenInv, TapPinyinPicker
    PROVE  ScreenInv'
<1>1. /\ current_screen = EntryScreen /\ entropy_picker = 0
      /\ pinyin_candidate_picker_open /\ ~final_word_picker_open
    BY FlowBehindScreens
    DEF TapPinyinPicker, pinyin_picker, reachable, ScreenInv, OverlaysBelongToScreens,
        EntryScreen, EntropyScreen
<1>2. ~final_word_picker_open'
    BY <1>1
    DEF TapPinyinPicker, on_mnemonic_select_pinyin_candidate,
        on_mnemonic_change_pinyin_page, on_mnemonic_dismiss_pinyin_picker,
        select_pinyin_candidate, accept_word_index, clear_entropy,
        change_pinyin_candidate_page, close_pinyin_candidate_picker, finalPickerVars,
        flowVars
<1>3. entropy_picker' = 0
    BY <1>1
    DEF TapPinyinPicker, on_mnemonic_select_pinyin_candidate,
        on_mnemonic_change_pinyin_page, on_mnemonic_dismiss_pinyin_picker, go_to, stay,
        navigationVars
<1>4. CASE current_screen' = EntryScreen
    BY <1>2, <1>3, <1>4 DEF ScreenInv, LaterScreensNeedWords, OverlaysBelongToScreens
<1>5. ASSUME NEW offset, on_mnemonic_select_pinyin_candidate(offset),
             current_screen' # EntryScreen
      PROVE  ScreenInv'
  <2>1. /\ current_screen' = EntropyScreen /\ is_complete'
        /\ pinyin_candidate_at(offset) # NoIndex
      BY <1>1, <1>5 DEF on_mnemonic_select_pinyin_candidate, go_to, stay, navigationVars
  <2>2. ~pinyin_candidate_picker_open'
      BY <1>5, <2>1 DEF on_mnemonic_select_pinyin_candidate, select_pinyin_candidate,
                        accept_word_index, clear_entry, close_and_rewind_pinyin_picker
  <2> QED
      BY <1>2, <1>3, <2>1, <2>2
      DEF ScreenInv, LaterScreensNeedWords, OverlaysBelongToScreens
<1> QED
    BY <1>1, <1>4, <1>5
    DEF TapPinyinPicker, on_mnemonic_change_pinyin_page,
        on_mnemonic_dismiss_pinyin_picker, stay, navigationVars

LEMMA EntropyTapsKeepScreens ==
    ASSUME IInv, ViewIsCurrent, ScreenInv, TapEntropyScreen
    PROVE  ScreenInv'
<1>1. /\ current_screen = EntropyScreen /\ entropy_picker = 0 /\ is_complete
      /\ ~pinyin_candidate_picker_open /\ ~final_word_picker_open
    BY FlowBehindScreens
    DEF TapEntropyScreen, entropy_screen, reachable, ScreenInv, LaterScreensNeedWords,
        OverlaysBelongToScreens, EntryScreen, EntropyScreen
<1>2. CASE on_open_addresses
  <2>1. UNCHANGED <<overlayVars, is_complete>> /\ entropy_picker' = 0
      BY <1>1, <1>2 DEF on_open_addresses, flow_untouched, flowVars, pinyinVars,
         finalPickerVars, passphraseVars, overlayVars, is_complete, stay, navigationVars
  <2> QED
      BY <1>1, <2>1
      DEF overlayVars, ScreenInv, LaterScreensNeedWords, OverlaysBelongToScreens
<1>3. CASE on_mnemonic_reset /\ go_to(EntryScreen)
  <2>1. ~final_word_picker_open' /\ entropy_picker' = 0 /\ current_screen' = EntryScreen
      BY <1>1, <1>3 DEF on_mnemonic_reset, reset, become_default, clear_entropy, go_to
  <2> QED
      BY <2>1 DEF ScreenInv, LaterScreensNeedWords, OverlaysBelongToScreens
<1>4. ASSUME NEW bit, on_entropy_toggle(bit)
      PROVE  ScreenInv'
  <2>1. UNCHANGED <<overlayVars, navigationVars>>
      BY <1>4 DEF on_entropy_toggle, toggle_entropy_bit, choose_entropy, stay, flowVars,
                  pinyinVars, finalPickerVars, passphraseVars, overlayVars
  <2> QED
      BY <2>1, ScreensUntouched
<1>5. CASE on_open_final_word_picker /\ ~editor_covers
  <2>1. /\ UNCHANGED <<is_complete, pinyin_candidate_picker_open, passphrase_editor_open>>
        /\ UNCHANGED navigationVars
      BY <1>5 DEF on_open_final_word_picker, open_final_word_picker, stay, flowVars,
                  pinyinVars, passphraseVars, is_complete
  <2>2. ~passphrase_editor_open
      BY <1>5, FlowBehindScreens DEF editor_covers
  <2> QED
      BY <1>1, <2>1, <2>2
      DEF navigationVars, ScreenInv, LaterScreensNeedWords, OverlaysBelongToScreens
<1>6. CASE on_open_passphrase_editor
  <2>1. /\ UNCHANGED <<is_complete, pinyin_candidate_picker_open, final_word_picker_open,
                       current_screen, entropy_picker>>
      BY <1>6 DEF on_open_passphrase_editor, open_passphrase_editor, pinyinVars,
                  finalPickerVars, is_complete
  <2> QED
      BY <1>1, <2>1 DEF ScreenInv, LaterScreensNeedWords, OverlaysBelongToScreens
<1> QED
    BY <1>2, <1>3, <1>4, <1>5, <1>6 DEF TapEntropyScreen

LEMMA NavigationKeepsScreens ==
    ASSUME IInv, ViewIsCurrent, ScreenInv, TapEntropyNavigation
    PROVE  ScreenInv'
<1>1. /\ current_screen = EntropyScreen /\ entropy_picker = 0 /\ is_complete
      /\ ~pinyin_candidate_picker_open /\ ~final_word_picker_open
    BY FlowBehindScreens
    DEF TapEntropyNavigation, entropy_screen, reachable, ScreenInv,
        LaterScreensNeedWords, OverlaysBelongToScreens, EntryScreen, EntropyScreen
<1>2. UNCHANGED <<is_complete, pinyin_candidate_picker_open, final_word_picker_open>>
    BY DEF TapEntropyNavigation, flow_untouched, flowVars, pinyinVars, finalPickerVars,
           is_complete
<1>3. \/ current_screen' = EntropyScreen /\ entropy_picker' = 0
      \/ current_screen' = EntryScreen /\ entropy_picker' = 0
      \/ current_screen' = EntropyScreen /\ entropy_entry_mode' = 1
    BY <1>1 DEF TapEntropyNavigation
<1> QED
    BY <1>1, <1>2, <1>3 DEF ScreenInv, LaterScreensNeedWords, OverlaysBelongToScreens

LEMMA DieTapsKeepScreens ==
    ASSUME IInv, ViewIsCurrent, ScreenInv, TapDiePicker
    PROVE  ScreenInv'
<1>1. current_screen = EntropyScreen /\ is_complete /\ ~final_word_picker_open
      /\ ~pinyin_candidate_picker_open
    BY DEF TapDiePicker, ScreenInv, LaterScreensNeedWords, OverlaysBelongToScreens,
           EntryScreen, EntropyScreen
<1>2. UNCHANGED <<is_complete, pinyin_candidate_picker_open, final_word_picker_open>>
    BY DEF TapDiePicker, on_entropy_select_die, set_entropy_die_face, choose_entropy,
           flow_untouched, flowVars, pinyinVars, finalPickerVars, is_complete
<1>3. entropy_picker' = 0 /\ UNCHANGED current_screen
    BY DEF TapDiePicker
<1> QED
    BY <1>1, <1>2, <1>3 DEF ScreenInv, LaterScreensNeedWords, OverlaysBelongToScreens

LEMMA FinalWordTapsKeepScreens ==
    ASSUME IInv, ViewIsCurrent, ScreenInv, TapFinalWordPicker
    PROVE  ScreenInv'
<1>1. /\ current_screen = EntropyScreen /\ entropy_picker = 0 /\ is_complete
      /\ ~pinyin_candidate_picker_open /\ ~passphrase_editor_open
    BY FlowBehindScreens
    DEF TapFinalWordPicker, final_word_picker, reachable, ScreenInv,
        LaterScreensNeedWords, OverlaysBelongToScreens, EntryScreen, EntropyScreen
<1>2. UNCHANGED <<is_complete, pinyin_candidate_picker_open, passphrase_editor_open>>
    BY DEF TapFinalWordPicker, on_select_final_word_candidate,
           on_final_word_change_page, on_dismiss_final_word_picker,
           select_final_word_candidate, choose_entropy, change_final_word_candidate_page,
           close_final_word_picker, flowVars, pinyinVars, passphraseVars, is_complete
<1>3. current_screen' = EntropyScreen /\ entropy_picker' = 0
    BY <1>1 DEF TapFinalWordPicker, on_select_final_word_candidate,
       on_final_word_change_page, on_dismiss_final_word_picker, go_to, stay,
       navigationVars
<1> QED
    BY <1>1, <1>2, <1>3 DEF ScreenInv, LaterScreensNeedWords, OverlaysBelongToScreens

LEMMA PassphraseTapsKeepScreens ==
    ASSUME IInv, ViewIsCurrent, ScreenInv, TapPassphraseEditor
    PROVE  ScreenInv'
<1>1. passphrase_editor_open /\ ~final_word_picker_open
    BY FlowBehindScreens
    DEF TapPassphraseEditor, passphrase_editor, ScreenInv, OverlaysBelongToScreens
<1>2. UNCHANGED <<is_complete, pinyin_candidate_picker_open, final_word_picker_open>>
    BY DEF TapPassphraseEditor, on_passphrase_key, on_passphrase_backspace,
           on_passphrase_toggle_visibility, on_passphrase_cancel, on_passphrase_save,
           append_passphrase_key, backspace_passphrase, toggle_passphrase_visibility,
           cancel_passphrase_editor, save_passphrase, flow_untouched, flowVars,
           pinyinVars, finalPickerVars, is_complete
<1>3. UNCHANGED <<current_screen, entropy_picker, entropy_entry_mode>>
    BY DEF TapPassphraseEditor, on_passphrase_key, on_passphrase_backspace,
           on_passphrase_toggle_visibility, on_passphrase_cancel, on_passphrase_save,
           stay, navigationVars
<1> QED
    BY <1>1, <1>2, <1>3 DEF ScreenInv, LaterScreensNeedWords, OverlaysBelongToScreens

LEMMA AddressTapsKeepScreens ==
    ASSUME IInv, ViewIsCurrent, ScreenInv, TapAddressScreen
    PROVE  ScreenInv'
<1>1. /\ current_screen = AddressScreen /\ entropy_picker = 0 /\ is_complete
      /\ ~pinyin_candidate_picker_open /\ ~final_word_picker_open
    BY FlowBehindScreens
    DEF TapAddressScreen, address_screen, reachable, ScreenInv, LaterScreensNeedWords,
        OverlaysBelongToScreens, EntryScreen, EntropyScreen, AddressScreen
<1>2. UNCHANGED <<is_complete, pinyin_candidate_picker_open, final_word_picker_open>>
    BY DEF TapAddressScreen, on_address_change_page, on_address_back, flow_untouched,
           flowVars, pinyinVars, finalPickerVars, is_complete
<1>3. current_screen' \in {EntropyScreen, AddressScreen} /\ entropy_picker' = 0
    BY <1>1 DEF TapAddressScreen, on_address_change_page, queue_receive_addresses,
       on_address_back, go_to, navigationVars
<1> QED
    BY <1>1, <1>2, <1>3 DEF ScreenInv, LaterScreensNeedWords, OverlaysBelongToScreens

LEMMA RandomWordsKeepScreens ==
    ASSUME IInv, ViewIsCurrent, ScreenInv, generate_random_words
    PROVE  ScreenInv'
<1>1. PICK indices \in [1 .. PrefixWordCount -> WordIndices] :
          load_mnemonic_word_indices(indices)
    BY DEF generate_random_words
<1>2. word_indices' = indices /\ ~pinyin_candidate_picker_open' /\ ~final_word_picker_open'
    BY <1>1 DEF load_mnemonic_word_indices, load_word_indices, clear_entry,
                close_and_rewind_pinyin_picker, clear_entropy
<1>3. is_complete'
    BY <1>2, FlowAssumption DEF is_complete
<1>4. current_screen' = EntropyScreen /\ UNCHANGED <<entropy_picker, entropy_entry_mode>>
    BY <1>1 DEF load_mnemonic_word_indices, go_to
<1> QED
    BY <1>2, <1>3, <1>4 DEF ScreenInv, LaterScreensNeedWords, OverlaysBelongToScreens

LEMMA ScreensInvariance == UiSpec => []ScreenInv
<1>1. UiInit => ScreenInv
    BY DEF UiInit, Init, ScreenInv, LaterScreensNeedWords, OverlaysBelongToScreens
<1>2. IInv /\ ViewIsCurrent /\ ScreenInv /\ [UiNext]_uiVars => ScreenInv'
  <2> SUFFICES ASSUME IInv, ViewIsCurrent, ScreenInv, [UiNext]_uiVars
               PROVE  ScreenInv'
      OBVIOUS
  <2>1. CASE UNCHANGED <<flowVars, navigationVars>>
      BY <2>1, ScreensUntouched
      DEF flowVars, pinyinVars, finalPickerVars, passphraseVars, overlayVars
  <2>2. CASE TapRandom \/ RunTimers \/ NoTap \/ UNCHANGED uiVars
      BY <2>1, <2>2 DEF TapRandom, RunTimers, NoTap, flow_untouched, stay, uiVars
  <2> QED
      BY <2>2, EntryTapsKeepScreens, PinyinTapsKeepScreens, EntropyTapsKeepScreens,
         NavigationKeepsScreens, DieTapsKeepScreens, FinalWordTapsKeepScreens,
         PassphraseTapsKeepScreens, AddressTapsKeepScreens, RandomWordsKeepScreens
      DEF UiNext, RenderTask, Tap
<1> QED
    BY <1>1, <1>2, FlowInvariance, WindowShowsFlow, PTL DEF UiSpec

\* The bits and the addresses come up only when every word is there, no picker
\* outlives its screen, and pickers and editor keep out of each other's way.
THEOREM ScreensFollowFlow == UiSpec => []ScreensMatchFlow
<1>1. ScreenInv => ScreensMatchFlow
    BY DEF ScreenInv, ScreensMatchFlow
<1> QED
    BY <1>1, ScreensInvariance, PTL

-----------------------------------------------------------------------------
(***************************************************************************)
(* The keyboard                                                            *)
(***************************************************************************)
\* A step of the window that is not a letter key is another operation.
LEMMA OnlyKeysPushLetters ==
    ASSUME UiNext, ~last_letter_was_rejected,
           ~ \E key \in view.next_letters : on_mnemonic_key(key)
    PROVE  ~last_letter_was_rejected'
<1>1. CASE UNCHANGED flowVars
    BY <1>1 DEF flowVars, entryVars
<1>2. CASE TapEntryScreen
    BY <1>2
    DEF TapEntryScreen, on_mnemonic_select_language, on_mnemonic_backspace,
        on_mnemonic_commit, on_mnemonic_reset, select_language, backspace, commit_word,
        open_pinyin_candidate_picker, accept_word_index, reset, become_default,
        clear_entry, entryVars, flowVars
<1>3. CASE TapPinyinPicker
    BY <1>3
    DEF TapPinyinPicker, on_mnemonic_select_pinyin_candidate,
        on_mnemonic_change_pinyin_page, on_mnemonic_dismiss_pinyin_picker,
        select_pinyin_candidate, accept_word_index, clear_entry,
        change_pinyin_candidate_page, close_pinyin_candidate_picker, entryVars, flowVars
<1>4. CASE TapEntropyScreen \/ TapDiePicker
    BY <1>4
    DEF TapEntropyScreen, TapDiePicker, on_entropy_toggle, on_open_final_word_picker,
        on_open_passphrase_editor, on_open_addresses, on_mnemonic_reset,
        on_entropy_select_die, flow_untouched, toggle_entropy_bit, set_entropy_die_face,
        choose_entropy, open_final_word_picker, open_passphrase_editor, reset,
        become_default, clear_entry, entryVars, flowVars
<1>5. CASE TapFinalWordPicker
    BY <1>5
    DEF TapFinalWordPicker, on_select_final_word_candidate, on_final_word_change_page,
        on_dismiss_final_word_picker, select_final_word_candidate, choose_entropy,
        change_final_word_candidate_page, close_final_word_picker, entryVars, flowVars
<1>6. CASE TapPassphraseEditor
    BY <1>6
    DEF TapPassphraseEditor, on_passphrase_key, on_passphrase_backspace,
        on_passphrase_toggle_visibility, on_passphrase_cancel, on_passphrase_save,
        append_passphrase_key, backspace_passphrase, toggle_passphrase_visibility,
        cancel_passphrase_editor, save_passphrase, flow_untouched, entryVars, flowVars
<1>7. CASE \/ TapRandom \/ TapEntropyNavigation \/ TapAddressScreen
           \/ RunTimers \/ NoTap
    BY <1>1, <1>7
    DEF TapRandom, TapEntropyNavigation, TapAddressScreen, RunTimers, NoTap,
        flow_untouched, on_address_change_page, on_address_back
<1>8. CASE generate_random_words
    BY <1>8 DEF generate_random_words, load_mnemonic_word_indices, load_word_indices,
                clear_entry, entryVars, flowVars
<1> QED
    BY <1>2, <1>3, <1>4, <1>5, <1>6, <1>7, <1>8 DEF UiNext, RenderTask, Tap

\* A key the window enables is a letter the flow takes.
LEMMA EnabledKeysAreTaken ==
    ASSUME EnabledLettersAreAccepted, IInv, ViewIsCurrent,
           NEW key \in view.next_letters, push_letter(key)
    PROVE  ~last_letter_was_rejected'
<1>1. /\ key \in Letters /\ accepts_letters
      /\ prefix_has_matches(Append(prefix, key))
    BY FlowBehindScreens DEF EnabledLettersAreAccepted
<1> QED
    BY <1>1 DEF push_letter

\* The message about rejected letters never appears.
THEOREM KeysAreNeverRejected == UiSpec => []KeyboardNeverRejects
<1>1. UiInit => KeyboardNeverRejects
    BY DEF UiInit, Init, KeyboardNeverRejects
<1>2. /\ EnabledLettersAreAccepted /\ IInv /\ ViewIsCurrent /\ KeyboardNeverRejects
      /\ [UiNext]_uiVars
      => KeyboardNeverRejects'
  <2> SUFFICES ASSUME EnabledLettersAreAccepted, IInv, ViewIsCurrent,
                      KeyboardNeverRejects, [UiNext]_uiVars
               PROVE  KeyboardNeverRejects'
      OBVIOUS
  <2>1. CASE UNCHANGED uiVars
      BY <2>1 DEF uiVars, flowVars, entryVars, KeyboardNeverRejects
  <2>2. CASE \E key \in view.next_letters : on_mnemonic_key(key)
      BY <2>2, EnabledKeysAreTaken DEF on_mnemonic_key, KeyboardNeverRejects
  <2> QED
      BY <2>1, <2>2, OnlyKeysPushLetters DEF KeyboardNeverRejects
<1>3. UiSpec => []EnabledLettersAreAccepted
    BY WindowImplementsFlow, KeyboardAgreesWithEntry, PTL DEF FlowSpec
<1> QED
    BY <1>1, <1>2, <1>3, FlowInvariance, WindowShowsFlow, PTL DEF UiSpec
-----------------------------------------------------------------------------
(***************************************************************************)
(* What a tap takes                                                        *)
(***************************************************************************)
\* Use word appends the word on the entry line to the confirmed words.
LEMMA EntryTapsTakeTheEntry ==
    ASSUME IInv, ViewIsCurrent, TapEntryScreen, Len(word_indices') > Len(word_indices)
    PROVE  word_indices' = Append(view.confirmed_words, view.entry_word)
<1>1. word_indices \in Seq(WordIndices) /\ Len(word_indices) \in Nat
    BY DEF IInv, EntryInv, EntryTypes
<1>2. word_indices' # word_indices /\ word_indices' # <<>>
  <2>1. word_indices' # word_indices
      BY <1>1
  <2>2. word_indices' # <<>>
    <3>1. SUFFICES ASSUME word_indices' = <<>> PROVE FALSE
        OBVIOUS
    <3>2. Len(word_indices') = 0
        BY <3>1
    <3> QED
        BY <1>1, <3>2
  <2> QED
      BY <2>1, <2>2
<1>3. ~on_mnemonic_backspace
  <2>1. SUFFICES ASSUME on_mnemonic_backspace PROVE FALSE
      OBVIOUS
  <2>2. word_indices # <<>> /\ word_indices' = SubSeq(word_indices, 1, Len(word_indices) - 1)
      BY <1>2, <2>1 DEF on_mnemonic_backspace, backspace
  <2>3. Len(word_indices') = Len(word_indices) - 1
      BY <1>1, <2>2
  <2> QED
      BY <1>1, <2>3
<1>4. on_mnemonic_commit
    BY <1>2, <1>3 DEF TapEntryScreen, on_mnemonic_select_language, on_mnemonic_key,
       on_mnemonic_reset, select_language, push_letter, reset, become_default, flowVars
<1>5. selected_word_index # NoIndex /\ accept_word_index(selected_word_index)
    BY <1>2, <1>4 DEF on_mnemonic_commit, open_pinyin_candidate_picker, commit_word, flowVars
<1>6. view.confirmed_words = word_indices /\ view.entry_word = selected_word_index
    BY <1>5 DEF ViewIsCurrent, View, selected_word_index
<1> QED
    BY <1>5, <1>6 DEF accept_word_index

\* A pinyin cell appends the character on it.
LEMMA PinyinTapsTakeTheLabel ==
    ASSUME IInv, ViewIsCurrent, TapPinyinPicker, Len(word_indices') > Len(word_indices)
    PROVE  \E offset \in DOMAIN view.pinyin_candidates :
               word_indices' = Append(view.confirmed_words, view.pinyin_candidates[offset])
<1>1. word_indices' # word_indices
  <2>1. Len(word_indices) \in Nat
      BY DEF IInv, EntryInv, EntryTypes
  <2> QED
      BY <2>1
<1>2. PICK offset \in 0 .. PinyinPerPage - 1 : select_pinyin_candidate(offset)
    BY <1>1 DEF TapPinyinPicker, on_mnemonic_change_pinyin_page,
       on_mnemonic_dismiss_pinyin_picker, on_mnemonic_select_pinyin_candidate,
       change_pinyin_candidate_page, close_pinyin_candidate_picker, flowVars
<1>3. /\ pinyin_candidate_at(offset) # NoIndex
      /\ word_indices' = Append(word_indices, pinyin_candidate_at(offset))
    BY <1>1, <1>2 DEF select_pinyin_candidate, accept_word_index, flowVars
<1>4. /\ pinyin_candidate_picker_open
      /\ pinyin_candidate_at(offset) =
            word_index_at(prefix, pinyin_candidate_position(offset))
    BY <1>3 DEF pinyin_candidate_at
<1>5. language = SimplifiedChinese
    BY <1>4 DEF IInv, EntryInv, PinyinPickerMatchesEntry, can_open_pinyin_candidate_picker
<1>6. /\ view.confirmed_words = word_indices
      /\ offset \in DOMAIN view.pinyin_candidates
      /\ view.pinyin_candidates[offset] = pinyin_candidate_at(offset)
    BY <1>4, <1>5 DEF ViewIsCurrent, View, pinyin_candidate_labels
<1> QED
    BY <1>3, <1>6

\* A cell of the final-word picker sets the bits of the word on it.
LEMMA FinalWordTapsTakeTheLabel ==
    ASSUME IInv, ViewIsCurrent, TapFinalWordPicker, entropy_bits' # entropy_bits
    PROVE  \E offset \in DOMAIN view.final_word_candidates :
               entropy_bits' = view.final_word_candidates[offset]
<1>1. PICK offset \in 0 .. FinalWordsPerPage - 1 :
          select_final_word_candidate(offset)
    BY DEF TapFinalWordPicker, on_final_word_change_page, on_dismiss_final_word_picker,
       on_select_final_word_candidate, change_final_word_candidate_page,
       close_final_word_picker, entropyVars, flowVars
<1>2. selectable_final_word(offset) /\ entropy_bits' = final_word_position(offset)
    BY <1>1 DEF select_final_word_candidate, choose_entropy, entropyVars, flowVars
<1>3. is_complete
    BY <1>2, FlowBehindScreens DEF selectable_final_word
<1>4. /\ offset \in DOMAIN view.final_word_candidates
      /\ view.final_word_candidates[offset] = final_word_position(offset)
    BY <1>2, <1>3 DEF ViewIsCurrent, View, final_word_candidate_labels, selectable_final_word
<1> QED
    BY <1>2, <1>4

\* A finger takes the word its button showed: the window is never behind the
\* flow, and the flow enters what it showed.
THEOREM TapsTakeTheLabel == UiSpec => TapsTakeWhatIsShown
<1> DEFINE
      Entry == TapEntryScreen /\ Len(word_indices') > Len(word_indices) =>
          word_indices' = Append(view.confirmed_words, view.entry_word)
      Pinyin == TapPinyinPicker /\ Len(word_indices') > Len(word_indices) =>
          \E offset \in DOMAIN view.pinyin_candidates :
              word_indices' = Append(view.confirmed_words, view.pinyin_candidates[offset])
      Final == TapFinalWordPicker /\ entropy_bits' # entropy_bits =>
          \E offset \in DOMAIN view.final_word_candidates :
              entropy_bits' = view.final_word_candidates[offset]
<1>1. IInv /\ ViewIsCurrent => [Entry /\ Pinyin /\ Final]_uiVars
    BY EntryTapsTakeTheEntry, PinyinTapsTakeTheLabel, FinalWordTapsTakeTheLabel
<1> QED
    BY <1>1, FlowInvariance, WindowShowsFlow, PTL DEF UiSpec, TapsTakeWhatIsShown
=============================================================================
