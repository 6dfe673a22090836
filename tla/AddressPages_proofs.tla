------------------------ MODULE AddressPages_proofs ------------------------
(***************************************************************************)
(* The address screen of WalletUi, for every number of words, bits and     *)
(* addresses: it announces a page or shows one, and the page is one of the *)
(* words on the screen.                                                    *)
(***************************************************************************)
EXTENDS WalletUi_proofs

-----------------------------------------------------------------------------
(***************************************************************************)
(* The invariant.  A single-shot closure is pending only between the tap   *)
(* that asked for a page and the next turn of the render task.             *)
(***************************************************************************)
Indexes == 0 .. MaxAddressIndex

TimersInv ==
    /\ timers = <<>> \/ \E start_index \in Indexes : timers = <<start_index>>
    /\ render \in {"timers", "touch"}
    /\ render = "touch" => timers = <<>>

AddressFields ==
    /\ address = [rows |-> address.rows, descriptor |-> address.descriptor,
                  view |-> address.view, start_index |-> address.start_index,
                  loading |-> address.loading,
                  has_previous_page |-> address.has_previous_page,
                  has_next_page |-> address.has_next_page]
    /\ address.start_index \in Indexes

\* A page whose cache is gone is shown only after the editor was left: Save
\* closes it, and the address screen has no button that opens it.
PageShown ==
    /\ ~address.loading
    /\ address.rows.kind = "page"
    /\ address.rows.index = address.start_index
    /\ address.rows.key = [language |-> language, words |-> word_indices,
                           bits |-> entropy_bits, passphrase |-> address.rows.key.passphrase]
    /\ address.has_previous_page <=> address.start_index > 0
    /\ address.has_next_page <=> address.start_index < MaxAddressIndex
    /\ receive_address_cache.filled =>
          /\ receive_address_cache.key = address.rows.key
          /\ receive_address_cache.pages > address.start_index
    /\ address.rows.key.passphrase = passphrase \/ passphrase_editor_open =>
          receive_address_cache.filled

PageInv == current_screen = AddressScreen =>
    (address.loading /\ timers = <<address.start_index>>) \/ PageShown

AddressInv == TimersInv /\ AddressFields /\ PageInv

\* What is proved of the window already.
WindowInv == IInv /\ ViewIsCurrent /\ CacheMatchesFlow /\ ScreenInv

LEMMA WindowInvariance == UiSpec => []WindowInv
BY FlowInvariance, WindowShowsFlow, CacheBelongsToFlow, ScreensInvariance, PTL DEF WindowInv

-----------------------------------------------------------------------------
(***************************************************************************)
(* Which taps reach the address screen                                     *)
(***************************************************************************)
LEMMA OverlaysElsewhere ==
    ASSUME WindowInv
    PROVE  /\ entry_screen \/ pinyin_picker => current_screen = EntryScreen
           /\ entropy_screen \/ final_word_picker \/ entropy_picker # 0
                 => current_screen = EntropyScreen
<1>1. IInv /\ ViewIsCurrent /\ OverlaysBelongToScreens
  BY DEF WindowInv, ScreenInv
<1> QED
  BY <1>1, FlowBehindScreens
  DEF entry_screen, pinyin_picker, entropy_screen, final_word_picker, OverlaysBelongToScreens

LeavesAddresses == current_screen' # AddressScreen /\ UNCHANGED addressVars

LEMMA EntryTapsElsewhere ==
    ASSUME WindowInv, TapEntryScreen \/ TapPinyinPicker
    PROVE  LeavesAddresses
<1>1. current_screen = EntryScreen
  BY OverlaysElsewhere DEF TapEntryScreen, TapPinyinPicker
<1>2. \/ stay
      \/ go_to(EntropyScreen)
  BY DEF TapEntryScreen, TapPinyinPicker, on_mnemonic_select_language, on_mnemonic_key,
     on_mnemonic_backspace, on_mnemonic_commit, on_mnemonic_reset,
     on_mnemonic_select_pinyin_candidate, on_mnemonic_change_pinyin_page,
     on_mnemonic_dismiss_pinyin_picker
<1> QED
  BY <1>1, <1>2 DEF stay, go_to, navigationVars, LeavesAddresses, EntryScreen, EntropyScreen,
     AddressScreen

LEMMA EntropyTapsElsewhere ==
    ASSUME WindowInv,
           TapEntropyScreen \/ TapEntropyNavigation \/ TapDiePicker \/ TapFinalWordPicker
    PROVE  LeavesAddresses \/ (TapEntropyScreen /\ queue_receive_addresses(0))
<1>1. current_screen = EntropyScreen
  BY OverlaysElsewhere
  DEF TapEntropyScreen, TapEntropyNavigation, TapDiePicker, TapFinalWordPicker
<1>2. CASE TapEntropyScreen
  <2>1. stay \/ go_to(EntryScreen) \/ queue_receive_addresses(0)
           \/ (UNCHANGED <<current_screen, addressVars>>)
    BY <1>2 DEF TapEntropyScreen, on_entropy_toggle, on_open_final_word_picker,
       on_open_passphrase_editor, on_open_addresses, on_mnemonic_reset
  <2> QED
    BY <1>1, <1>2, <2>1 DEF stay, go_to, navigationVars, LeavesAddresses, EntryScreen,
       EntropyScreen, AddressScreen
<1>3. CASE TapEntropyNavigation \/ TapDiePicker
  BY <1>1, <1>3 DEF TapEntropyNavigation, TapDiePicker, LeavesAddresses, EntryScreen,
     EntropyScreen, AddressScreen
<1>4. CASE TapFinalWordPicker
  <2>1. stay \/ go_to(EntropyScreen)
    BY <1>4 DEF TapFinalWordPicker, on_select_final_word_candidate, on_final_word_change_page,
       on_dismiss_final_word_picker
  <2> QED
    BY <1>1, <2>1 DEF stay, go_to, navigationVars, LeavesAddresses, EntropyScreen,
       AddressScreen
<1> QED
  BY <1>2, <1>3, <1>4

-----------------------------------------------------------------------------
(***************************************************************************)
(* Asking for a page                                                       *)
(***************************************************************************)
LEMMA Queueing ==
    ASSUME AddressInv, render = "touch", render' = "timers",
           NEW start_index \in Indexes, queue_receive_addresses(start_index)
    PROVE  AddressInv'
<1>1. timers' = <<start_index>>
  BY DEF AddressInv, TimersInv, queue_receive_addresses
<1>2. TimersInv'
  BY <1>1 DEF TimersInv
<1>3. /\ AddressFields'
      /\ address'.loading /\ address'.start_index = start_index
  BY DEF queue_receive_addresses, show_address_loading, AddressFields
<1> QED
  BY <1>1, <1>2, <1>3 DEF AddressInv, PageInv

\* Leaving, or staying away from, the address screen.
LEMMA Leaving ==
    ASSUME AddressInv, LeavesAddresses,
           (render = "touch" /\ render' = "timers") \/ UNCHANGED render
    PROVE  AddressInv'
BY DEF AddressInv, TimersInv, AddressFields, PageInv, LeavesAddresses, addressVars

-----------------------------------------------------------------------------
(***************************************************************************)
(* Showing it                                                              *)
(***************************************************************************)
LEMMA Showing ==
    ASSUME WindowInv, AddressFields, current_screen = AddressScreen,
           UNCHANGED <<flowVars, current_screen>>,
           show_receive_addresses(address.start_index)
    PROVE  PageShown' /\ AddressFields' /\ UNCHANGED address.start_index
<1> DEFINE start == address.start_index
<1>1. start \in Indexes /\ start <= MaxAddressIndex /\ MaxAddressIndex \in Nat
  BY UiAssumption DEF AddressFields, Indexes
<1>2. has_finalized_entropy
  BY FlowBehindScreens DEF WindowInv, ScreenInv, LaterScreensNeedWords, EntryScreen,
     AddressScreen, has_finalized_entropy, IInv, EntropyInv, ConfirmedWhenComplete
<1>3. CacheFor.filled /\ CacheFor.key = finalized_key
  BY <1>2 DEF WindowInv, CacheMatchesFlow, CacheFor, Cache
<1>4. /\ receive_address_cache' =
             Cache(CacheFor.key, IF CacheFor.pages > start THEN CacheFor.pages ELSE start + 1)
      /\ address' = ShownPage(CacheFor, start)
  BY <1>1, <1>3 DEF show_receive_addresses
<1>5. /\ receive_address_cache'.filled
      /\ receive_address_cache'.key = finalized_key
  BY <1>3, <1>4 DEF Cache
<1>6. receive_address_cache'.pages > start
  <2>1. receive_address_cache'.pages = IF CacheFor.pages > start THEN CacheFor.pages ELSE start + 1
    BY <1>4 DEF Cache
  <2>2. start + 1 > start
    BY <1>1 DEF Indexes
  <2> QED
    BY <2>1, <2>2
<1>7. /\ ~address'.loading
      /\ address'.rows = Page(finalized_key, start)
      /\ address'.start_index = start
      /\ address'.has_previous_page = (start >= 1)
      /\ address'.has_next_page = (start <= MaxAddressIndex - 1)
      /\ AddressFields'
  BY <1>1, <1>3, <1>4 DEF ShownPage, AddressFields
<1>8. /\ address'.has_previous_page <=> start > 0
      /\ address'.has_next_page <=> start < MaxAddressIndex
  <2>1. (start >= 1) <=> start > 0
    BY <1>1 DEF Indexes
  <2>2. (start <= MaxAddressIndex - 1) <=> start < MaxAddressIndex
    BY <1>1 DEF Indexes
  <2> HIDE DEF start
  <2> QED
    BY <1>7, <2>1, <2>2
<1>9. /\ address'.rows.kind = "page" /\ address'.rows.index = start
      /\ address'.rows.key = finalized_key
  BY <1>7 DEF Page
<1>10. UNCHANGED finalized_key /\ UNCHANGED <<language, word_indices, entropy_bits, passphrase>>
  BY DEF flowVars, languageVars, entropyVars, passphraseVars, finalized_key
<1>11. address'.rows.key = [language |-> language', words |-> word_indices',
                            bits |-> entropy_bits', passphrase |-> address'.rows.key.passphrase]
  BY <1>9, <1>10 DEF finalized_key
<1> QED
  BY <1>5, <1>6, <1>7, <1>8, <1>9, <1>11 DEF PageShown

LEMMA Timers ==
    ASSUME WindowInv, AddressInv, RunTimers
    PROVE  AddressInv'
<1>1. UNCHANGED <<flowVars, current_screen>>
  BY DEF RunTimers, navigationVars
<1>2. timers' = <<>> /\ render' = "touch"
  BY DEF RunTimers, AddressInv, TimersInv, addressVars
<1>3. TimersInv'
  BY <1>2 DEF TimersInv
<1>4. UNCHANGED <<language, word_indices, entropy_bits, passphrase, passphrase_editor_open>>
  BY <1>1 DEF flowVars, languageVars, entropyVars, passphraseVars
<1>5. CASE UNCHANGED <<address, receive_address_cache>>
           /\ (current_screen = AddressScreen => ~address.loading)
  BY <1>1, <1>3, <1>4, <1>5 DEF AddressInv, AddressFields, PageInv, PageShown
<1>6. CASE current_screen = AddressScreen /\ address.loading
  <2>1. timers = <<address.start_index>>
    BY <1>6 DEF AddressInv, PageInv, PageShown
  <2>2. show_receive_addresses(address.start_index)
    BY <1>6, <2>1 DEF RunTimers, timer_is_current
  <2> QED
    BY <1>1, <1>3, <1>6, <2>2, Showing DEF AddressInv, PageInv
<1>7. CASE current_screen # AddressScreen
  <2>1. UNCHANGED <<address, receive_address_cache>>
    BY <1>7 DEF RunTimers, addressVars, timer_is_current
  <2> QED
    BY <1>5, <1>7, <2>1
<1>8. CASE current_screen = AddressScreen /\ ~address.loading
  <2>1. UNCHANGED <<address, receive_address_cache>>
    BY <1>8 DEF RunTimers, addressVars, timer_is_current
  <2> QED
    BY <1>5, <1>8, <2>1
<1> QED
  BY <1>6, <1>7, <1>8

-----------------------------------------------------------------------------
(***************************************************************************)
(* Taps on the address screen                                              *)
(***************************************************************************)
LEMMA AddressTaps ==
    ASSUME WindowInv, AddressInv, TapAddressScreen
    PROVE  AddressInv'
<1>1. render = "touch" /\ render' = "timers" /\ timers = <<>>
      /\ current_screen = AddressScreen
  BY DEF TapAddressScreen, Tapped, address_screen, AddressInv, TimersInv
<1>2. PageShown /\ address.start_index \in Indexes /\ MaxAddressIndex \in Nat
  BY <1>1, UiAssumption DEF AddressInv, PageInv, AddressFields
<1>3. CASE address.has_previous_page /\ on_address_change_page(-1)
  <2>1. address.start_index > 0
    BY <1>2, <1>3 DEF PageShown
  <2>2. address.start_index - 1 \in Indexes /\ address.start_index # 0
    BY <1>2, <2>1 DEF Indexes
  <2>3. queue_receive_addresses(address.start_index - 1)
    BY <1>3, <2>2 DEF on_address_change_page
  <2> QED
    BY <1>1, <2>2, <2>3, Queueing
<1>4. CASE address.has_next_page /\ on_address_change_page(1)
  <2>1. address.start_index < MaxAddressIndex
    BY <1>2, <1>4 DEF PageShown
  <2>2. address.start_index + 1 \in Indexes
    BY <1>2, <2>1 DEF Indexes
  <2>3. queue_receive_addresses(address.start_index + 1)
    BY <1>4 DEF on_address_change_page
  <2> QED
    BY <1>1, <2>2, <2>3, Queueing
<1>5. CASE on_address_back
  <2>1. LeavesAddresses
    BY <1>5 DEF on_address_back, go_to, LeavesAddresses, EntropyScreen, AddressScreen
  <2> QED
    BY <1>1, <2>1, Leaving
<1>6. ASSUME NEW shown \in {0, 1}, address' = [address EXCEPT !.view = shown],
             flow_untouched, UNCHANGED <<navigationVars, timers>>
      PROVE  AddressInv'
  <2>1. /\ AddressFields'
        /\ UNCHANGED <<address.rows, address.start_index, address.loading,
                       address.has_previous_page, address.has_next_page>>
    BY <1>6 DEF AddressInv, AddressFields
  <2>2. /\ UNCHANGED <<language, word_indices, entropy_bits, passphrase,
                       passphrase_editor_open, receive_address_cache, current_screen, timers>>
    BY <1>6 DEF flow_untouched, flowVars, languageVars, entropyVars, passphraseVars,
       navigationVars
  <2>3. PageShown'
    BY <1>2, <2>1, <2>2 DEF PageShown
  <2>4. TimersInv'
    BY <1>1, <2>2 DEF TimersInv
  <2> QED
    BY <2>1, <2>3, <2>4 DEF AddressInv, PageInv
<1> QED
  BY <1>3, <1>4, <1>5, <1>6 DEF TapAddressScreen

\* What the keys of the editor do to the passphrase in use.
LEMMA EditorTaps ==
    ASSUME TapPassphraseEditor
    PROVE  /\ UNCHANGED <<language, word_indices, entropy_bits>>
           /\ \/ UNCHANGED <<passphrase, receive_address_cache>>
              \/ passphrase' # passphrase /\ drop_cache /\ ~passphrase_editor_open'
           /\ passphrase_editor_open' => passphrase_editor_open
<1>1. CASE \/ \E key \in (IF symbol_page THEN SymbolKeys ELSE PassphraseKeys \ SymbolKeys) :
                  on_passphrase_key(key)
           \/ on_passphrase_backspace \/ on_passphrase_toggle_visibility
           \/ on_passphrase_cancel
  BY <1>1 DEF on_passphrase_key, on_passphrase_backspace, on_passphrase_toggle_visibility,
     on_passphrase_cancel, append_passphrase_key, backspace_passphrase,
     toggle_passphrase_visibility, cancel_passphrase_editor, keep_cache, flowVars,
     languageVars, entropyVars, passphraseVars
<1>2. CASE on_passphrase_save
  <2>1. CASE passphrase_changes
    BY <1>2, <2>1 DEF on_passphrase_save, save_passphrase, passphrase_changes, languageVars,
       entropyVars
  <2>2. CASE ~passphrase_changes
    BY <1>2, <2>2 DEF on_passphrase_save, save_passphrase, passphrase_changes, keep_cache,
       flowVars, languageVars, entropyVars, passphraseVars
  <2> QED
    BY <2>1, <2>2
<1>3. CASE flow_untouched
  BY <1>3 DEF flow_untouched, flowVars, languageVars, entropyVars, passphraseVars
<1> QED
  BY <1>1, <1>2, <1>3 DEF TapPassphraseEditor

LEMMA EditorTapsKeepPage ==
    ASSUME WindowInv, AddressInv, TapPassphraseEditor
    PROVE  AddressInv'
<1>1. render = "touch" /\ render' = "timers" /\ timers = <<>>
  BY DEF TapPassphraseEditor, Tapped, AddressInv, TimersInv
<1>2. UNCHANGED <<current_screen, addressVars>>
  BY DEF TapPassphraseEditor, on_passphrase_key, on_passphrase_backspace,
     on_passphrase_toggle_visibility, on_passphrase_cancel, on_passphrase_save, stay,
     navigationVars
<1>3. CASE current_screen # AddressScreen
  BY <1>1, <1>2, <1>3, Leaving DEF LeavesAddresses
<1>4. CASE current_screen = AddressScreen
  <2>1. PageShown /\ passphrase_editor_open
    <3>1. view.passphrase_editor_open = passphrase_editor_open
      BY FlowBehindScreens DEF WindowInv
    <3> QED
      BY <1>1, <1>4, <3>1 DEF AddressInv, PageInv, TapPassphraseEditor, passphrase_editor
  <2>2. receive_address_cache.filled /\ address.rows.key.passphrase = passphrase
    <3>1. receive_address_cache.filled /\ receive_address_cache.key = address.rows.key
      BY <2>1 DEF PageShown
    <3>2. receive_address_cache.key = finalized_key
      BY <3>1 DEF WindowInv, CacheMatchesFlow
    <3> QED
      BY <3>1, <3>2 DEF finalized_key
  <2>3. PageShown'
    <3>1. UNCHANGED address
      BY <1>2 DEF addressVars
    <3>2. CASE UNCHANGED <<passphrase, receive_address_cache>>
      BY <2>1, <2>2, <3>1, <3>2, EditorTaps DEF PageShown
    <3>3. CASE passphrase' # passphrase /\ drop_cache /\ ~passphrase_editor_open'
      <4>1. ~receive_address_cache'.filled
        BY <3>3 DEF drop_cache, NoCache
      <4> QED
        BY <2>1, <2>2, <3>1, <3>3, <4>1, EditorTaps DEF PageShown
    <3> QED
      BY <3>2, <3>3, EditorTaps
  <2> QED
    BY <1>1, <1>2, <2>3 DEF AddressInv, TimersInv, AddressFields, PageInv, addressVars
<1> QED
  BY <1>3, <1>4

\* No button was hit, or the window did not take a step.
LEMMA PageUntouched ==
    ASSUME AddressInv, UNCHANGED <<flowVars, current_screen, addressVars, receive_address_cache>>,
           UNCHANGED render \/ (render = "touch" /\ render' = "timers")
    PROVE  AddressInv'
<1>1. UNCHANGED <<language, word_indices, entropy_bits, passphrase, passphrase_editor_open>>
  BY DEF flowVars, languageVars, entropyVars, passphraseVars
<1> QED
  BY <1>1 DEF AddressInv, TimersInv, AddressFields, PageInv, PageShown, addressVars

LEMMA AddressInvariance == UiSpec => []AddressInv
<1>1. UiInit => AddressInv
  <2> SUFFICES ASSUME UiInit PROVE AddressInv
    OBVIOUS
  <2>1. 0 \in Indexes
    BY UiAssumption DEF Indexes
  <2> QED
    BY <2>1 DEF UiInit, InitialAddress, AddressInv, TimersInv, AddressFields, PageInv,
       EntryScreen, AddressScreen
<1>2. WindowInv /\ AddressInv /\ [UiNext]_uiVars => AddressInv'
  <2> SUFFICES ASSUME WindowInv, AddressInv, [UiNext]_uiVars PROVE AddressInv'
    OBVIOUS
  <2>1. CASE \/ TapEntryScreen \/ TapPinyinPicker \/ TapEntropyScreen
             \/ TapEntropyNavigation \/ TapDiePicker \/ TapFinalWordPicker
    <3>1. render = "touch" /\ render' = "timers"
      BY <2>1 DEF TapEntryScreen, TapPinyinPicker, TapEntropyScreen, TapEntropyNavigation,
         TapDiePicker, TapFinalWordPicker, Tapped
    <3>2. LeavesAddresses \/ queue_receive_addresses(0)
      BY <2>1, EntryTapsElsewhere, EntropyTapsElsewhere
    <3>3. 0 \in Indexes
      BY UiAssumption DEF Indexes
    <3> QED
      BY <3>1, <3>2, <3>3, Leaving, Queueing
  <2>2. CASE TapRandom \/ NoTap \/ UNCHANGED uiVars
    BY <2>2, PageUntouched DEF TapRandom, NoTap, Tapped, flow_untouched, stay, uiVars,
       navigationVars, addressVars, taskVars
  <2>3. CASE generate_random_words
    <3>1. LeavesAddresses /\ UNCHANGED render
      BY <2>3 DEF generate_random_words, load_mnemonic_word_indices, go_to, LeavesAddresses,
         EntropyScreen, AddressScreen
    <3> QED
      BY <3>1, Leaving
  <2> QED
    BY <2>1, <2>2, <2>3, AddressTaps, EditorTapsKeepPage, Timers DEF UiNext, RenderTask, Tap
<1> QED
  BY <1>1, <1>2, WindowInvariance, PTL DEF UiSpec

\* The address screen announces a page or shows one of these words.
THEOREM AddressesAreOfTheseWords == UiSpec => []AddressPageIsOfTheseWords
<1>1. AddressInv => AddressPageIsOfTheseWords
  <2> SUFFICES ASSUME PageShown
               PROVE  [address.rows.key EXCEPT !.passphrase = passphrase] = finalized_key
    BY DEF AddressInv, PageInv, PageShown, AddressPageIsOfTheseWords
  <2> QED
    BY DEF PageShown, finalized_key
<1> QED
  BY <1>1, AddressInvariance, PTL

-----------------------------------------------------------------------------
(***************************************************************************)
(* The types of the window                                                 *)
(***************************************************************************)
NavigationTypes ==
    /\ current_screen \in {EntryScreen, EntropyScreen, AddressScreen}
    /\ entropy_entry_mode \in {0, 1}
    /\ entropy_picker \in {0, 1, 2}
    /\ passphrase_keyboard_mode \in {0, 1}

RequestTypes == requests \in 0 .. RequestCapacity

CachePages == receive_address_cache.filled =>
    receive_address_cache.pages \in 1 .. MaxAddressIndex + 1

LEMMA NavigationKeepsTypes ==
    ASSUME NavigationTypes, UiNext
    PROVE  NavigationTypes'
<1>1. CASE stay \/ \E screen \in {EntryScreen, EntropyScreen} : go_to(screen)
  BY <1>1 DEF stay, go_to, navigationVars, NavigationTypes
<1>2. CASE \E start_index : queue_receive_addresses(start_index) /\
               UNCHANGED <<entropy_entry_mode, entropy_picker, passphrase_keyboard_mode>>
  BY <1>2 DEF queue_receive_addresses, NavigationTypes
<1>3. CASE TapEntryScreen \/ TapRandom \/ TapPinyinPicker
  BY <1>1, <1>3 DEF TapEntryScreen, TapRandom, TapPinyinPicker, on_mnemonic_select_language,
     on_mnemonic_key, on_mnemonic_backspace, on_mnemonic_commit,
     on_mnemonic_select_pinyin_candidate, on_mnemonic_change_pinyin_page,
     on_mnemonic_dismiss_pinyin_picker
<1>4. CASE TapEntropyScreen
  <2>1. CASE on_open_passphrase_editor
    BY <2>1 DEF on_open_passphrase_editor, NavigationTypes
  <2> QED
    BY <1>1, <1>2, <1>4, <2>1 DEF TapEntropyScreen, on_entropy_toggle,
       on_open_final_word_picker, on_open_addresses
<1>5. CASE TapEntropyNavigation
  BY <1>5 DEF TapEntropyNavigation, NavigationTypes
<1>6. CASE TapDiePicker
  BY <1>6 DEF TapDiePicker, NavigationTypes
<1>7. CASE TapFinalWordPicker
  BY <1>1, <1>7 DEF TapFinalWordPicker, on_select_final_word_candidate,
     on_final_word_change_page, on_dismiss_final_word_picker
<1>8. CASE TapPassphraseEditor
  <2>1. CASE /\ passphrase_keyboard_mode' = 1 - passphrase_keyboard_mode
             /\ UNCHANGED <<current_screen, entropy_entry_mode, entropy_picker>>
    BY <2>1 DEF NavigationTypes
  <2> QED
    BY <1>1, <1>8, <2>1 DEF TapPassphraseEditor, on_passphrase_key, on_passphrase_backspace,
       on_passphrase_toggle_visibility, on_passphrase_cancel, on_passphrase_save
<1>9. CASE TapAddressScreen
  <2>1. CASE UNCHANGED navigationVars
    BY <2>1 DEF navigationVars, NavigationTypes
  <2> QED
    BY <1>1, <1>2, <1>9, <2>1 DEF TapAddressScreen, on_address_change_page, on_address_back
<1>10. CASE RunTimers \/ NoTap
  BY <1>10 DEF RunTimers, NoTap, stay, navigationVars, NavigationTypes
<1>11. CASE generate_random_words
  BY <1>1, <1>11 DEF generate_random_words, load_mnemonic_word_indices
<1> QED
  BY <1>3, <1>4, <1>5, <1>6, <1>7, <1>8, <1>9, <1>10, <1>11 DEF UiNext, RenderTask, Tap

LEMMA RequestsKeepType ==
    ASSUME RequestTypes, UiNext
    PROVE  RequestTypes'
<1>1. RequestCapacity \in Nat
  BY UiAssumption
<1>2. CASE UNCHANGED requests
  BY <1>2 DEF RequestTypes
<1>3. CASE TapRandom
  BY <1>1, <1>3 DEF TapRandom, RequestTypes
<1>4. CASE generate_random_words
  BY <1>1, <1>4 DEF generate_random_words, RequestTypes
<1> QED
  BY <1>2, <1>3, <1>4 DEF UiNext, RenderTask, Tap, RunTimers, NoTap, TapEntryScreen,
     TapPinyinPicker, TapEntropyScreen, TapEntropyNavigation, TapDiePicker,
     TapFinalWordPicker, TapPassphraseEditor, TapAddressScreen

LEMMA DerivingKeepsPages ==
    ASSUME CachePages, NEW start_index \in Indexes, show_receive_addresses(start_index)
    PROVE  CachePages'
<1>1. MaxAddressIndex \in Nat
  BY UiAssumption
<1>2. start_index \in 0 .. MaxAddressIndex
  BY DEF Indexes
<1>3. CASE CacheFor.filled
  <2> DEFINE derived == IF CacheFor.pages > start_index THEN CacheFor.pages ELSE start_index + 1
  <2>1. CacheFor.pages \in 0 .. MaxAddressIndex + 1
    BY <1>1, <1>3 DEF CacheFor, Cache, CachePages
  <2>2. derived \in 1 .. MaxAddressIndex + 1
    BY <1>1, <1>2, <2>1
  <2>3. start_index <= MaxAddressIndex
    BY <1>1, <1>2
  <2>4. receive_address_cache' = Cache(CacheFor.key, derived)
    BY <1>3, <2>3 DEF show_receive_addresses
  <2> HIDE DEF derived
  <2> QED
    BY <2>2, <2>4 DEF Cache, CachePages
<1>4. CASE ~CacheFor.filled
  BY <1>4 DEF show_receive_addresses, CachePages
<1> QED
  BY <1>3, <1>4

LEMMA CacheKeepsPages ==
    ASSUME CachePages, TimersInv, UiNext
    PROVE  CachePages'
<1>1. CASE drop_cache \/ UNCHANGED receive_address_cache
  BY <1>1 DEF drop_cache, NoCache, CachePages
<1>2. CASE RunTimers
  <2>1. CASE timers = <<>>
    BY <1>1, <1>2, <2>1 DEF RunTimers
  <2>2. CASE timers # <<>>
    <3>1. Head(timers) \in Indexes
      BY <2>2 DEF TimersInv
    <3> QED
      BY <1>1, <1>2, <2>2, <3>1, DerivingKeepsPages DEF RunTimers
  <2> QED
    BY <2>1, <2>2
<1>3. CASE Tap \/ NoTap \/ generate_random_words
  <2>1. CASE TapEntryScreen \/ TapRandom \/ TapPinyinPicker
    BY <1>1, <2>1 DEF TapEntryScreen, TapRandom, TapPinyinPicker, on_mnemonic_select_language,
       on_mnemonic_key, on_mnemonic_backspace, on_mnemonic_commit, on_mnemonic_reset,
       on_mnemonic_select_pinyin_candidate, on_mnemonic_change_pinyin_page,
       on_mnemonic_dismiss_pinyin_picker, keep_cache, flow_untouched
  <2>2. CASE TapEntropyScreen \/ TapEntropyNavigation \/ TapDiePicker
    BY <1>1, <2>2 DEF TapEntropyScreen, TapEntropyNavigation, TapDiePicker,
       on_entropy_toggle, on_open_final_word_picker, on_open_passphrase_editor,
       on_open_addresses, on_mnemonic_reset, on_entropy_select_die, keep_cache,
       flow_untouched
  <2>3. CASE TapFinalWordPicker \/ TapPassphraseEditor
    BY <1>1, <2>3 DEF TapFinalWordPicker, TapPassphraseEditor,
       on_select_final_word_candidate, on_final_word_change_page,
       on_dismiss_final_word_picker, on_passphrase_key, on_passphrase_backspace,
       on_passphrase_toggle_visibility, on_passphrase_cancel, on_passphrase_save,
       keep_cache, flow_untouched
  <2>4. CASE TapAddressScreen \/ NoTap \/ generate_random_words
    BY <1>1, <2>4 DEF TapAddressScreen, NoTap, generate_random_words,
       on_address_change_page, on_address_back, load_mnemonic_word_indices, flow_untouched
  <2> QED
    BY <1>3, <2>1, <2>2, <2>3, <2>4 DEF Tap
<1> QED
  BY <1>2, <1>3 DEF UiNext, RenderTask

LEMMA WindowTypes == UiSpec => [](NavigationTypes /\ RequestTypes /\ CachePages)
<1>1. UiInit => NavigationTypes /\ RequestTypes /\ CachePages
  BY UiAssumption DEF UiInit, NavigationTypes, RequestTypes, CachePages, NoCache
<1>2. /\ NavigationTypes /\ RequestTypes /\ CachePages
      /\ AddressInv /\ [UiNext]_uiVars
      => (NavigationTypes /\ RequestTypes /\ CachePages)'
  <2>1. CASE UNCHANGED uiVars
    BY <2>1 DEF uiVars, navigationVars, taskVars, NavigationTypes, RequestTypes, CachePages
  <2> QED
    BY <2>1, NavigationKeepsTypes, RequestsKeepType, CacheKeepsPages DEF AddressInv
<1> QED
  BY <1>1, <1>2, AddressInvariance, PTL DEF UiSpec

\* The window's type invariant: screens, overlays and queues keep to their
\* types, and a cache is of a complete mnemonic and holds a page that exists.
THEOREM UiTypeCorrect == UiSpec => []UiTypeOK
<1>1. /\ WindowInv /\ AddressInv /\ NavigationTypes /\ RequestTypes /\ CachePages
      => UiTypeOK
  <2> SUFFICES ASSUME WindowInv, AddressInv, NavigationTypes, RequestTypes, CachePages
               PROVE  UiTypeOK
    OBVIOUS
  <2>1. TypeOK
    BY DEF WindowInv, IInv, EntryInv, EntropyInv, PassphraseInv, TypeOK
  <2>2. receive_address_cache.filled => receive_address_cache.key \in Keys
    <3> SUFFICES ASSUME receive_address_cache.filled PROVE finalized_key \in Keys
      BY DEF WindowInv, CacheMatchesFlow
    <3>1. is_complete
      BY DEF WindowInv, CacheMatchesFlow, has_finalized_entropy
    <3>2. word_indices \in [1 .. PrefixWordCount -> WordIndices]
      <4>1. word_indices \in Seq(WordIndices) /\ Len(word_indices) = PrefixWordCount
        BY <2>1, <3>1 DEF TypeOK, EntryTypes, is_complete
      <4> QED
        BY <4>1
    <3>3. /\ language \in Languages
          /\ entropy_bits \in EntropyValues
          /\ passphrase \in Seq(PassphraseKeys)
      BY <2>1 DEF TypeOK, EntryTypes, EntropyTypes, PassphraseTypes
    <3> QED
      BY <3>2, <3>3 DEF finalized_key, Keys
  <2>3. timers \in Seq(0 .. MaxAddressIndex)
    <3>1. CASE timers = <<>>
      BY <3>1
    <3>2. CASE timers # <<>>
      <4>1. PICK start_index \in 0 .. MaxAddressIndex : timers = <<start_index>>
        BY <3>2 DEF AddressInv, TimersInv, Indexes
      <4> QED
        BY <4>1
    <3> QED
      BY <3>1, <3>2
  <2>4. address.start_index \in 0 .. MaxAddressIndex /\ render \in {"timers", "touch"}
    BY DEF AddressInv, TimersInv, AddressFields, Indexes
  <2> QED
    BY <2>1, <2>2, <2>3, <2>4 DEF UiTypeOK, NavigationTypes, RequestTypes, CachePages
<1> QED
  BY <1>1, WindowInvariance, AddressInvariance, WindowTypes, PTL

-----------------------------------------------------------------------------
(***************************************************************************)
(* The address screen is an AddressBrowser                                 *)
(***************************************************************************)
Browsing ==
    IF current_screen # AddressScreen THEN "hidden"
    ELSE IF address.loading THEN "loading"
    ELSE IF address.rows.kind = "page" THEN "shown" ELSE "unavailable"

Index == IF current_screen = AddressScreen THEN address.start_index ELSE 0

BrowserStep == [Browser!Next]_<<Browsing, Index>>

\* To the screen or another page.
LEMMA Announcing ==
    ASSUME AddressInv, NEW start_index \in Indexes, queue_receive_addresses(start_index)
    PROVE  Browsing' = "loading" /\ Index' = start_index
BY DEF queue_receive_addresses, show_address_loading, Browsing, Index

\* Another screen: the browser is closed, or was.
LEMMA LeavingHides ==
    ASSUME LeavesAddresses
    PROVE  BrowserStep
<1>1. Browsing' = "hidden" /\ Index' = 0
  BY DEF LeavesAddresses, Browsing, Index
<1>2. CASE Browsing = "hidden"
  BY <1>1, <1>2 DEF Browsing, Index, BrowserStep
<1>3. CASE Browsing # "hidden"
  BY <1>1, <1>3 DEF Browsing, Index, BrowserStep, Browser!Next, Browser!Leave
<1> QED
  BY <1>2, <1>3

\* The Address button opens the browser at the first page.
LEMMA OpeningBrowses ==
    ASSUME WindowInv, AddressInv, TapEntropyScreen, queue_receive_addresses(0)
    PROVE  BrowserStep
<1>1. current_screen # AddressScreen
  BY OverlaysElsewhere DEF TapEntropyScreen, EntropyScreen, AddressScreen
<1>2. Browsing = "hidden"
  BY <1>1 DEF Browsing
<1>3. Browsing' = "loading" /\ Index' = 0
  BY Announcing, UiAssumption DEF Indexes
<1> QED
  BY <1>2, <1>3 DEF Browsing, Index, BrowserStep, Browser!Next, Browser!Open

\* A neighbouring page is announced.
LEMMA PagingTurns ==
    ASSUME PageShown, AddressInv, current_screen = AddressScreen,
           NEW start_index \in Indexes, queue_receive_addresses(start_index),
           start_index \in {address.start_index - 1, address.start_index + 1}
    PROVE  BrowserStep
<1>1. Browsing = "shown" /\ Index = address.start_index
  BY DEF PageShown, Browsing, Index
<1>2. Browsing' = "loading" /\ Index' = start_index
  BY Announcing
<1> QED
  BY <1>1, <1>2 DEF Browsing, Index, Indexes, BrowserStep, Browser!Next, Browser!Turn

\* The closure in the queue is the announced page's, and shows it.
LEMMA TimersShow ==
    ASSUME WindowInv, AddressInv, RunTimers
    PROVE  BrowserStep
<1>1. UNCHANGED <<flowVars, current_screen>>
  BY DEF RunTimers, navigationVars
<1>2. CASE current_screen = AddressScreen /\ address.loading
  <2>1. timers = <<address.start_index>>
    BY <1>2 DEF AddressInv, PageInv, PageShown
  <2>2. show_receive_addresses(address.start_index)
    BY <1>2, <2>1 DEF RunTimers, timer_is_current
  <2>3. PageShown' /\ UNCHANGED address.start_index
    BY <1>1, <1>2, <2>2, Showing DEF AddressInv
  <2>4. Browsing = "loading" /\ Browsing' = "shown" /\ UNCHANGED Index
    BY <1>1, <1>2, <2>3 DEF PageShown, Browsing, Index
  <2> QED
    BY <2>4 DEF Browsing, Index, BrowserStep, Browser!Next, Browser!Show
<1>3. CASE ~(current_screen = AddressScreen /\ address.loading)
  <2>1. UNCHANGED address
    BY <1>3 DEF RunTimers, timer_is_current, addressVars
  <2> QED
    BY <1>1, <2>1 DEF Browsing, Index, BrowserStep
<1> QED
  BY <1>2, <1>3

\* The buttons of the address screen turn, leave or switch the view.
LEMMA AddressTapsBrowse ==
    ASSUME WindowInv, AddressInv, TapAddressScreen
    PROVE  BrowserStep
<1>1. current_screen = AddressScreen /\ timers = <<>>
  BY DEF TapAddressScreen, Tapped, address_screen, AddressInv, TimersInv
<1>2. PageShown /\ address.start_index \in Indexes /\ MaxAddressIndex \in Nat
  BY <1>1, UiAssumption DEF AddressInv, PageInv, AddressFields
<1>3. CASE address.has_previous_page /\ on_address_change_page(-1)
  <2>1. address.start_index > 0
    BY <1>2, <1>3 DEF PageShown
  <2>2. address.start_index - 1 \in Indexes /\ address.start_index # 0
    BY <1>2, <2>1 DEF Indexes
  <2>3. queue_receive_addresses(address.start_index - 1)
    BY <1>3, <2>2 DEF on_address_change_page
  <2> QED
    BY <1>1, <1>2, <2>2, <2>3, PagingTurns
<1>4. CASE address.has_next_page /\ on_address_change_page(1)
  <2>1. address.start_index < MaxAddressIndex
    BY <1>2, <1>4 DEF PageShown
  <2>2. address.start_index + 1 \in Indexes
    BY <1>2, <2>1 DEF Indexes
  <2>3. queue_receive_addresses(address.start_index + 1)
    BY <1>4 DEF on_address_change_page
  <2> QED
    BY <1>1, <1>2, <2>2, <2>3, PagingTurns
<1>5. CASE on_address_back
  <2>1. LeavesAddresses
    BY <1>5 DEF on_address_back, go_to, LeavesAddresses, EntropyScreen, AddressScreen
  <2> QED
    BY <2>1, LeavingHides
<1>6. ASSUME NEW shown \in {0, 1}, address' = [address EXCEPT !.view = shown],
             UNCHANGED <<navigationVars, timers>>
      PROVE  BrowserStep
  <2>1. UNCHANGED <<address.rows, address.start_index, address.loading, current_screen>>
    BY <1>6 DEF AddressInv, AddressFields, navigationVars
  <2> QED
    BY <2>1 DEF Browsing, Index, BrowserStep
<1> QED
  BY <1>3, <1>4, <1>5, <1>6 DEF TapAddressScreen

\* Every step of the window, and of the controller behind it, is a step of the
\* abstract browser: it opens at 0, shows what it announced, and turns by one.
THEOREM WindowBrowses == UiSpec => Browser!Init /\ [][Browser!Next]_(Browser!browserVars)
<1>1. UiInit => Browser!Init
  BY DEF UiInit, Browser!Init, EntryScreen, AddressScreen
<1>2. WindowInv /\ AddressInv /\ [UiNext]_uiVars => [Browser!Next]_(Browser!browserVars)
  <2> SUFFICES ASSUME WindowInv, AddressInv, [UiNext]_uiVars PROVE BrowserStep
    BY DEF BrowserStep, Browsing, Index, Browser!browserVars
  <2>1. CASE UNCHANGED <<current_screen, address>>
    BY <2>1 DEF BrowserStep, Browsing, Index
  <2>2. CASE TapRandom \/ NoTap \/ TapPassphraseEditor \/ UNCHANGED uiVars
    BY <2>1, <2>2 DEF TapRandom, NoTap, TapPassphraseEditor, on_passphrase_key,
       on_passphrase_backspace, on_passphrase_toggle_visibility, on_passphrase_cancel,
       on_passphrase_save, stay, uiVars, navigationVars, addressVars
  <2>3. CASE \/ TapEntryScreen \/ TapPinyinPicker \/ TapEntropyScreen
             \/ TapEntropyNavigation \/ TapDiePicker \/ TapFinalWordPicker
    BY <2>3, EntryTapsElsewhere, EntropyTapsElsewhere, LeavingHides, OpeningBrowses
  <2>4. CASE generate_random_words
    <3>1. LeavesAddresses
      BY <2>4 DEF generate_random_words, load_mnemonic_word_indices, go_to, LeavesAddresses,
         EntropyScreen, AddressScreen
    <3> QED
      BY <3>1, LeavingHides
  <2> QED
    BY <2>2, <2>3, <2>4, TimersShow, AddressTapsBrowse DEF UiNext, RenderTask, Tap
<1> QED
  BY <1>1, <1>2, WindowInvariance, AddressInvariance, PTL DEF UiSpec
=============================================================================
