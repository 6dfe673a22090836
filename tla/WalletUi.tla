------------------------------ MODULE WalletUi ------------------------------
(***************************************************************************)
(* The wallet window: LastWordFlow behind its touch screen                 *)
(* (bitcoin-ui/src/mnemonic_view.rs, address_list.rs, wallet_ui.rs and     *)
(* ui/app-window.slint), the render task that delivers timers and taps     *)
(* (app/src/render_task.rs) and the controller that answers requests for   *)
(* random words (app/src/controller.rs).                                   *)
(*                                                                         *)
(* Everything runs on one cooperative executor.  A handler is one step;    *)
(* the render task goes round timers -> at most one tap -> sleep, and the  *)
(* controller may run wherever the render task awaits.  A tap needs its    *)
(* button on the screen as it was last synchronised (view) and reachable   *)
(* for a finger: rectangles do not stop a touch in Slint, so a button of a *)
(* covered screen works wherever no button lies over it.                   *)
(***************************************************************************)
EXTENDS LastWordFlow

CONSTANTS
    MaxAddressIndex,       \* MAX_BIP32_DERIVATION_INDEX, 2^31 - 1
    RequestCapacity,       \* slots of RANDOM_WORD_REQUEST, 2
    SymbolKeys,            \* keys of the passphrase keyboard's symbol page
    UncoveredLetters       \* letter keys the symbol page leaves open, Z and M

ASSUME UiAssumption ==
    /\ MaxAddressIndex \in Nat
    /\ RequestCapacity \in Nat \ {0}
    /\ SymbolKeys \subseteq PassphraseKeys
    /\ UncoveredLetters \subseteq Letters

VARIABLES
    view,                       \* the window's properties set by sync_mnemonic_view
    current_screen,             \* 0 entry, 1 entropy, 2 addresses
    entropy_entry_mode,         \* 0 bits, 1 dice
    entropy_picker,             \* 0 closed, 1 D8, 2 D16
    passphrase_keyboard_mode,   \* 0 letters, 1 symbols
    address,                    \* the window's address properties
    receive_address_cache,
    timers,                     \* start indices of the single-shot closures
    requests,                   \* messages in RANDOM_WORD_REQUEST
    render                      \* where the render task is: "timers" or "touch"

navigationVars ==
    <<current_screen, entropy_entry_mode, entropy_picker, passphrase_keyboard_mode>>
addressVars == <<address, timers>>
taskVars == <<requests, render>>
uiVars == <<flowVars, view, navigationVars, addressVars, receive_address_cache, taskVars>>

EntryScreen == 0
EntropyScreen == 1
AddressScreen == 2

-----------------------------------------------------------------------------
(***************************************************************************)
(* sync_mnemonic_view: the facts of the flow that the window shows or that *)
(* enable its buttons.                                                     *)
(***************************************************************************)
View ==
    [language |-> language,
     language_selection_visible |-> ~language_selected,
     prefix |-> prefix,
     entry_word |-> IF prefix = <<>> THEN NoIndex ELSE selected_word_index,
     letter_rejected |-> last_letter_was_rejected,
     feedback |-> commit_feedback,
     confirmed_words |-> word_indices,
     can_commit |-> can_commit_or_choose,
     next_letters |-> next_letter_enabled,
     pinyin_picker_open |-> pinyin_candidate_picker_open,
     pinyin_candidates |-> pinyin_candidate_labels,
     pinyin_has_previous_page |-> pinyin_candidate_page > 0,
     pinyin_has_next_page |-> pinyin_candidate_page + 1 < pinyin_candidate_page_count,
     final_word_picker_open |-> final_word_picker_open,
     final_word_candidates |-> final_word_candidate_labels,
     final_word_has_previous_page |-> final_word_candidate_page > 0,
     final_word_has_next_page |->
        final_word_candidate_page + 1 < final_word_candidate_page_count,
     entropy_bits |-> entropy_bits,
     candidate_word |-> IF entropy_confirmed THEN entropy_bits ELSE NoIndex,
     entropy_confirmed |-> entropy_confirmed,
     passphrase_editor_open |-> passphrase_editor_open,
     passphrase_visible |-> passphrase_visible,
     passphrase_shown |-> IF passphrase_visible THEN passphrase_draft ELSE <<>>,
     passphrase_stars |-> IF passphrase_visible THEN 0 ELSE Len(passphrase_draft),
     passphrase_set |-> passphrase # <<>>]

sync_mnemonic_view == view' = View'

(***************************************************************************)
(* Receive addresses.  The mnemonic and its passphrase determine every     *)
(* address, so the cache is the pair of them with the number of pages      *)
(* derived so far, and a page is the pair with its index.                  *)
(***************************************************************************)
finalized_key ==
    [language |-> language, words |-> word_indices, bits |-> entropy_bits,
     passphrase |-> passphrase]

NoCache == [filled |-> FALSE]
Cache(key, pages) == [filled |-> TRUE, key |-> key, pages |-> pages]

NoPage == [kind |-> "none"]
LoadingPage == [kind |-> "loading"]
UnavailablePage == [kind |-> "unavailable"]
Page(key, index) == [kind |-> "page", key |-> key, index |-> index]

\* finalized_entropy needs every word and confirmed bits
has_finalized_entropy == is_complete /\ entropy_confirmed

\* from_flow, unless the cache is there already
CacheFor ==
    IF ~receive_address_cache.filled /\ has_finalized_entropy
    THEN Cache(finalized_key, 0)
    ELSE receive_address_cache

show_address_loading(start_index) ==
    address' = [rows |-> LoadingPage, descriptor |-> FALSE, view |-> 0,
                start_index |-> start_index, loading |-> TRUE,
                has_previous_page |-> FALSE, has_next_page |-> FALSE]

\* Fault: a page past the last one.
ShownPage_past_the_end(cache, start_index) ==
    [rows |-> Page(cache.key, start_index), descriptor |-> TRUE, view |-> 0,
     start_index |-> start_index, loading |-> FALSE,
     has_previous_page |-> start_index >= 1,
     has_next_page |-> start_index <= MaxAddressIndex]

ShownPage(cache, start_index) ==
    [rows |-> Page(cache.key, start_index), descriptor |-> TRUE, view |-> 0,
     start_index |-> start_index, loading |-> FALSE,
     has_previous_page |-> start_index >= 1,
     has_next_page |-> start_index <= MaxAddressIndex - 1]

Unavailable ==
    [rows |-> UnavailablePage, descriptor |-> FALSE, view |-> 0, start_index |-> 0,
     loading |-> FALSE, has_previous_page |-> FALSE, has_next_page |-> FALSE]

\* Pages are derived in order, up to the one asked for.
show_receive_addresses(start_index) ==
    LET cache == CacheFor
        derived == IF cache.pages > start_index THEN cache.pages ELSE start_index + 1
    IN IF cache.filled /\ start_index <= MaxAddressIndex
       THEN /\ receive_address_cache' = Cache(cache.key, derived)
            /\ address' = ShownPage(cache, start_index)
       ELSE /\ receive_address_cache' = cache
            /\ address' = Unavailable

queue_receive_addresses(start_index) ==
    /\ show_address_loading(start_index)
    /\ current_screen' = AddressScreen
    /\ timers' = Append(timers, start_index)

drop_cache == receive_address_cache' = NoCache
keep_cache == UNCHANGED receive_address_cache

InitialAddress ==
    [rows |-> NoPage, descriptor |-> FALSE, view |-> 0, start_index |-> 0,
     loading |-> FALSE, has_previous_page |-> FALSE, has_next_page |-> FALSE]

UiInit ==
    /\ Init
    /\ view = View
    /\ current_screen = EntryScreen
    /\ entropy_entry_mode = 0
    /\ entropy_picker = 0
    /\ passphrase_keyboard_mode = 0
    /\ address = InitialAddress
    /\ receive_address_cache = NoCache
    /\ timers = <<>>
    /\ requests = 0
    /\ render = "timers"
-----------------------------------------------------------------------------
(***************************************************************************)
(* The callbacks of mnemonic_view.rs and load_mnemonic_word_indices        *)
(***************************************************************************)
stay == UNCHANGED <<navigationVars, addressVars>>

go_to(screen) ==
    /\ current_screen' = screen
    /\ UNCHANGED <<entropy_entry_mode, entropy_picker, passphrase_keyboard_mode,
                   addressVars>>

on_mnemonic_key(key) ==
    push_letter(key) /\ drop_cache /\ sync_mnemonic_view /\ stay

on_mnemonic_select_language(new_language) ==
    select_language(new_language) /\ drop_cache /\ sync_mnemonic_view /\ stay

on_mnemonic_backspace == backspace /\ drop_cache /\ sync_mnemonic_view /\ stay

\* A choice of several pinyin words opens the picker instead of committing.
on_mnemonic_commit ==
    /\ \/ is_complete /\ UNCHANGED flowVars
       \/ ~is_complete /\ can_open_pinyin_candidate_picker /\ open_pinyin_candidate_picker
       \/ ~is_complete /\ ~can_open_pinyin_candidate_picker /\ commit_word
    /\ drop_cache
    /\ sync_mnemonic_view
    /\ IF is_complete' THEN go_to(EntropyScreen) ELSE stay

on_mnemonic_reset == reset /\ drop_cache /\ sync_mnemonic_view

on_open_passphrase_editor ==
    /\ open_passphrase_editor
    /\ passphrase_keyboard_mode' = 0
    /\ keep_cache
    /\ sync_mnemonic_view
    /\ UNCHANGED <<current_screen, entropy_entry_mode, entropy_picker, addressVars>>

on_passphrase_key(key) ==
    append_passphrase_key(key) /\ keep_cache /\ sync_mnemonic_view /\ stay

on_passphrase_backspace ==
    backspace_passphrase /\ keep_cache /\ sync_mnemonic_view /\ stay

on_passphrase_toggle_visibility ==
    toggle_passphrase_visibility /\ keep_cache /\ sync_mnemonic_view /\ stay

on_passphrase_cancel ==
    cancel_passphrase_editor /\ keep_cache /\ sync_mnemonic_view /\ stay

\* Fault: the addresses of the old passphrase stay in the cache.
on_passphrase_save_keeping_cache ==
    save_passphrase /\ keep_cache /\ sync_mnemonic_view /\ stay

on_passphrase_save ==
    /\ save_passphrase
    /\ IF passphrase_changes THEN drop_cache ELSE keep_cache
    /\ sync_mnemonic_view
    /\ stay

on_mnemonic_select_pinyin_candidate(offset) ==
    /\ select_pinyin_candidate(offset)
    /\ drop_cache
    /\ sync_mnemonic_view
    /\ IF pinyin_candidate_at(offset) # NoIndex /\ is_complete'
       THEN go_to(EntropyScreen)
       ELSE stay

\* Fault: the labels of the old page stay on the buttons.
on_mnemonic_change_pinyin_page_without_sync(direction) ==
    change_pinyin_candidate_page(direction) /\ keep_cache /\ UNCHANGED view /\ stay

on_mnemonic_change_pinyin_page(direction) ==
    change_pinyin_candidate_page(direction) /\ keep_cache /\ sync_mnemonic_view /\ stay

\* Fault: the picker stays on the screen.
on_mnemonic_dismiss_pinyin_picker_without_sync ==
    close_pinyin_candidate_picker /\ keep_cache /\ UNCHANGED view /\ stay

on_mnemonic_dismiss_pinyin_picker ==
    close_pinyin_candidate_picker /\ keep_cache /\ sync_mnemonic_view /\ stay

on_open_final_word_picker ==
    open_final_word_picker /\ keep_cache /\ sync_mnemonic_view /\ stay

on_final_word_change_page(direction) ==
    change_final_word_candidate_page(direction) /\ keep_cache /\ sync_mnemonic_view /\ stay

on_select_final_word_candidate(offset) ==
    /\ select_final_word_candidate(offset)
    /\ drop_cache
    /\ sync_mnemonic_view
    /\ IF selectable_final_word(offset) THEN go_to(EntropyScreen) ELSE stay

on_dismiss_final_word_picker ==
    close_final_word_picker /\ keep_cache /\ sync_mnemonic_view /\ stay

\* Fault: the addresses of the old final word stay in the cache.
on_entropy_toggle_keeping_cache(bit) ==
    toggle_entropy_bit(bit) /\ keep_cache /\ sync_mnemonic_view /\ stay

on_entropy_toggle(bit) ==
    toggle_entropy_bit(bit) /\ drop_cache /\ sync_mnemonic_view /\ stay

on_entropy_select_die(die, face) ==
    set_entropy_die_face(die, face) /\ drop_cache /\ sync_mnemonic_view

flow_untouched == UNCHANGED <<flowVars, view, receive_address_cache>>

on_open_addresses ==
    /\ flow_untouched
    /\ IF entropy_confirmed
       THEN /\ queue_receive_addresses(0)
            /\ UNCHANGED <<entropy_entry_mode, entropy_picker, passphrase_keyboard_mode>>
       ELSE stay

\* saturating, and only as far as the buttons are enabled
on_address_change_page(direction) ==
    /\ flow_untouched
    /\ queue_receive_addresses(
          CASE direction < 0 -> IF address.start_index = 0 THEN 0
                                ELSE address.start_index - 1
            [] direction > 0 -> address.start_index + 1
            [] direction = 0 -> address.start_index)
    /\ UNCHANGED <<entropy_entry_mode, entropy_picker, passphrase_keyboard_mode>>

on_address_back == flow_untouched /\ go_to(EntropyScreen)

\* Faults: the screen is forgotten; the words are written past the flow.
load_mnemonic_word_indices_staying(indices) ==
    load_word_indices(indices) /\ drop_cache /\ sync_mnemonic_view /\ stay

load_mnemonic_word_indices_past_the_flow(indices) ==
    /\ word_indices' = indices
    /\ UNCHANGED <<languageVars, entryVars, pinyinVars, entropyVars, finalPickerVars,
                   passphraseVars>>
    /\ drop_cache
    /\ sync_mnemonic_view
    /\ go_to(EntropyScreen)

\* The flow refuses bad indices, and the code then returns before it shows a
\* screen.  Its one caller, the controller, passes masked random numbers, all
\* of which are indices of the list, so that return is never taken.
load_mnemonic_word_indices(indices) ==
    /\ load_word_indices(indices)
    /\ drop_cache
    /\ sync_mnemonic_view
    /\ go_to(EntropyScreen)

-----------------------------------------------------------------------------
(***************************************************************************)
(* Where a finger finds a button (app-window.slint).  The die picker lays  *)
(* a touch area over everything.  The passphrase editor covers the screen  *)
(* it was opened on with rectangles and keys only: what its keys leave     *)
(* open stays live, and its own keys stay live below the address screen.   *)
(***************************************************************************)
Tapped ==
    /\ render = "touch"
    /\ render' = "timers"

reachable == entropy_picker = 0
editor_covers == view.passphrase_editor_open
symbol_page == passphrase_keyboard_mode = 1

entry_screen == reachable /\ current_screen = EntryScreen /\ ~view.pinyin_picker_open
entropy_screen == reachable /\ current_screen = EntropyScreen /\ ~view.final_word_picker_open
address_screen == reachable /\ current_screen = AddressScreen
pinyin_picker == reachable /\ view.pinyin_picker_open
final_word_picker == reachable /\ view.final_word_picker_open
passphrase_editor == reachable /\ view.passphrase_editor_open

TapEntryScreen ==
    /\ Tapped /\ entry_screen /\ UNCHANGED requests
    /\ \/ \E new_language \in Languages :
             view.language_selection_visible /\ on_mnemonic_select_language(new_language)
       \/ \E key \in view.next_letters :
             /\ editor_covers => symbol_page /\ key \in UncoveredLetters
             /\ on_mnemonic_key(key)
       \/ on_mnemonic_backspace
       \/ on_mnemonic_commit
       \/ on_mnemonic_reset /\ stay

\* Random 11
TapRandom ==
    /\ Tapped /\ entry_screen
    /\ requests' = IF requests < RequestCapacity THEN requests + 1 ELSE requests
    /\ flow_untouched /\ stay

TapPinyinPicker ==
    /\ Tapped /\ pinyin_picker /\ UNCHANGED requests
    /\ \/ \E offset \in 0 .. PinyinPerPage - 1 :
             /\ view.pinyin_candidates[offset] # NoIndex
             /\ on_mnemonic_select_pinyin_candidate(offset)
       \/ view.pinyin_has_previous_page /\ on_mnemonic_change_pinyin_page(-1)
       \/ view.pinyin_has_next_page /\ on_mnemonic_change_pinyin_page(1)
       \/ on_mnemonic_dismiss_pinyin_picker

\* With the editor on top only the first and the last bit stay open.
TapEntropyScreen ==
    /\ Tapped /\ entropy_screen /\ UNCHANGED requests
    /\ \/ \E bit \in 0 .. EntropyBitCount - 1 :
             /\ entropy_entry_mode = 0
             /\ editor_covers => bit \in {0, EntropyBitCount - 1}
             /\ on_entropy_toggle(bit)
       \/ ~editor_covers /\ on_open_final_word_picker
       \/ ~editor_covers /\ on_open_passphrase_editor
       \/ /\ view.entropy_confirmed
          /\ editor_covers => symbol_page
          /\ on_open_addresses
       \/ on_mnemonic_reset /\ go_to(EntryScreen)

\* Bits, Dice, Edit and the two die cards change the window alone.
TapEntropyNavigation ==
    /\ Tapped /\ entropy_screen /\ UNCHANGED requests /\ flow_untouched
    /\ UNCHANGED <<passphrase_keyboard_mode, addressVars>>
    /\ \/ /\ entropy_entry_mode' \in {0, 1}
          /\ entropy_picker' = 0
          /\ UNCHANGED current_screen
       \/ /\ current_screen' = EntryScreen
          /\ UNCHANGED <<entropy_entry_mode, entropy_picker>>
       \/ /\ entropy_entry_mode = 1
          /\ entropy_picker' \in {1, 2}
          /\ UNCHANGED <<current_screen, entropy_entry_mode>>

TapDiePicker ==
    /\ Tapped /\ entropy_picker # 0 /\ UNCHANGED requests
    /\ entropy_picker' = 0
    /\ UNCHANGED <<current_screen, entropy_entry_mode, passphrase_keyboard_mode,
                   addressVars>>
    /\ \/ \E face \in 1 .. OctalFaces :
             entropy_picker = 1 /\ on_entropy_select_die(0, face)
       \/ \E face \in 1 .. HexFaces :
             entropy_picker = 2 /\ on_entropy_select_die(1, face)
       \/ flow_untouched

TapFinalWordPicker ==
    /\ Tapped /\ final_word_picker /\ UNCHANGED requests
    /\ \/ \E offset \in 0 .. FinalWordsPerPage - 1 :
             /\ view.final_word_candidates[offset] # NoIndex
             /\ on_select_final_word_candidate(offset)
       \/ view.final_word_has_previous_page /\ on_final_word_change_page(-1)
       \/ view.final_word_has_next_page /\ on_final_word_change_page(1)
       \/ on_dismiss_final_word_picker

TapPassphraseEditor ==
    /\ Tapped /\ passphrase_editor /\ UNCHANGED requests
    /\ \/ \E key \in IF symbol_page THEN SymbolKeys ELSE PassphraseKeys \ SymbolKeys :
             on_passphrase_key(key)
       \/ on_passphrase_backspace
       \/ on_passphrase_toggle_visibility
       \/ on_passphrase_cancel
       \/ on_passphrase_save
       \/ /\ passphrase_keyboard_mode' = 1 - passphrase_keyboard_mode
          /\ flow_untouched
          /\ UNCHANGED <<current_screen, entropy_entry_mode, entropy_picker, addressVars>>

TapAddressScreen ==
    /\ Tapped /\ address_screen /\ UNCHANGED requests
    /\ \/ /\ address.view = 0 /\ ~address.loading /\ address.has_previous_page
          /\ on_address_change_page(-1)
       \/ /\ address.view = 0 /\ ~address.loading /\ address.has_next_page
          /\ on_address_change_page(1)
       \/ on_address_back
       \/ /\ \E shown \in {0, 1} :
                /\ shown = 1 => ~address.loading /\ address.descriptor
                /\ address' = [address EXCEPT !.view = shown]
          /\ flow_untouched
          /\ UNCHANGED <<navigationVars, timers>>

-----------------------------------------------------------------------------
(***************************************************************************)
(* The tasks                                                               *)
(***************************************************************************)
\* Fault: the closure expects its page to be there already.
timer_is_current_when_shown(start_index) ==
    /\ current_screen = AddressScreen
    /\ ~address.loading
    /\ address.start_index = start_index

\* The closure checks that its page is still the one being waited for.
timer_is_current(start_index) ==
    /\ current_screen = AddressScreen
    /\ address.loading
    /\ address.start_index = start_index

\* update_timers_and_animations runs every closure that is due.
RunTimers ==
    /\ render = "timers"
    /\ render' = IF Len(timers) > 1 THEN "timers" ELSE "touch"
    /\ UNCHANGED <<flowVars, view, navigationVars, requests>>
    /\ \/ timers = <<>> /\ UNCHANGED <<addressVars, receive_address_cache>>
       \/ /\ timers # <<>>
          /\ timers' = Tail(timers)
          /\ IF timer_is_current(Head(timers))
             THEN show_receive_addresses(Head(timers))
             ELSE UNCHANGED <<address, receive_address_cache>>

\* No finger, a press without a release yet, or a tap beside every button.
NoTap ==
    /\ Tapped
    /\ flow_untouched /\ stay
    /\ UNCHANGED requests

\* main keeps the TRNG's source alive, and eleven bits name a word.
generate_random_words ==
    /\ requests > 0
    /\ requests' = requests - 1
    /\ \E indices \in [1 .. PrefixWordCount -> WordIndices] :
          load_mnemonic_word_indices(indices)
    /\ UNCHANGED render

Tap ==
    \/ TapEntryScreen
    \/ TapRandom
    \/ TapPinyinPicker
    \/ TapEntropyScreen
    \/ TapEntropyNavigation
    \/ TapDiePicker
    \/ TapFinalWordPicker
    \/ TapPassphraseEditor
    \/ TapAddressScreen

RenderTask == RunTimers \/ NoTap \/ Tap

UiNext == RenderTask \/ generate_random_words

\* The executor polls every task that is ready: the render task is woken
\* every 20 ms, and the controller by the message itself.
UiSpec ==
    /\ UiInit
    /\ [][UiNext]_uiVars
    /\ WF_uiVars(RenderTask)
    /\ WF_uiVars(generate_random_words)
-----------------------------------------------------------------------------
(***************************************************************************)
(* Properties                                                              *)
(***************************************************************************)
Keys ==
    [language : Languages, words : [1 .. PrefixWordCount -> WordIndices],
     bits : EntropyValues, passphrase : Seq(PassphraseKeys)]

\* The window's own properties, the cache, the queue and the timers hold
\* values their types allow, and the flow keeps to its own.
UiTypeOK ==
    /\ TypeOK
    /\ current_screen \in {EntryScreen, EntropyScreen, AddressScreen}
    /\ entropy_entry_mode \in {0, 1}
    /\ entropy_picker \in {0, 1, 2}
    /\ passphrase_keyboard_mode \in {0, 1}
    /\ address.start_index \in 0 .. MaxAddressIndex
    /\ receive_address_cache.filled =>
          /\ receive_address_cache.key \in Keys
          /\ receive_address_cache.pages \in 1 .. MaxAddressIndex + 1
    /\ timers \in Seq(0 .. MaxAddressIndex)
    /\ requests \in 0 .. RequestCapacity
    /\ render \in {"timers", "touch"}

\* The window shows the flow: no operation, of a tap or of the controller,
\* leaves the buttons of an earlier state behind.
ViewIsCurrent == view = View

\* Whatever is cached was derived from the words, bits and passphrase that
\* are in the flow now.
CacheMatchesFlow ==
    receive_address_cache.filled =>
        has_finalized_entropy /\ receive_address_cache.key = finalized_key

\* Neither the entropy screen nor the address screen is ever on display while
\* words are missing.
LaterScreensNeedWords == current_screen # EntryScreen => is_complete

\* No overlay survives the screen it belongs to: dice and final words are
\* picked on the entropy screen, pinyin words on the entry screen, and the
\* final-word picker never meets the passphrase editor.
OverlaysBelongToScreens ==
    /\ entropy_picker # 0 => current_screen = EntropyScreen /\ entropy_entry_mode = 1
    /\ final_word_picker_open => /\ current_screen = EntropyScreen
                                 /\ ~passphrase_editor_open
                                 /\ entropy_picker = 0
    /\ pinyin_candidate_picker_open => current_screen = EntryScreen

\* No screen or overlay is on display in a state of the flow it was not built
\* for, whenever the controller replaces the words and whatever the finger
\* finds beside the keys of the passphrase editor.
ScreensMatchFlow == LaterScreensNeedWords /\ OverlaysBelongToScreens

\* The address screen announces a page or shows one: an address of these
\* words and bits, at the index of the label, with both neighbours' buttons
\* enabled as far as BIP32 goes, and the cache that produced it behind it
\* unless the passphrase was changed since.
AddressPageIsOfTheseWords ==
    current_screen = AddressScreen =>
        \/ address.loading /\ timers = <<address.start_index>>
        \/ /\ ~address.loading
           /\ address.rows.kind = "page"
           /\ address.rows.index = address.start_index
           /\ [address.rows.key EXCEPT !.passphrase = passphrase] = finalized_key
           /\ address.has_previous_page <=> address.start_index > 0
           /\ address.has_next_page <=> address.start_index < MaxAddressIndex
           /\ receive_address_cache.filled =>
                 /\ receive_address_cache.key = address.rows.key
                 /\ receive_address_cache.pages > address.start_index
           /\ address.rows.key.passphrase = passphrase => receive_address_cache.filled

\* The keyboard never offers a letter the flow then rejects, so the message
\* about rejected letters never appears.
KeyboardNeverRejects == ~last_letter_was_rejected

\* The word a tap on "Use word" or on a candidate enters, and the final word
\* a tap picks, is the one the window showed.
TapsTakeWhatIsShown ==
    [][/\ TapEntryScreen /\ Len(word_indices') > Len(word_indices) =>
             word_indices' = Append(view.confirmed_words, view.entry_word)
       /\ TapPinyinPicker /\ Len(word_indices') > Len(word_indices) =>
             \E offset \in DOMAIN view.pinyin_candidates :
                 word_indices' = Append(view.confirmed_words, view.pinyin_candidates[offset])
       /\ TapFinalWordPicker /\ entropy_bits' # entropy_bits =>
             \E offset \in DOMAIN view.final_word_candidates :
                 entropy_bits' = view.final_word_candidates[offset]]_uiVars

\* README.md: the helper is not a wallet and derives no keys.  The cache of
\* receive addresses is derived from the seed.
DoesNotDeriveKeys == ~receive_address_cache.filled

\* A request for random words that was queued brings up the entropy screen
\* with every word in place, whatever is tapped meanwhile.
RequestsAreServed ==
    requests > 0 ~> current_screen = EntropyScreen /\ is_complete

\* The address screen is the abstract browser of AddressBrowser, including that
\* an announced page is shown unless its screen is left.
Browser == INSTANCE AddressBrowser WITH
    MaxIndex <- MaxAddressIndex,
    browsing <- IF current_screen # AddressScreen THEN "hidden"
                ELSE IF address.loading THEN "loading"
                ELSE IF address.rows.kind = "page" THEN "shown" ELSE "unavailable",
    index <- IF current_screen = AddressScreen THEN address.start_index ELSE 0

BrowserSpec == Browser!Spec

\* The flow behind the window moves only by its own operations.
FlowSpec == Spec
=============================================================================
