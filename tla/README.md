# A TLA+ verification of the T-Display-S3-Pro BIP39 helper

The repository is the firmware of a touch-screen device that takes eleven BIP39 words, lets the
user choose the seven missing bits of entropy, shows the twelfth word and the receive addresses
that follow from it. This directory holds TLA+ modules translated from that code, TLC
configurations that model-check small instances of them, and theorems that TLAPS proves for every
value of their constants. Paths below are relative to the repository.

Contents: [the system](#the-system) · [modules](#modules-and-the-code-they-model) ·
[runs](#what-the-runs-check) · [assumptions](#fairness-and-time) · [proofs](#what-is-proved) ·
[divergences](#where-code-and-documents-differ) · [not modelled](#what-is-not-modelled) ·
[plan](#plan) · [running it](#running-it)

## The system

One Embassy executor on one core runs two tasks: the render task (timers, one touch report, redraw,
sleep 20 ms) and `main`, which ends in the controller's loop (random-word requests, a power refresh
every two seconds). A Slint callback is synchronous, so a handler runs to its end before anything
else does; tasks interleave only at an `await`.

| Part | Code | State | Operations | Talks to |
| --- | --- | --- | --- | --- |
| Word lists | `bip39-last-word` | none (constant tables) | prefix search, exact word, distinct pinyin candidates, next letters | called by the flow |
| Final word | `bip39-last-word` | none | candidates, final word for seven bits, entropy, seed | called by the flow and by the address list |
| `LastWordFlow` | `bitcoin-ui/src/mnemonic` | language, words, prefix, feedback, pinyin picker, seven bits, final-word picker, passphrase and its draft | 22 mutators | called by the callbacks and by `WalletUi` |
| Callbacks | `bitcoin-ui/src/mnemonic_view.rs` | none of its own | one per button: mutate the flow, drop the address cache, copy the flow into the window, change the screen | flow, window, cache, Slint timer |
| Window | `bitcoin-ui/ui/app-window.slint` | a copy of the flow; screen, overlays, keyboard page, address page, battery properties | taps | callbacks |
| Receive addresses | `bitcoin-ui/src/address_list.rs` | cache of derived pages | loading, show, unavailable | window, flow |
| `WalletUi` | `bitcoin-ui/src/wallet_ui.rs` | owns the three above | load random words, set battery state | called by the controller |
| Controller | `app/src/controller.rs` | request channel (2 slots), last power state | answer a request, refresh the indicator | TRNG, PMU, `WalletUi` |
| Render task | `app/src/render_task.rs` | point of the current press | timers, touch, draw | Slint, touch driver |
| Touch | `drivers/src/cst226se`, `app/src/hardware/touch.rs` | the chip's mode and last report | begin, read a report, acknowledge | I2C bus |
| PMU | `drivers/src/sy6970`, `app/src/hardware/pmu.rs` | the chip's registers, battery found at boot | initialise, enable or disable charging, status snapshot | I2C bus |
| Board | `app/src/main.rs` | the bus mutex | bring-up in a fixed order, spawn | all of the above |
| Display | `app/src/hardware/display.rs`, `slint_backend.rs` | panel, frame buffer | pixels | SPI bus |

What makes this code hard to get right, and what the properties are therefore about:

* **Long call sequences.** Words, prefix, two pickers, bits, passphrase and feedback are separate
  fields, and each operation must reset exactly those that depend on what it changed.
* **Copies.** The window is a copy of the flow, the cache is a function of four of its fields, and
  the address page is a copy of an entry of the cache. Each callback keeps them in step by hand.
* **Deferred work.** Addresses are derived by a single-shot timer on a later turn; by then the user
  may have left the screen, come back, or paged.
* **A second actor.** The controller replaces all the words whenever the render task is at an
  `await`, whatever is open on the screen.
* **Overlays.** Slint rectangles do not stop a touch. Below the passphrase editor and the pinyin
  picker the buttons of the covered screen are live wherever no key lies over them.
* **A bus that fails.** Every I2C transaction may fail, with or without an effect on the chip. The
  touch chip stops publishing until an empty report is acknowledged; the charger keeps its registers
  over a restart of the firmware and has a watchdog of its own.
* **One bus, one core.** Touch polling and power refresh take turns at the same mutex, and a task
  runs until it waits.
* **Numbers computed twice.** The final word on the screen and the entropy behind the addresses, and
  the three decisions that a battery is full, are computed apart and have to agree.

What makes each part correct: *word lists* - a search returns all matches, candidates are distinct
and dense; *final word* - it completes a BIP39 mnemonic, and the seed is of that mnemonic; *flow* -
its fields agree with each other after any calls; *window* - it shows the flow, and a tap does what
the button says; *addresses* - the page and the cache belong to the current words, bits and
passphrase, and an announced page arrives; *controller* - queued requests are answered; *power* -
charging is on only for a battery found with charging off, and the indicator shows the last snapshot;
*touch* - presses and releases alternate, a finger is noticed and let go; *board* - neither task
starves the other.

`PROJECT.json` lists every part with its status and every hazard with its line and its properties.

## Modules and the code they model

| Module | Models | Form |
| --- | --- | --- |
| `WordList` | `bip39-last-word/src/lib.rs` and `build.rs`: the two lists and their look-ups, with the prefix dispatch of `entry.rs` | pure operators |
| `FinalWord` | `bip39-last-word/src/lib.rs`: entropy, checksum, final word, errors | pure operators over a caller that passes any arguments |
| `LastWordFlow` | `bitcoin-ui/src/mnemonic/{mod,entry,entropy}.rs` | one action per mutator, 16 variables |
| `WalletUi` | `mnemonic_view.rs`, `address_list.rs`, `wallet_ui.rs`, `app-window.slint`, `render_task.rs`, `controller.rs` | `LastWordFlow` composed with window, timers, cache, request channel and controller |
| `AddressBrowser` | what browsing addresses promises | abstract specification, implemented by `WalletUi` |
| `Touch` | `drivers/src/cst226se`, `hardware/touch.rs`, the contact tracking of `render_task.rs` | chip, finger and render task, one step per I2C transaction |
| `Pointer` | what Slint is promised about presses and releases | abstract specification, implemented by `Touch` |
| `Power` | `drivers/src/sy6970`, `hardware/pmu.rs`, `controller.rs`, the battery properties of the window | boot with failures and restarts, watchdog, refreshes |
| `Board` | `main.rs`, `render_task.rs`, `controller.rs` | `Touch` and `Power` composed over one bus and one executor |
| `WordList_proofs`, `LastWordFlow_proofs`, `WalletUi_proofs`, `AddressPages_proofs`, `Touch_proofs`, `Power_proofs`, `Board_proofs`, `FinalWord_proofs` | | theorems |
| `MC_LastWordFlow`, `MC_WalletUi`, `MC_Touch`, `MC_Power`, `MC_Board`, `MC_FinalWord` | | instances for TLC |

**`WordList`.** A letter is its offset from `a`, as in `push_letter`; a spelling is a sequence of
letters. The lists are constants, assumed sorted: BIP39 sorts the English one, `build.rs` the pinyin
table. `MatchRun` is the code's "position of the first match, then take_while", not the set of all
matches; that the two agree on sorted lists is a theorem. `DistinctEntries` is
`is_first_entry_for_index`.

**`FinalWord`.** Eleven indices and seven bits make a `u128`; a shift is a multiplication, `or` with
clear bits an addition, and the `u128` wraps at its own size. The widths are constants, so that the same
arithmetic runs on 16 words; `Powers` is exponentiation as a recursive function, which the provers can
reason about. SHA-256 is the constant `Checksum`, some function of a byte sequence:
what is checked is which bytes it is taken of, where its bits go and that the direct calculation,
the table and the seed use the same. The reference is BIP39 itself, `IsMnemonic` and `from_entropy`. The
variables are the arguments of the caller, each one past its range as well.

**`LastWordFlow`.** Names are the code's. `word_indices` is the array up to `word_count`, `prefix`
the buffer up to `prefix_len`; an `Option<u16>` index is an integer with `NoIndex` for `None`. Every
early return is a disjunct of its action that changes nothing. Arguments range one past both ends
of what is accepted, because the functions take plain `i32`. `entropy_bits` is a number below
`OctalFaces * HexFaces`; XOR and the two masks are the arithmetic they stand for (`FlipBit`,
`WithOctalFace`, `WithHexFace`), so one set of actions covers any number of faces.
A final word is a function of words and bits (see `FinalWord`), so a label of the final-word picker is
the value of its bits. Passphrase keys are one-byte printable keys (`PassphraseKeys`) or anything else
(`OtherKeys`).

**`WalletUi`.** `view` is the record of what `sync_mnemonic_view` copies. A tap needs its button in
`view` (existing, enabled) and within reach of a finger; it calls the callback of the same name. The
reach of the covered screens is read off the layout: the die picker has a full-window touch area and
blocks everything; over the entropy screen the passphrase editor leaves open Bits, Dice, the first
and the last bit, the die cards, Edit, Reset and, on its symbol page, a strip of Address; over the
entry screen it leaves Use word, Reset, Random 11, Back and, on the symbol page, the letters Z and M.
Press and release are one step at the release: `Touch` shows that the render task releases at the point
of the press, and a button that was disabled or destroyed in between gives no click. `timers` is
Slint's queue of `Duration::ZERO` closures, each of which is due at the next update. `requests` counts
the messages in the channel. The render task is `RunTimers` (all closures that are due), then at most
one tap; the controller's answer may come between any two of its steps.
The cache is the tuple it was derived from with the number of pages; a page is that tuple with its
index.

**`AddressBrowser`.** Hidden, loading or shown; opens at index 0, moves by one within the range of
BIP32, and shows what it announced unless it is left. `WalletUi` implements it under the mapping
`Browser`.

**`Touch`.** Three actors. The finger lands, rolls and lifts. The chip publishes a report of it, or a
spurious one, whenever it is in report mode and not waiting for an acknowledgement: an empty report
stays in its registers until acknowledged. The render task starts the chip (`Reset`,
`EnterCommandMode`, `ReadCheckcode`, `LeaveCommandMode`: `begin` goes on to leave command mode after
a failed read and looks at both results at the end), then reads a report every turn, acknowledges an empty
one, and tracks the contact. A transaction is a step and may fail; a write that fails has or has not
reached the chip. Reports keep the three bytes the driver tests, with their real values, and a decoded
coordinate. `event` is the last event given to Slint with a bit that tells it from the one before;
`presses` and `faults` only observe the contact.

**`Pointer`.** Presses and releases alternate, and a release is at the point of its press.

**`Power`.** The registers are the sets of named bits the driver changes, with one more bit for the
rest of each register. `boot_updates` is the order of `update_bits` calls in `initialize_pmu`; each is a
read and a write, and after each the boot may stop at an `expect`. `Reset` restarts the firmware at
any moment and keeps the registers, which begin with any value. The watchdog, if an earlier boot or the
chip's default left it running, turns charging on. A snapshot is two or three reads; `Refreshed` is
the rest of `refresh_device_status` with its comparison against what was shown last. `Painted` and
`FullBar` are the window's battery properties and what the icon makes of them. Voltages are the
real ones.

**`Board`.** The order of `main` from the end of `initialize_pmu`, then two tasks and one mutex. The
executor is cooperative: a task keeps running over a transaction's end into the next `lock` without
yielding, so it gets the mutex before a task that waits; a timer is looked at when no task can run. A
release may click Random 11 and send a request. `Turn` is one poll of the controller's loop up to
its next wait. It does not repeat the steps of the two tasks: it instantiates `Touch` and `Power` and
says who may take them when. Their assumptions about constants are repeated there (`PartsAssumption`),
because an instance does not bring them along.

Operators whose comment begins with *Fault* are not part of the specification. Each is an original
definition with one plausible mistake, and shows that some property notices that mistake
(`mutants` in `PROJECT.json`).

## What the runs check

| Run | Instance | Shows |
| --- | --- | --- |
| `flow` | `MC_LastWordFlow.cfg`: 3 letters, 5 words, 2 words to a prefix, prefix lengths 2 and 3, 2 pinyin and 3 final words per page, 2x2 dice, 1 byte of passphrase over 2 keys | every invariant and action property of the flow |
| `wallet` | `MC_WalletUi.cfg`: 2 words, 1 word to a prefix, 1 bit, 1 key, indices 0 and 1, 1 request slot | window, cache, overlays and address page under every interleaving |
| `live` | `MC_WalletUiLive.cfg`: 2 words, 1 word to a prefix, indices 0 to 2, 2 request slots, no bits and no passphrase | liveness; `AddressBrowser` and `LastWordFlow` are implemented |
| `touch` | `MC_Touch.cfg`: a window of 3 by 2, two corners of a larger panel, 2 faults to a contact | pointer events and contacts over a failing bus; `Pointer` is implemented |
| `power` | `MC_Power.cfg`: 10 voltages, every charger status, with and without USB | the boot's decision over any registers, failures and restarts; the indicator |
| `board` | `MC_Board.cfg`: one point, one voltage, 1 fault, 2 request slots | the composition: no task is starved, `Touch` and `Power` are kept |
| `final_word` | `MC_FinalWord.cfg`: 2 words of a list of 16, 2 bits, 2 bits of checksum, 2 bytes of 5 bits | the arithmetic of the final word for every argument |
| `letters_close`, `no_keys`, `spurious` | the instances of `flow`, `wallet` and `touch` | three statements of the documents and comments that the code does not keep |

Why these bounds are enough. In `flow` the lists keep each shape that decides a branch: a word that
begins others, a prefix with one match, with several and with none, letters no word continues with, a
character that occurs twice below one prefix, more candidates than fit a page, a last page that is
not full (4 final words on pages of 3), and a prefix at its limit. Two words to a prefix give an
incomplete flow with words, so backspace out of a complete and out of a partial list both happen. The
passphrase limit is reached at once and rejected keys occur. The two dice have two faces each, and
both `mod` and `div` of the bits matter. In `wallet` one word completes the prefix, which keeps every
screen within a few taps and leaves the state space to the interleavings; one request slot lets the
queue be empty, filled and overflown; two indices have both ends of the range and a page in each
direction. `live` has an inner page, with both neighbours, and the two request slots of the code. No queue or counter of these runs is cut
off by a bound that the code does not have: the timer queue is bounded because the render task empties
it before each tap, the passphrase and the words by constants of the code.

In `touch` one panel point lies in the window and one beyond the upper end of both axes, where both
coordinates are clamped (a report has no negative ones). The counts are those at the
limits the driver tests (0, 1, 5, 6 and the home button's 128), and two faults let a press be split
twice or a fault hit the recovery from another. `MaxFaults` is the one artificial bound: it caps the
spurious reports and failed reads *during one contact*, and counts again from 0 when the next finger
lands, so failures go on for ever in a behaviour. The theorems need no bound. In `power` the voltages
lie on both sides of the battery-present threshold, of "full" and of two percentage bands, with the
ADC's 0 and its maximum; all 512 initial register values and all orders of failures, restarts and
watchdog occur, and nothing is capped. In `board` only order matters, so data is one value each, and
two slots are those of the code. In `final_word` a word lies across the byte boundary and leading
bytes can be zero, as in the real widths, and the bad index and the bad bits are among the arguments.

The flow's properties, by what could go wrong:

* *fields that belong together*: `FieldsBelongTogether` (confirmation, bits, language choice, draft),
  `NewWordsNewEntropy`;
* *what is typed*: `PrefixCanBecomeWord`, `EnabledLettersAreAccepted`, `EntryHasAWayForward`,
  `FeedbackIsCurrent`;
* *what is picked*: `PickersMatchEntry`, `ShownIsEntered` (in both pickers and while typing, and
  nothing from a button without a label), `DiceAreIndependent`;
* *the passphrase in use*: `PassphraseComesFromDraft` (Done takes the draft, words that replace others
  take the passphrase with them, and nothing else changes it).

The window's: `ViewIsCurrent` and `TapsTakeWhatIsShown` (the copy is never
behind), `CacheMatchesFlow` and `AddressPageIsOfTheseWords` (derived data is never behind),
`ScreensMatchFlow` (no screen or overlay in a state it was not built for), `RequestsAreServed`
(deferred work is done), `BrowserSpec` and `FlowSpec` (refinements; the first includes that an
announced page is shown unless it is left).

`AddressPageIsOfTheseWords` has one weak spot on purpose. With the passphrase editor open over the
entropy screen, a strip of the Address button is open beside the keys of the symbol page; from there
the editor's Done changes the passphrase while a page is on display. The code drops the cache and
leaves the page, so the page shows an address of the previous passphrase until it is turned. The
invariant says exactly that: the page belongs to the words and bits, and to the passphrase it was
derived with; whenever a cache exists it agrees with both.

Touch: `PolledTouchpadReports` (no touchpad is polled in command mode), `PointerSpec` (presses and
releases alternate, whatever fails), `SecondPressNeedsFault` (one press to a contact unless a fault
splits it), `FingerIsNoticed` and `LiftReleases` (neither a failed acknowledgement nor a lost report
leaves the screen dead or a button pressed). The first press of a second contact is not lost either:
`FingerIsNoticed` is about every contact.

Power: `MeasuredWithChargingOff`, `ProtectionHolds` and `ChargingFollowsBoot` are about the boot over
what an earlier one left; `IndicatorShowsLastRead` and `IconIsConsistent` about the snapshots. Board:
`TouchSpec` is the whole of `Touch` with its fairness, `PowerSteps` the steps of `Power`,
`RefreshRecurs` and `RequestsAreAnswered` what the composition adds. Final word:
`CandidatesAreTheFinalWords`, `DirectAgreesWithTable`, `SeedIsOfTheseWords`.

## Fairness and time

`UiSpec` assumes weak fairness of the render task and of the controller's answer, and of nothing a
user does. The render task awaits a touch read and `Timer::after_millis(20)`, both of which complete
(assuming of the HAL that a failed I2C transfer returns an error rather than hangs); the executor
polls every task that has been woken. The controller is woken by the message, `select` polls the
request before the ticker, and a PMU read that fails returns an error, so it comes back to the
channel. Taps are never fair: `NoTap` is a step of the render task. `RequestsAreServed` assumes that
the TRNG can be opened, which `main` ensures by keeping `trng_source` alive until after the
controller.

`TouchSpec` assumes weak fairness of the render task and of the chip's reports (`PublishFinger`), not
of the finger. Without the second no touch chip would be of use; spurious reports and failures are
never fair.

`BoardSpec` assumes that a transaction which was begun ends, that a task which can take the mutex does,
and that the bring-up and a woken controller go on; the fairness of the whole `TouchSpec` is checked as a
consequence. A timer is strongly fair,
because it is looked at only in moments when no task can run, which come again and again but do not
stay. `Board` assumes two facts about time: 20 ms and 2 s are longer than the rest of a turn (so a timer
does not fire while a task could run) and a refresh is shorter than the ticker's two seconds. `Power`
assumes one: a boot (five updates at 40 kHz and the ADC's settling time) is shorter than the watchdog's
period of tens of seconds. Without it nothing in the code closes the window between the disabling of
charging and the stop of a watchdog that was already running; this is listed as a hazard without a property.
A derivation of addresses inside a turn of the render task is the one thing that may outlast those 20 ms
or 2 s. Timers that expire meanwhile are taken when the turn ends, one after the other: a finite backlog,
which delays the other task by no more than that and changes none of the properties.
Neither `UiSpec` nor `PowerSpec`'s safety properties depend on fairness.

## What is proved

The theorems hold for every list of words, prefix length, page size, number of dice faces, size of
the window, set of readings, number of faults and capacity that satisfies the named assumptions
`WordListAssumption`, `SortedAssumption`, `FlowAssumption`, `EntropyAssumption`, `UiAssumption`,
`SpellingAssumption`, `TouchAssumption`, `PowerAssumption`, `BoardAssumption`, `PartsAssumption` and
`FinalWordAssumption`. TLC evaluates all of them in the runs. They say

* that the constants are numbers of the right kind and readings lie within their registers;
* that the lists are sorted, and that the weight of every entropy bit divides the candidates into pairs
  (true of 7 bits and 128 candidates);
* `SpellingAssumption`: no word is spelt with no letters, and English words that reach the prefix limit
  differ before it (`entry.rs:192`: "the word list's first four letters identify every English BIP39
  word"). Only `EntryGoesOn` below rests on it;
* `FinalWordAssumption`: entropy bits and checksum bits make one word, eleven words and the entropy bits
  fill the bytes exactly (2048^11 * 2^7 = 256^16), and the checksum is a number of its bits.

**Word lists** (`WordList_proofs`). In a sorted list the words that start with a prefix are adjacent,
so the run found by first match and take-while misses none (`SearchFindsEveryWord`). From that, a
letter is among the next letters of a prefix exactly if the longer prefix still has matches
(`NextLettersExtend`) - the fact behind `EnabledLettersAreAccepted`. A character may have several
pronunciations, so a pinyin candidate is the first entry of its character within the run, found by its
rank among those. That the ranks are the numbers below the count, each once, is a bijection between
finite sets (`RanksAreDense`: an injection into a set of the same size). `CandidatesAreTheMatches`
follows: the candidates fill the positions below the count and no other, no character appears at two
of them, and none that matches is left out.

**Flow** (`LastWordFlow_proofs`). The invariants are not inductive one by one. The inductive
invariant `IInv` is the conjunction of the type invariant with the relations between the fields. For
example, the type of `entropy_bits` after a bit is flipped needs the bit's weight and the range; the
prefix keeps its matches under backspace because a match of a longer prefix is a match of a shorter one;
the page of the pinyin picker exists because everything that changes the prefix rewinds the page; and
the feedback's number is current because everything that changes the prefix clears it. Each conjunct
is shown for `Init` and for each of the four groups of actions, with one step per action.
`NewWordsNewEntropy`, `DiceAreIndependent`, `PassphraseComesFromDraft` and `ShownIsEntered` are action
properties proved from it: for the last, an open pinyin picker implies the language whose labels it shows, and dividing the bits
by the page size gives a page and an offset whose label is those bits.

`EntryGoesOn` says that typing never gets stuck. An empty entry has a first letter. A pinyin prefix
has a match, so "Use word" opens the picker or accepts the only candidate. For an English prefix to which no
letter can be added there are two cases: every match ends with it, so that it is a word itself, or it is as
long as may be typed, so that its letters identify one word; either is accepted.
`PagesAreNeverBlank` adds that
an open picker shows a word on its page (the page is below the page count, and positions below the
count are filled), and `EveryMatchHasOneButton` that paging meets every character that matches, on
exactly one button of one page.

**Window** (`WalletUi_proofs`). `WindowImplementsFlow` shows `UiSpec => FlowSpec`: each callback is
one action of the flow or leaves it alone. Every invariant of the flow then holds of the window. On
that rest `ViewIsCurrent` (each step copies the flow or leaves it alone), `CacheMatchesFlow` (each
step that changes words, bits, language or passphrase drops the cache), and
`ScreensMatchFlow`, whose two halves need one another: a tap is possible only on the screen in view,
so that the words are complete there, so that the picker it opens belongs there.
`TapsTakeWhatIsShown` is `ShownIsEntered` through the copy: the label a tap takes is the one in the view.
`KeyboardNeverRejects` combines `ViewIsCurrent` with `EnabledLettersAreAccepted`: the keys that can be
tapped are those enabled in the view, which are the current ones, which are accepted.

**Address page** (`AddressPages_proofs`). `AddressPageIsOfTheseWords` needs the shape of the timer
queue: at most one closure is pending, and none when a tap is possible (`TimersInv`), because the
render task empties the queue before it looks at the finger. `PageInv` strengthens the invariant by the
one thing the weak spot above rests on: after a Done over the address page the editor is closed, and
the address screen has no button that opens it again, so the passphrase cannot change twice. The same
module has `UiTypeOK`, and `WindowBrowses`, the safety half of `BrowserSpec`: the page shown by a timer is
the page announced, because the one closure in the queue is that page's.

**Touch** (`Touch_proofs`). The number of presses of a contact is at most one more than its faults. By
itself that is not inductive: a fault already happened when the release it causes is still to come. Whenever the
press is gone or about to go - nothing is pressed, the report in the registers is not a contact, or an
acknowledgement is pending - the fault that causes the next press must already be counted. That is
`PressesArePaid`; `AcknowledgedIsEmpty` adds that only reports that are not contacts are held for an
acknowledgement. `PointerAlternates` is the refinement: `press_position` is
somewhere exactly while the last event is a press, and then it is that event's position.

**Power** (`Power_proofs`). `BootInv` says what each place of the boot may rely on: the updates passed
so far are in the registers (`PassedUpdates`), the decision about the battery selects the rest of the
path (`BatteryDecision`), and charging is off in between (`ChargingOff`). A restart establishes all three
trivially, since it goes back to the first update; this is why the order of the updates matters
and nothing else does. For the window, `Presented` says that it is the painting of the last state
presented, which is the last one read (before any, the unavailable look); the facts painted come from one snapshot, whose
percentages and thresholds are compared by cases (`IconAgrees`). `OtherSettingsSurvive` shows that no
boot changes a bit that it does not own (`OtherSettingsKept`).

**Board** (`Board_proofs`). Every step of the composition is a step of `Power` or leaves its variables
alone (`ControllerIsPower`), likewise of `Touch` (`RenderTaskIsTouch`, its safety part), and the mutex is
held only by a task in the middle of its transactions (`HolderIsTransferring`). What was proved of the
two modules therefore carries over. `Board_proofs` instantiates `Touch_proofs` and `Power_proofs` and uses
their inductive invariants for the board's variables. `TouchOnTheBoard` has the types, the report mode
and the bound on presses; `PointerOnTheBoard` is the refinement of `Pointer` by the whole board; and
`PowerOnTheBoard` has charging and indicator. The last is not a consequence of `ControllerIsPower` alone, as the
board does not begin where `Power` does: `InvariantsAfterBoot` shows that the registers and places
`initialize_pmu` ends with already satisfy every invariant of `Power`. The `Same...` lemmas only say that a
definition reached through `Touch` and one reached through `Touch_proofs` are the same.

**Final word** (`FinalWord_proofs`). The arithmetic is proved for every width: `Induction` derives
induction over a *set* of numbers from the well-founded order of the naturals, so that each induction
names its set, and `ComputedForAll` derives from it what a recursive function computes. On these rest the
powers, the number that a sequence of digits stands for, and the two directions of the round trip
(`NumberOfDigits`, `DigitsOfNumber`). `entropy_prefix` is then the number of its eleven words
(`PrefixIsNumber`), the `u128` never wraps (`EntropyFits`), and the index of the final word is a word of the list
(`FinalWordFits`). `MnemonicsEndInFinalWords` is the bridge to BIP39: words form a mnemonic exactly
if the last one is the final word of the others for some bits. From it `CandidatesAreFinalWords` (all of them,
each once), `DirectIsTable` (the direct calculation and the table agree, errors included),
`SeedIsOfTheMnemonic` (the entropy encodes to the words on the screen) and `FinalWordTypeCorrect`.
Of the checksum nothing is used but its range.

Proved and in no run: `KeyboardNeverRejects`, `OtherSettingsKept`, `HolderTransfers`,
`PointOrAcknowledgement` (the driver's two conditions on a report leave nothing out), `NoBlankPage`,
`EveryMatchHasOneButton`, `CandidatesAreTheMatches` and the board's inherited invariants.

Model-checked only is liveness, which is out of the prover's reach: `RequestsAreServed`,
`FingerIsNoticed`, `LiftReleases`, `RefreshRecurs`, `RequestsAreAnswered`, and the fairness of `BrowserSpec`
and of `Board`'s `TouchSpec`. Every other property of a run is a theorem.

## Where code and documents differ

* `entry.rs:193` says that letter entry is closed once a word can be confirmed. The code closes it at
  the length limit; a word that begins another one could not be told from it otherwise
  (run `letters_close`).
* `README.md:15` and `app-window.slint:188` say that the helper derives no keys. Address derives the
  seed, the master key and the account key and caches a public descriptor (run `no_keys`).
* `render_task.rs:79` says that events without a reported point are spurious and ignored. The driver's
  glue turns everything that is not a contact into an `Up` (`touch.rs:69`), so the guard below the
  comment never holds, and a home-button report or one without its marker releases the press of a
  finger that is still down (run `spurious`).

## What is not modelled

* **Key derivation.** SHA-256, PBKDF2, BIP32 and descriptors are functions of data with no control
  of their own; the models keep their arguments. An address derivation that fails for cryptographic
  reasons has negligible probability and is left out; a missing entropy and an index out of range are
  modelled.
* **Parts of `bip39-last-word` the firmware does not call**: `candidates_from_words` and the
  parsing of word strings.
* **Drawing, wording, fonts and geometry**, beyond which buttons are within reach and what the battery
  icon fills.
* **The shift key** of the passphrase keyboard: it chooses among keys of one page.
* **Touch points beyond the first**, their ids and pressures: decoded and not used by the program.
* **Display transfer and Slint platform glue** (`display.rs`, `slint_backend.rs`): a fixed sequence of
  panel commands and a stream of pixels on a bus of their own, which keep no state the rest of the
  program reads. A failed transfer ends in a panic.
* **Clock, heap, PSRAM, backlight, camera pins and the splash** of `main`: straight-line set-up that
  ends in a panic if a step fails. The order of PMU, touchpad, render task and controller is modelled.
* **Build scripts, fonts, generated code**: no behaviour at run time; the sorting of `build.rs` is an
  assumption of `WordList`.
* **A bus transfer that never ends**: the HAL is taken to return an error.

## Plan

1. Done: `WordList`, `LastWordFlow`, `WalletUi`, `AddressBrowser`; `Touch` and `Pointer`; `Power`;
   `Board`; `FinalWord`; their runs and the theorems above.
2. Left to compose: the tap of `WalletUi` as the press and release of `Pointer`, which needs the
   geometry of the buttons to say when a click is lost.

## Running it

    tlc -workers 2 -config MC_LastWordFlow.cfg MC_LastWordFlow
    tlc -workers 2 -config MC_WalletUi.cfg MC_WalletUi
    tlc -workers 2 -config MC_WalletUiLive.cfg MC_WalletUi
    tlc -workers 2 -config MC_Touch.cfg MC_Touch
    tlc -workers 2 -config MC_Power.cfg MC_Power
    tlc -workers 2 -config MC_Board.cfg MC_Board
    tlc -workers 2 -config MC_FinalWord.cfg MC_FinalWord
    tlapm WordList_proofs.tla
    tlapm LastWordFlow_proofs.tla
    tlapm WalletUi_proofs.tla
    tlapm AddressPages_proofs.tla
    tlapm Touch_proofs.tla
    tlapm Power_proofs.tla
    tlapm Board_proofs.tla
    tlapm FinalWord_proofs.tla

`MC_LastWordFlow_LettersClose.cfg`, `MC_WalletUi_NoKeys.cfg` and `MC_Touch_Spurious.cfg` end in a
violation.
