--------------------------- MODULE AddressBrowser ---------------------------
(***************************************************************************)
(* What browsing receive addresses promises: the screen opens on index 0,  *)
(* every page is first announced as loading and then shown unless the      *)
(* screen is left meanwhile, and paging moves by one index within the      *)
(* range BIP32 allows.  WalletUi implements this.                          *)
(***************************************************************************)
EXTENDS Integers

CONSTANT MaxIndex          \* MAX_BIP32_DERIVATION_INDEX, a natural number

VARIABLES
    browsing,              \* "hidden", "loading" or "shown"
    index                  \* of the page, 0 while hidden

browserVars == <<browsing, index>>

Init == browsing = "hidden" /\ index = 0

Open ==
    /\ browsing = "hidden"
    /\ browsing' = "loading"
    /\ index' = 0

Show ==
    /\ browsing = "loading"
    /\ browsing' = "shown"
    /\ UNCHANGED index

Turn ==
    /\ browsing = "shown"
    /\ browsing' = "loading"
    /\ index' \in {index - 1, index + 1} \cap 0 .. MaxIndex

Leave ==
    /\ browsing # "hidden"
    /\ browsing' = "hidden"
    /\ index' = 0

Next == Open \/ Show \/ Turn \/ Leave

Spec == Init /\ [][Next]_browserVars /\ WF_browserVars(Show)
=============================================================================
