---------------------------- MODULE MC_WalletUi ----------------------------
(***************************************************************************)
(* A small instance of WalletUi: two letters and two words in each list.   *)
(* "a" is an English word and begins the other, and it is the pinyin of    *)
(* both characters: "Use word" meets an exact match, an only match and the *)
(* picker.  One word completes the prefix.  MC_WalletUi.cfg has one bit,   *)
(* one key on the passphrase keyboard and two pages of addresses;          *)
(* MC_WalletUiLive.cfg has three pages, no bits and no passphrase.         *)
(***************************************************************************)
EXTENDS WalletUi

a == 0
b == 1

MCEnglishWords == <<<<a>>, <<a, b>>>>

Entry(spelling, index) == [spelling |-> spelling, index |-> index]

MCPinyinEntries == <<Entry(<<a>>, 0), Entry(<<a>>, 1)>>
=============================================================================
