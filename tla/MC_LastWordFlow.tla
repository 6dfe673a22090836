-------------------------- MODULE MC_LastWordFlow --------------------------
(***************************************************************************)
(* A small instance of LastWordFlow: three letters, five words, two words  *)
(* to a prefix.  The lists keep what makes look-ups hard in the real ones: *)
(* a word that is the beginning of others ("a"), a prefix with one match,  *)
(* one with several, letters no word continues with, and a character with  *)
(* two pronunciations below one pinyin prefix (index 0 below "a").         *)
(***************************************************************************)
EXTENDS LastWordFlow

a == 0
b == 1
c == 2

MCEnglishWords == <<<<a>>, <<a, b, c>>, <<a, c, b>>, <<b, a, b>>, <<b, c, a>>>>

Entry(spelling, index) == [spelling |-> spelling, index |-> index]

MCPinyinEntries ==
    <<Entry(<<a, b>>, 0), Entry(<<a, b>>, 1), Entry(<<a, b, c>>, 0),
      Entry(<<a, b, c>>, 2), Entry(<<b, a>>, 3), Entry(<<c>>, 3), Entry(<<c>>, 4)>>

=============================================================================
