-------------------------- MODULE WordList_proofs --------------------------
(***************************************************************************)
(* What the searches of WordList return, for every pair of lists that is   *)
(* sorted the way BIP39 and build.rs sort them.                            *)
(***************************************************************************)
EXTENDS WordList, FiniteSetTheorems, SequenceTheorems, WellFoundedInduction, TLAPS

\* Every nonempty set of naturals has a least element.
LEMMA LeastNatural ==
    ASSUME NEW S, S \subseteq Nat, S # {}
    PROVE  \E m \in S : \A n \in S : m <= n
<1> DEFINE R == OpToRel(<, Nat)
<1>1. IsWellFoundedOn(R, Nat)
    BY NatLessThanWellFounded
<1>2. PICK m \in S : \A n \in S : ~(<<n, m>> \in R)
    BY <1>1, WFMin
<1>3. \A n \in S : ~(n < m)
    BY <1>2 DEF OpToRel
<1> QED
    BY <1>3

\* starts_with, letter by letter.
LEMMA StartsWithLetters ==
    ASSUME NEW word \in Seq(Letters), NEW prefix \in Seq(Letters)
    PROVE  StartsWith(word, prefix) <=>
               /\ Len(prefix) <= Len(word)
               /\ \A i \in 1 .. Len(prefix) : prefix[i] = word[i]
BY DEF StartsWith, IsPrefix, Letters
\* A spelling between two spellings that begin with prefix begins with it too.
LEMMA BetweenMatchesMatches ==
    ASSUME NEW prefix \in Seq(Letters),
           NEW s \in Seq(Letters), NEW t \in Seq(Letters), NEW u \in Seq(Letters),
           Precedes(s, t) \/ s = t,
           Precedes(t, u) \/ t = u,
           StartsWith(s, prefix),
           StartsWith(u, prefix)
    PROVE  StartsWith(t, prefix)
<1> DEFINE Before(v, w) ==
        \E k \in DOMAIN v \cap DOMAIN w :
            /\ v[k] < w[k]
            /\ \A j \in 1 .. k - 1 : v[j] = w[j]
<1>1. /\ Len(prefix) <= Len(s) /\ \A i \in 1 .. Len(prefix) : prefix[i] = s[i]
      /\ Len(prefix) <= Len(u) /\ \A i \in 1 .. Len(prefix) : prefix[i] = u[i]
    BY StartsWithLetters
<1>2. \/ Len(s) <= Len(t) /\ \A i \in 1 .. Len(s) : s[i] = t[i]
      \/ Before(s, t)
    BY StartsWithLetters DEF Precedes, IsStrictPrefix, StartsWith
<1>3. \/ Len(t) <= Len(u) /\ \A i \in 1 .. Len(t) : t[i] = u[i]
      \/ Before(t, u)
    BY StartsWithLetters DEF Precedes, IsStrictPrefix, StartsWith
<1>4. CASE Len(s) <= Len(t) /\ \A i \in 1 .. Len(s) : s[i] = t[i]
    BY <1>1, <1>4, StartsWithLetters
<1>5. CASE Before(s, t)
  <2>1. PICK k \in DOMAIN s \cap DOMAIN t :
            s[k] < t[k] /\ \A j \in 1 .. k - 1 : s[j] = t[j]
      BY <1>5
  <2>2. CASE k > Len(prefix)
      BY <1>1, <2>1, <2>2, StartsWithLetters
  <2>3. CASE k <= Len(prefix)
    <3>1. /\ k \in 1 .. Len(t) /\ k \in 1 .. Len(u)
          /\ t[k] > u[k]
        BY <1>1, <2>1, <2>3 DEF Letters
    <3> HIDE DEF Before
    <3>6. /\ \A i \in 1 .. Len(t) : t[i] \in Int
          /\ \A i \in 1 .. Len(u) : u[i] \in Int
      <4>1. Letters \subseteq Int
          BY DEF Letters
      <4>2. \A v \in Seq(Letters) : \A i \in 1 .. Len(v) : v[i] \in Letters
          OBVIOUS
      <4>3. \A v \in Seq(Letters) : \A i \in 1 .. Len(v) : v[i] \in Int
          BY <4>1, <4>2
      <4> QED
          BY <4>3
    <3>2. \A j \in 1 .. k - 1 : t[j] = u[j]
        BY <1>1, <2>1, <2>3
    <3>3. ~(Len(t) <= Len(u) /\ \A i \in 1 .. Len(t) : t[i] = u[i])
        BY <3>1, <3>6
    <3>4. PICK m \in DOMAIN t \cap DOMAIN u :
              t[m] < u[m] /\ \A j \in 1 .. m - 1 : t[j] = u[j]
        BY <1>3, <3>3 DEF Before
    <3>5. FALSE
        BY <3>1, <3>2, <3>4, <3>6
    <3> QED
        BY <3>5
  <2> QED
      BY <2>1, <2>2, <2>3
<1> QED
    BY <1>2, <1>4, <1>5

\* In a sorted list the run of consecutive matches is all there is to find.
LEMMA RunIsEveryMatch ==
    ASSUME NEW list \in Seq(Seq(Letters)), NEW prefix \in Seq(Letters),
           \A i, j \in DOMAIN list :
               i < j => Precedes(list[i], list[j]) \/ list[i] = list[j]
    PROVE  MatchRun(list, prefix) = {i \in DOMAIN list : StartsWith(list[i], prefix)}
<1> DEFINE Matching(i) == StartsWith(list[i], prefix)
<1>1. ASSUME NEW i \in DOMAIN list, Matching(i)
      PROVE  i \in MatchRun(list, prefix)
  <2> DEFINE M == {m \in 1 .. i : Matching(m)}
  <2>1. M # {} /\ M \subseteq Nat
    <3>1. i \in 1 .. i /\ Matching(i)
        BY <1>1
    <3> QED
        BY <3>1
  <2>2. PICK first \in M : \A m \in M : first <= m
      BY <2>1, LeastNatural
  <2>3. \A j \in 1 .. first - 1 : ~Matching(j)
      BY <2>2
  <2>4. \A j \in first .. i : Matching(j)
    <3>1. ASSUME NEW j \in first .. i
          PROVE  Matching(j)
      <4>1. /\ j \in DOMAIN list /\ first \in DOMAIN list
            /\ list[first] \in Seq(Letters) /\ list[j] \in Seq(Letters)
            /\ list[i] \in Seq(Letters)
          BY <1>1, <2>2, <3>1
      <4>2. Precedes(list[first], list[j]) \/ list[first] = list[j]
          BY <4>1, <3>1, <2>2
      <4>3. Precedes(list[j], list[i]) \/ list[j] = list[i]
          BY <4>1, <3>1, <1>1
      <4> QED
          BY <1>1, <2>2, <4>1, <4>2, <4>3, BetweenMatchesMatches
    <3> QED
        BY <3>1
  <2> QED
      BY <1>1, <2>2, <2>3, <2>4 DEF MatchRun
<1>2. ASSUME NEW i \in MatchRun(list, prefix)
      PROVE  i \in DOMAIN list /\ Matching(i)
  <2>1. i \in DOMAIN list /\ DOMAIN list = 1 .. Len(list)
      BY DEF MatchRun
  <2>2. PICK first \in 1 .. i : \A j \in first .. i : Matching(j)
      BY DEF MatchRun
  <2> QED
      BY <2>1, <2>2
<1> QED
    BY <1>1, <1>2 DEF MatchRun
-----------------------------------------------------------------------------
Spellings(language) ==
    CASE language = English           -> EnglishWords
      [] language = SimplifiedChinese -> PinyinSpellings

Run(language, prefix) == MatchRun(Spellings(language), prefix)

Beginning(language, prefix) ==
    {i \in DOMAIN Spellings(language) : StartsWith(Spellings(language)[i], prefix)}

LEMMA SpellingsType ==
    ASSUME NEW language \in Languages
    PROVE  /\ Spellings(language) \in Seq(Seq(Letters))
           /\ DOMAIN Spellings(language) = 1 .. Len(Spellings(language))
<1>1. EnglishWords \in Seq(Seq(Letters))
    BY WordListAssumption
<1>2. PinyinSpellings \in Seq(Seq(Letters))
  <2>1. PinyinEntries \in Seq([spelling : Seq(Letters), index : WordIndices])
      BY WordListAssumption
  <2>2. /\ DOMAIN PinyinEntries = 1 .. Len(PinyinEntries)
        /\ Len(PinyinEntries) \in Nat
        /\ \A i \in 1 .. Len(PinyinEntries) : PinyinEntries[i].spelling \in Seq(Letters)
    <3>1. \A i \in 1 .. Len(PinyinEntries) :
              PinyinEntries[i] \in [spelling : Seq(Letters), index : WordIndices]
      <4>1. \A S : \A q \in Seq(S) : \A i \in 1 .. Len(q) : q[i] \in S
          OBVIOUS
      <4> QED
          BY <2>1, <4>1
    <3>2. \A e \in [spelling : Seq(Letters), index : WordIndices] :
              e.spelling \in Seq(Letters)
        OBVIOUS
    <3> QED
        BY <2>1, <3>1, <3>2
  <2>3. PinyinSpellings \in [1 .. Len(PinyinEntries) -> Seq(Letters)]
      BY <2>2 DEF PinyinSpellings
  <2> QED
      BY <2>2, <2>3
<1> QED
    BY <1>1, <1>2 DEF Spellings, Languages, English, SimplifiedChinese

\* words_by_prefix and its pinyin twin find every word that begins with the
\* prefix, although each stops at the first that does not.
THEOREM SearchFindsEveryWord ==
    ASSUME NEW language \in Languages, NEW prefix \in Seq(Letters)
    PROVE  Run(language, prefix) = Beginning(language, prefix)
<1> DEFINE list == Spellings(language)
<1>1. list \in Seq(Seq(Letters))
    BY SpellingsType
<1>2. \A i, j \in DOMAIN list : i < j => Precedes(list[i], list[j]) \/ list[i] = list[j]
  <2>1. CASE language = English
    <3>1. list = EnglishWords
        BY <2>1 DEF Spellings, English, SimplifiedChinese
    <3>2. SortedEnglish
        BY SortedAssumption
    <3> QED
        BY <3>1, <3>2 DEF SortedEnglish
  <2>2. CASE language = SimplifiedChinese
    <3>1. list = PinyinSpellings
        BY <2>2 DEF Spellings, English, SimplifiedChinese
    <3>2. DOMAIN list = DOMAIN PinyinEntries
        BY <3>1 DEF PinyinSpellings
    <3>3. \A i \in DOMAIN list : list[i] = PinyinEntries[i].spelling
        BY <3>1 DEF PinyinSpellings
    <3>4. SortedPinyin
        BY SortedAssumption
    <3> HIDE DEF list
    <3>5. ASSUME NEW i \in DOMAIN list, NEW j \in DOMAIN list, i < j
          PROVE  Precedes(list[i], list[j]) \/ list[i] = list[j]
      <4>1. \/ Precedes(PinyinEntries[i].spelling, PinyinEntries[j].spelling)
            \/ PinyinEntries[i].spelling = PinyinEntries[j].spelling
          BY <3>2, <3>4, <3>5 DEF SortedPinyin
      <4> QED
          BY <3>3, <4>1
    <3> QED
        BY <3>5
  <2> QED
      BY <2>1, <2>2 DEF Languages
<1> HIDE DEF list
<1>3. MatchRun(list, prefix) = {i \in DOMAIN list : StartsWith(list[i], prefix)}
    BY <1>1, <1>2, RunIsEveryMatch
<1> QED
    BY <1>3 DEF Run, Beginning, list

LEMMA RunFinite ==
    ASSUME NEW language \in Languages, NEW prefix
    PROVE  /\ Run(language, prefix) \subseteq 1 .. Len(Spellings(language))
           /\ IsFiniteSet(Run(language, prefix))
<1>1. Run(language, prefix) \subseteq 1 .. Len(Spellings(language))
    BY SpellingsType DEF Run, MatchRun
<1>2. Len(Spellings(language)) \in Nat
    BY SpellingsType
<1>3. IsFiniteSet(1 .. Len(Spellings(language)))
    BY <1>2, FS_Interval
<1> QED
    BY <1>1, <1>3, FS_Subset

LEMMA RunOf ==
    ASSUME NEW prefix
    PROVE  /\ Run(English, prefix) = words_by_prefix(prefix)
           /\ Run(SimplifiedChinese, prefix) = PinyinRun(prefix)
BY DEF Run, Spellings, words_by_prefix, PinyinRun, English, SimplifiedChinese

\* The first entry of the run is a candidate, so pinyin matches are counted
\* as none exactly when there are none.
LEMMA CountIsOfRun ==
    ASSUME NEW language \in Languages, NEW prefix
    PROVE  /\ prefix_match_count_for(language, prefix) \in Nat
           /\ prefix_match_count_for(language, prefix) > 0 <=> Run(language, prefix) # {}
<1>1. CASE language = English
  <2>1. prefix_match_count_for(language, prefix) = Cardinality(Run(language, prefix))
      BY <1>1, RunOf DEF prefix_match_count_for, English, SimplifiedChinese
  <2> QED
      BY <2>1, RunFinite, FS_CardinalityType, FS_EmptySet
<1>2. CASE language = SimplifiedChinese
  <2> DEFINE D == DistinctEntries(prefix)
  <2>1. prefix_match_count_for(language, prefix) = Cardinality(D)
      BY <1>2 DEF prefix_match_count_for, PinyinCount, English, SimplifiedChinese
  <2>2. Run(language, prefix) = PinyinRun(prefix)
      BY <1>2, RunOf
  <2>3. D \subseteq PinyinRun(prefix)
      BY DEF DistinctEntries
  <2>4. IsFiniteSet(D)
      BY <2>2, <2>3, RunFinite, FS_Subset
  <2>5. ASSUME PinyinRun(prefix) # {}
        PROVE  D # {}
    <3>1. PinyinRun(prefix) \subseteq Nat
        BY <2>2, RunFinite
    <3>2. PICK p \in PinyinRun(prefix) : \A q \in PinyinRun(prefix) : p <= q
        BY <2>5, <3>1, LeastNatural
    <3>3. p \in D
        BY <3>1, <3>2 DEF DistinctEntries
    <3> QED
        BY <3>3
  <2> HIDE DEF D
  <2> QED
      BY <2>1, <2>2, <2>3, <2>4, <2>5, FS_CardinalityType, FS_EmptySet
<1> QED
    BY <1>1, <1>2 DEF Languages
\* What is left of a sequence without its last element.
LEMMA DropLast ==
    ASSUME NEW S, NEW q \in Seq(S), q # <<>>
    PROVE  /\ SubSeq(q, 1, Len(q) - 1) \in Seq(S)
           /\ Len(SubSeq(q, 1, Len(q) - 1)) = Len(q) - 1
           /\ \A i \in 1 .. Len(q) - 1 : SubSeq(q, 1, Len(q) - 1)[i] = q[i]
<1>1. Len(q) \in Nat /\ Len(q) # 0
    OBVIOUS
<1>2. 1 \in Int /\ Len(q) - 1 \in Int
    BY <1>1
<1>3. \A i \in 1 .. Len(q) - 1 : q[i] \in S
    BY <1>1
<1>4. /\ SubSeq(q, 1, Len(q) - 1) \in Seq(S)
      /\ Len(SubSeq(q, 1, Len(q) - 1)) =
             IF 1 <= Len(q) - 1 THEN (Len(q) - 1) - 1 + 1 ELSE 0
      /\ \A i \in 1 .. (Len(q) - 1) - 1 + 1 :
             SubSeq(q, 1, Len(q) - 1)[i] = q[1 + i - 1]
  <2> DEFINE n == Len(q) - 1
  <2>1. n \in Int /\ 1 \in Int /\ \A i \in 1 .. n : q[i] \in S
      BY <1>2, <1>3
  <2> HIDE DEF n
  <2>2. /\ SubSeq(q, 1, n) \in Seq(S)
        /\ Len(SubSeq(q, 1, n)) = IF 1 <= n THEN n - 1 + 1 ELSE 0
        /\ \A i \in 1 .. n - 1 + 1 : SubSeq(q, 1, n)[i] = q[1 + i - 1]
      BY ONLY <2>1, SubSeqProperties
  <2> QED
      BY <2>2 DEF n
<1>5. (Len(q) - 1) - 1 + 1 = Len(q) - 1 /\ \A i \in 1 .. Len(q) - 1 : 1 + i - 1 = i
    BY <1>1
<1> QED
    BY <1>1, <1>4, <1>5

\* Whatever begins with a prefix begins with every shorter one: a backspace
\* never loses the last match.
LEMMA ShorterPrefixMatches ==
    ASSUME NEW language \in Languages, NEW prefix \in Seq(Letters), prefix # <<>>,
           prefix_match_count_for(language, prefix) > 0
    PROVE  prefix_match_count_for(language, SubSeq(prefix, 1, Len(prefix) - 1)) > 0
<1> DEFINE shorter == SubSeq(prefix, 1, Len(prefix) - 1)
<1> DEFINE list == Spellings(language)
<1>1. /\ shorter \in Seq(Letters)
      /\ Len(shorter) = Len(prefix) - 1
      /\ \A i \in 1 .. Len(shorter) : shorter[i] = prefix[i]
    BY DropLast
<1>2. PICK i \in DOMAIN list : StartsWith(list[i], prefix)
    BY CountIsOfRun, SearchFindsEveryWord DEF Beginning
<1>3. list[i] \in Seq(Letters)
    BY <1>2, SpellingsType
<1> HIDE DEF shorter, list
<1>4. StartsWith(list[i], shorter)
  <2>1. /\ Len(prefix) <= Len(list[i])
        /\ \A j \in 1 .. Len(prefix) : prefix[j] = list[i][j]
      BY <1>2, <1>3, StartsWithLetters
  <2> QED
      BY <1>1, <1>3, <2>1, StartsWithLetters
<1>5. i \in Beginning(language, shorter)
    BY <1>2, <1>4 DEF Beginning, list
<1> QED
    BY <1>1, <1>5, CountIsOfRun, SearchFindsEveryWord DEF shorter

\* The letters read off the matches of a prefix are the letters that may be
\* appended to it.
THEOREM NextLettersExtend ==
    ASSUME NEW language \in Languages, NEW prefix \in Seq(Letters)
    PROVE  NextLetters(language, prefix) =
               {letter \in Letters :
                   prefix_match_count_for(language, Append(prefix, letter)) > 0}
<1> DEFINE list == Spellings(language)
<1> DEFINE longer(letter) == Append(prefix, letter)
<1>1. NextLetters(language, prefix) = FollowingLetters(list, prefix)
    BY DEF NextLetters, Spellings, Languages, English, SimplifiedChinese
<1>2. FollowingLetters(list, prefix) =
          {list[i][Len(prefix) + 1] :
              i \in {j \in Beginning(language, prefix) : Len(list[j]) > Len(prefix)}}
    BY SearchFindsEveryWord DEF FollowingLetters, Run
<1>3. \A i \in DOMAIN list : list[i] \in Seq(Letters)
    BY SpellingsType
<1>4. \A letter \in Letters :
          /\ longer(letter) \in Seq(Letters)
          /\ Len(longer(letter)) = Len(prefix) + 1
          /\ longer(letter)[Len(prefix) + 1] = letter
          /\ \A j \in 1 .. Len(prefix) : longer(letter)[j] = prefix[j]
    OBVIOUS
<1> HIDE DEF longer, list
<1>5. ASSUME NEW letter \in Letters, NEW i \in DOMAIN list
      PROVE  StartsWith(list[i], longer(letter)) <=>
                 /\ StartsWith(list[i], prefix)
                 /\ Len(list[i]) > Len(prefix)
                 /\ list[i][Len(prefix) + 1] = letter
  <2>1. /\ Len(list[i]) \in Nat /\ Len(prefix) \in Nat
        /\ list[i] \in Seq(Letters)
      BY <1>3
  <2>2. StartsWith(list[i], longer(letter)) <=>
            /\ Len(prefix) + 1 <= Len(list[i])
            /\ \A j \in 1 .. Len(prefix) + 1 : longer(letter)[j] = list[i][j]
      BY <1>4, <2>1, StartsWithLetters
  <2>3. StartsWith(list[i], prefix) <=>
            /\ Len(prefix) <= Len(list[i])
            /\ \A j \in 1 .. Len(prefix) : prefix[j] = list[i][j]
      BY <2>1, StartsWithLetters
  <2>4. (\A j \in 1 .. Len(prefix) + 1 : longer(letter)[j] = list[i][j]) <=>
            /\ \A j \in 1 .. Len(prefix) : prefix[j] = list[i][j]
            /\ letter = list[i][Len(prefix) + 1]
    <3>1. \A j \in 1 .. Len(prefix) + 1 : j \in 1 .. Len(prefix) \/ j = Len(prefix) + 1
        BY <2>1
    <3>2. /\ Len(prefix) + 1 \in 1 .. Len(prefix) + 1
          /\ \A j \in 1 .. Len(prefix) : j \in 1 .. Len(prefix) + 1
        BY <2>1
    <3> QED
        BY <1>4, <3>1, <3>2
  <2>5. Len(prefix) + 1 <= Len(list[i]) <=> Len(list[i]) > Len(prefix)
      BY <2>1
  <2>6. Len(list[i]) > Len(prefix) => Len(prefix) <= Len(list[i])
      BY <2>1
  <2> QED
      BY <2>2, <2>3, <2>4, <2>5, <2>6
<1>6. ASSUME NEW letter \in Letters
      PROVE  prefix_match_count_for(language, longer(letter)) > 0 <=>
                 \E i \in DOMAIN list : StartsWith(list[i], longer(letter))
    BY <1>4, CountIsOfRun, SearchFindsEveryWord DEF Beginning, list
<1>7. \A i \in Beginning(language, prefix) :
          Len(list[i]) > Len(prefix) => list[i][Len(prefix) + 1] \in Letters
    BY <1>3 DEF Beginning, list
<1> QED
    BY <1>1, <1>2, <1>5, <1>6, <1>7 DEF Beginning, list, longer
-----------------------------------------------------------------------------
LEMMA WordIndexType ==
    ASSUME NEW word
    PROVE  word_index(word) \in WordIndices \cup {NoIndex}
<1>1. CASE \E i \in DOMAIN EnglishWords : EnglishWords[i] = word
  <2>1. (CHOOSE i \in DOMAIN EnglishWords : EnglishWords[i] = word) \in 1 .. WordListSize
      BY <1>1, WordListAssumption
  <2>2. \A n \in 1 .. WordListSize : n - 1 \in WordIndices
      BY WordListAssumption DEF WordIndices
  <2>3. word_index(word) = (CHOOSE i \in DOMAIN EnglishWords : EnglishWords[i] = word) - 1
      BY <1>1 DEF word_index
  <2> QED
      BY <2>1, <2>2, <2>3
<1>2. CASE ~\E i \in DOMAIN EnglishWords : EnglishWords[i] = word
    BY <1>2 DEF word_index
<1> QED
    BY <1>1, <1>2

LEMMA WordIndexOfWord ==
    ASSUME NEW i \in DOMAIN EnglishWords
    PROVE  word_index(EnglishWords[i]) # NoIndex
<1> DEFINE found == CHOOSE j \in DOMAIN EnglishWords : EnglishWords[j] = EnglishWords[i]
<1>1. found \in 1 .. WordListSize
    BY WordListAssumption
<1>2. word_index(EnglishWords[i]) = found - 1
    BY DEF word_index
<1> HIDE DEF found
<1> QED
    BY <1>1, <1>2, WordListAssumption DEF NoIndex

LEMMA EntryIndexType ==
    \A p \in DOMAIN PinyinEntries : PinyinEntries[p].index \in WordIndices
<1>1. \A p \in DOMAIN PinyinEntries :
          PinyinEntries[p] \in [spelling : Seq(Letters), index : WordIndices]
  <2>1. \A S : \A q \in Seq(S) : \A p \in DOMAIN q : q[p] \in S
      OBVIOUS
  <2> QED
      BY <2>1, WordListAssumption
<1>2. \A e \in [spelling : Seq(Letters), index : WordIndices] : e.index \in WordIndices
    OBVIOUS
<1> QED
    BY <1>1, <1>2

LEMMA WordIndexAtType ==
    ASSUME NEW prefix, NEW position
    PROVE  word_index_at(prefix, position) \in WordIndices \cup {NoIndex}
<1> DEFINE Candidates == {p \in DistinctEntries(prefix) : CandidateAt(prefix, p, position)}
<1> DEFINE chosen == CHOOSE p \in DistinctEntries(prefix) : CandidateAt(prefix, p, position)
<1>1. DistinctEntries(prefix) \subseteq DOMAIN PinyinEntries
    BY DEF DistinctEntries, PinyinRun, MatchRun, PinyinSpellings
<1>2. CASE \E p \in DistinctEntries(prefix) : CandidateAt(prefix, p, position)
  <2>1. chosen \in DistinctEntries(prefix)
      BY <1>2
  <2>2. word_index_at(prefix, position) = PinyinEntries[chosen].index
      BY <1>2 DEF word_index_at
  <2> HIDE DEF chosen
  <2> QED
      BY <1>1, <2>1, <2>2, EntryIndexType
<1>3. CASE ~\E p \in DistinctEntries(prefix) : CandidateAt(prefix, p, position)
    BY <1>3 DEF word_index_at
<1> QED
    BY <1>2, <1>3

\* The first candidate exists as soon as there is one.
LEMMA FirstCandidate ==
    ASSUME NEW prefix, PinyinCount(prefix) # 0
    PROVE  word_index_at(prefix, 0) # NoIndex
<1> DEFINE D == DistinctEntries(prefix)
<1> DEFINE chosen == CHOOSE p \in D : CandidateAt(prefix, p, 0)
<1>1. /\ D \subseteq DOMAIN PinyinEntries
      /\ D \subseteq PinyinRun(prefix)
    BY DEF DistinctEntries, PinyinRun, MatchRun, PinyinSpellings
<1>2. PinyinRun(prefix) \subseteq Nat
    BY RunOf, RunFinite DEF Languages
<1>3. D # {}
    BY FS_EmptySet DEF PinyinCount
<1>4. PICK p \in D : \A q \in D : p <= q
  <2> HIDE DEF D
  <2> QED
      BY <1>1, <1>2, <1>3, LeastNatural
<1>5. {q \in D : q < p} = {}
  <2> HIDE DEF D
  <2> QED
      BY <1>1, <1>2, <1>4
<1>6. CandidateAt(prefix, p, 0)
    BY <1>4, <1>5, FS_EmptySet DEF CandidateAt
<1>7. chosen \in D /\ word_index_at(prefix, 0) = PinyinEntries[chosen].index
    BY <1>4, <1>6 DEF word_index_at
<1> HIDE DEF chosen, D
<1>8. PinyinEntries[chosen].index \in WordIndices
    BY <1>1, <1>7, EntryIndexType
<1> QED
    BY <1>7, <1>8 DEF WordIndices, NoIndex

\* A prefix stands for a word of the list or for none, and a prefix with one
\* match always stands for it.
LEMMA IndexForPrefixIsAWord ==
    ASSUME NEW language \in Languages, NEW prefix
    PROVE  /\ IndexForPrefix(language, prefix) \in WordIndices \cup {NoIndex}
           /\ IndexForPrefix(language, prefix) = NoIndex =>
                  prefix_match_count_for(language, prefix) # 1
<1>1. CASE language = English
  <2>1. CASE word_index(prefix) # NoIndex
    <3>1. IndexForPrefix(language, prefix) = word_index(prefix)
        BY <1>1, <2>1 DEF IndexForPrefix, English, SimplifiedChinese
    <3> QED
        BY <2>1, <3>1, WordIndexType
  <2>2. CASE word_index(prefix) = NoIndex /\ Cardinality(words_by_prefix(prefix)) = 1
    <3>1. IndexForPrefix(language, prefix) = word_index(EnglishWords[OnlyMatch(prefix)])
        BY <1>1, <2>2 DEF IndexForPrefix, English, SimplifiedChinese
    <3>2. words_by_prefix(prefix) # {}
        BY <2>2, FS_EmptySet
    <3>3. OnlyMatch(prefix) \in words_by_prefix(prefix)
        BY <3>2 DEF OnlyMatch
    <3>4. OnlyMatch(prefix) \in DOMAIN EnglishWords
        BY <3>3 DEF words_by_prefix, MatchRun
    <3>5. word_index(EnglishWords[OnlyMatch(prefix)]) # NoIndex
        BY <3>4, WordIndexOfWord
    <3> QED
        BY <3>1, <3>5, WordIndexType
  <2>3. CASE word_index(prefix) = NoIndex /\ Cardinality(words_by_prefix(prefix)) # 1
    <3>1. IndexForPrefix(language, prefix) = NoIndex
        BY <1>1, <2>3 DEF IndexForPrefix, English, SimplifiedChinese
    <3>2. prefix_match_count_for(language, prefix) = Cardinality(words_by_prefix(prefix))
        BY <1>1 DEF prefix_match_count_for, English, SimplifiedChinese
    <3> QED
        BY <2>3, <3>1, <3>2
  <2> QED
      BY <2>1, <2>2, <2>3
<1>2. CASE language = SimplifiedChinese
  <2>1. IndexForPrefix(language, prefix) =
            IF PinyinCount(prefix) = 1 THEN word_index_at(prefix, 0) ELSE NoIndex
      BY <1>2 DEF IndexForPrefix, English, SimplifiedChinese
  <2>2. prefix_match_count_for(language, prefix) = PinyinCount(prefix)
      BY <1>2 DEF prefix_match_count_for, English, SimplifiedChinese
  <2> QED
      BY <2>1, <2>2, FirstCandidate, WordIndexAtType
<1> QED
    BY <1>1, <1>2 DEF Languages
-----------------------------------------------------------------------------
(***************************************************************************)
(* The pinyin candidates                                                   *)
(***************************************************************************)
Below(prefix, p) == {q \in DistinctEntries(prefix) : q < p}

\* How many candidates come before an entry.
Rank(prefix) == [p \in DistinctEntries(prefix) |-> Cardinality(Below(prefix, p))]

LEMMA DistinctFinite ==
    ASSUME NEW prefix
    PROVE  /\ IsFiniteSet(DistinctEntries(prefix))
           /\ DistinctEntries(prefix) \subseteq PinyinRun(prefix)
           /\ PinyinRun(prefix) \subseteq Nat
           /\ PinyinRun(prefix) \subseteq DOMAIN PinyinEntries
           /\ PinyinCount(prefix) \in Nat
<1>1. IsFiniteSet(PinyinRun(prefix)) /\ PinyinRun(prefix) \subseteq Nat
    BY RunOf, RunFinite DEF Languages
<1>2. DistinctEntries(prefix) \subseteq PinyinRun(prefix)
    BY DEF DistinctEntries
<1>3. PinyinRun(prefix) \subseteq DOMAIN PinyinEntries
    BY DEF PinyinRun, MatchRun, PinyinSpellings
<1>4. IsFiniteSet(DistinctEntries(prefix))
    BY <1>1, <1>2, FS_Subset
<1> QED
    BY <1>1, <1>2, <1>3, <1>4, FS_CardinalityType DEF PinyinCount

\* The ranks of the candidates are the numbers from zero, each once.
LEMMA RanksAreDense ==
    ASSUME NEW prefix
    PROVE  Rank(prefix) \in Bijection(DistinctEntries(prefix), 0 .. PinyinCount(prefix) - 1)
<1> DEFINE D == DistinctEntries(prefix)
<1> DEFINE B(p) == Below(prefix, p)
<1> DEFINE n == PinyinCount(prefix)
<1>1. IsFiniteSet(D) /\ D \subseteq Nat /\ n \in Nat /\ n = Cardinality(D)
    BY DistinctFinite DEF PinyinCount
<1>2. \A p \in D : B(p) = {q \in D : q < p} /\ Rank(prefix)[p] = Cardinality(B(p))
    BY DEF Below, Rank
<1>3. DOMAIN Rank(prefix) = D /\ Rank(prefix) = [p \in D |-> Rank(prefix)[p]]
    BY DEF Rank
<1> HIDE DEF D, B, n
<1>4. ASSUME NEW p \in D
      PROVE  IsFiniteSet(B(p)) /\ Cardinality(B(p)) \in 0 .. n - 1
  <2>1. B(p) \subseteq D \ {p}
      BY <1>1, <1>2
  <2>2. IsFiniteSet(D \ {p}) /\ Cardinality(D \ {p}) = n - 1
      BY <1>1, FS_RemoveElement
  <2>3. IsFiniteSet(B(p)) /\ Cardinality(B(p)) <= n - 1
      BY <2>1, <2>2, FS_Subset
  <2>4. Cardinality(B(p)) \in Nat
      BY <2>3, FS_CardinalityType
  <2> QED
      BY <1>1, <2>3, <2>4
<1>5. ASSUME NEW p \in D, NEW q \in D, p < q
      PROVE  Cardinality(B(p)) < Cardinality(B(q))
  <2>1. B(p) \cup {p} \subseteq B(q) /\ p \notin B(p)
    <3>1. B(p) = {r \in D : r < p} /\ B(q) = {r \in D : r < q}
        BY <1>2
    <3>2. \A r \in D : r < p => r < q
        BY <1>1, <1>5
    <3>3. ~(p < p)
        BY <1>1
    <3> QED
        BY <1>5, <3>1, <3>2, <3>3
  <2>2. Cardinality(B(p) \cup {p}) = Cardinality(B(p)) + 1
      BY <1>4, <2>1, FS_AddElement
  <2>3. Cardinality(B(p) \cup {p}) <= Cardinality(B(q))
      BY <1>4, <2>1, FS_Subset
  <2>4. Cardinality(B(p)) \in Nat /\ Cardinality(B(q)) \in Nat
      BY <1>4
  <2> QED
      BY <2>2, <2>3, <2>4
<1>6. Rank(prefix) \in [D -> 0 .. n - 1]
    BY <1>2, <1>3, <1>4
<1>7. \A p, q \in D : Rank(prefix)[p] = Rank(prefix)[q] => p = q
  <2>1. ASSUME NEW p \in D, NEW q \in D, p # q
        PROVE  Cardinality(B(p)) # Cardinality(B(q))
    <3>1. p < q \/ q < p
        BY <1>1, <2>1
    <3>2. Cardinality(B(p)) \in Int /\ Cardinality(B(q)) \in Int
        BY <1>4
    <3> QED
        BY <1>5, <3>1, <3>2
  <2> QED
      BY <1>2, <2>1
<1>8. Rank(prefix) \in Injection(D, 0 .. n - 1)
    BY <1>6, <1>7 DEF Injection, IsInjective
<1>9. IsFiniteSet(0 .. n - 1) /\ Cardinality(0 .. n - 1) = n
  <2>1. 0 \in Int /\ n - 1 \in Int
      BY <1>1
  <2>2. /\ IsFiniteSet(0 .. n - 1)
        /\ Cardinality(0 .. n - 1) = IF 0 > n - 1 THEN 0 ELSE (n - 1) - 0 + 1
      BY ONLY <2>1, FS_Interval
  <2> QED
      BY <1>1, <2>2
<1>10. Rank(prefix) \in Surjection(D, 0 .. n - 1)
    BY <1>1, <1>8, <1>9, FS_Injection
<1> QED
    BY <1>8, <1>10 DEF Bijection, D, n

\* What the walk over the entries finds at a position.
LEMMA CandidateFound ==
    ASSUME NEW prefix, NEW position \in Nat
    PROVE  /\ position < PinyinCount(prefix) =>
                  \E p \in DistinctEntries(prefix) :
                      /\ Rank(prefix)[p] = position
                      /\ word_index_at(prefix, position) = PinyinEntries[p].index
           /\ position >= PinyinCount(prefix) => word_index_at(prefix, position) = NoIndex
<1> DEFINE D == DistinctEntries(prefix)
<1> DEFINE n == PinyinCount(prefix)
<1> DEFINE chosen == CHOOSE p \in D : CandidateAt(prefix, p, position)
<1>1. \A p \in D : CandidateAt(prefix, p, position) <=> Rank(prefix)[p] = position
    BY DEF CandidateAt, Rank, Below
<1>2. /\ \A p \in D : Rank(prefix)[p] \in 0 .. n - 1
      /\ \A k \in 0 .. n - 1 : \E p \in D : Rank(prefix)[p] = k
    BY RanksAreDense DEF Bijection, Injection, Surjection
<1>3. n \in Nat
    BY DistinctFinite
<1>4. (\E p \in D : CandidateAt(prefix, p, position)) =>
          /\ chosen \in D
          /\ CandidateAt(prefix, chosen, position)
          /\ word_index_at(prefix, position) = PinyinEntries[chosen].index
    BY DEF word_index_at
<1>5. (~\E p \in D : CandidateAt(prefix, p, position)) =>
          word_index_at(prefix, position) = NoIndex
    BY DEF word_index_at
<1> HIDE DEF D, n, chosen
<1>6. ASSUME position < n
      PROVE  \E p \in D : /\ Rank(prefix)[p] = position
                           /\ word_index_at(prefix, position) = PinyinEntries[p].index
  <2>1. position \in 0 .. n - 1
      BY <1>3, <1>6
  <2> QED
      BY <1>1, <1>2, <1>4, <2>1
<1>7. ASSUME position >= n
      PROVE  word_index_at(prefix, position) = NoIndex
  <2>1. \A p \in D : Rank(prefix)[p] # position
      BY <1>2, <1>3, <1>7
  <2> QED
      BY <1>1, <1>5, <2>1
<1> QED
    BY <1>6, <1>7 DEF D, n

\* The first entry of a character is its candidate.
LEMMA EveryEntryIsListed ==
    ASSUME NEW prefix, NEW r \in PinyinRun(prefix)
    PROVE  \E p \in DistinctEntries(prefix) : PinyinEntries[p].index = PinyinEntries[r].index
<1> DEFINE Same == {p \in PinyinRun(prefix) : PinyinEntries[p].index = PinyinEntries[r].index}
<1>1. Same # {} /\ Same \subseteq Nat
    BY DistinctFinite
<1>2. PICK p \in Same : \A q \in Same : p <= q
    BY <1>1, LeastNatural
<1>3. p \in DistinctEntries(prefix)
    BY <1>1, <1>2, DistinctFinite DEF DistinctEntries
<1> QED
    BY <1>2, <1>3

\* The candidates of a pinyin prefix (simplified_chinese_words_by_pinyin_prefix)
\* fill the positions below len() and no other, no character is found at two of
\* them however many pronunciations it has, and together they are the characters
\* with a pronunciation that starts with the prefix: none is left out because the
\* search stops early or because its first entry lies elsewhere in the table.
THEOREM CandidatesAreTheMatches ==
    ASSUME NEW prefix \in Seq(Letters)
    PROVE  /\ PinyinCount(prefix) \in Nat
           /\ \A position \in Nat :
                  word_index_at(prefix, position) # NoIndex <=> position < PinyinCount(prefix)
           /\ \A position, other \in 0 .. PinyinCount(prefix) - 1 :
                  word_index_at(prefix, position) = word_index_at(prefix, other) =>
                      position = other
           /\ {word_index_at(prefix, position) : position \in 0 .. PinyinCount(prefix) - 1} =
                  {PinyinEntries[p].index :
                      p \in {e \in DOMAIN PinyinEntries :
                               StartsWith(PinyinEntries[e].spelling, prefix)}}
<1> DEFINE D == DistinctEntries(prefix)
<1> DEFINE n == PinyinCount(prefix)
<1> DEFINE at(position) == word_index_at(prefix, position)
<1>1. /\ n \in Nat /\ D \subseteq PinyinRun(prefix)
      /\ D \subseteq Nat /\ D \subseteq DOMAIN PinyinEntries
    BY DistinctFinite
<1>2. \A position \in 0 .. n - 1 :
          \E p \in D : Rank(prefix)[p] = position /\ at(position) = PinyinEntries[p].index
    BY <1>1, CandidateFound
<1>3. \A position \in Nat : position >= n => at(position) = NoIndex
    BY CandidateFound
<1>4. \A p \in DOMAIN PinyinEntries : PinyinEntries[p].index # NoIndex
    BY EntryIndexType DEF WordIndices, NoIndex
<1>5. \A p, q \in D : PinyinEntries[p].index = PinyinEntries[q].index => p = q
  <2>1. \A p, q \in D : q < p => PinyinEntries[q].index # PinyinEntries[p].index
      BY DEF DistinctEntries
  <2> HIDE DEF D
  <2>2. \A p, q \in D : p = q \/ p < q \/ q < p
      BY <1>1
  <2> QED
      BY <2>1, <2>2
<1>6. /\ \A p \in D : Rank(prefix)[p] \in 0 .. n - 1
    BY RanksAreDense DEF Bijection, Injection
<1>7. \A r \in PinyinRun(prefix) : \E p \in D : PinyinEntries[p].index = PinyinEntries[r].index
    BY EveryEntryIsListed
<1>8. PinyinRun(prefix) =
          {e \in DOMAIN PinyinEntries : StartsWith(PinyinEntries[e].spelling, prefix)}
  <2>1. PinyinRun(prefix) =
            {i \in DOMAIN PinyinSpellings : StartsWith(PinyinSpellings[i], prefix)}
      BY RunOf, SearchFindsEveryWord
      DEF Beginning, Spellings, Languages, English, SimplifiedChinese
  <2>2. /\ DOMAIN PinyinSpellings = DOMAIN PinyinEntries
        /\ \A i \in DOMAIN PinyinEntries : PinyinSpellings[i] = PinyinEntries[i].spelling
      BY DEF PinyinSpellings
  <2> QED
      BY <2>1, <2>2
<1> HIDE DEF D, n, at
<1>9. \A position \in Nat : at(position) # NoIndex <=> position < n
  <2>1. \A position \in Nat : position < n => position \in 0 .. n - 1
      BY <1>1
  <2>2. \A position \in Nat : position < n => at(position) # NoIndex
      BY <1>1, <1>2, <1>4, <2>1
  <2>3. \A position \in Nat : position < n \/ position >= n
      BY <1>1
  <2> QED
      BY <1>3, <2>2, <2>3
<1>10. \A position, other \in 0 .. n - 1 : at(position) = at(other) => position = other
    BY <1>2, <1>5
<1>11. {at(position) : position \in 0 .. n - 1} =
           {PinyinEntries[p].index : p \in PinyinRun(prefix)}
  <2>1. \A position \in 0 .. n - 1 :
            \E p \in PinyinRun(prefix) : at(position) = PinyinEntries[p].index
      BY <1>1, <1>2
  <2>2. ASSUME NEW r \in PinyinRun(prefix)
        PROVE  \E position \in 0 .. n - 1 : at(position) = PinyinEntries[r].index
    <3>1. PICK p \in D : PinyinEntries[p].index = PinyinEntries[r].index
        BY <1>7
    <3>2. Rank(prefix)[p] \in 0 .. n - 1
        BY <1>6
    <3>3. PICK q \in D : /\ Rank(prefix)[q] = Rank(prefix)[p]
                         /\ at(Rank(prefix)[p]) = PinyinEntries[q].index
        BY <1>2, <3>2
    <3>4. q = p
        BY <3>3, RanksAreDense DEF Bijection, Injection, IsInjective, D
    <3> QED
        BY <3>1, <3>2, <3>3, <3>4
  <2> QED
      BY <2>1, <2>2
<1> QED
    BY <1>1, <1>8, <1>9, <1>10, <1>11 DEF n, at
=============================================================================
