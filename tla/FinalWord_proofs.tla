-------------------------- MODULE FinalWord_proofs --------------------------
(***************************************************************************)
(* Proofs about FinalWord, for all numbers of words, bits and bytes.  The  *)
(* numbers are computed by recursion, so the proofs need induction: over a *)
(* set of numbers, since every nonempty set of naturals has a least        *)
(* element (WFMin of the library).                                         *)
(***************************************************************************)
EXTENDS FinalWord, FiniteSetTheorems, WellFoundedInduction, TLAPS

-----------------------------------------------------------------------------
(***************************************************************************)
(* Induction and recursion on the natural numbers.                         *)
(***************************************************************************)
Smaller == {pair \in Nat \X Nat : pair[1] < pair[2]}

LEMMA SmallerIsWellFounded == IsWellFoundedOn(Smaller, Nat)
BY NatLessThanWellFounded DEF OpToRel, Smaller

\* A set with 0 and every successor of its members has all natural numbers.
LEMMA Induction ==
    ASSUME NEW S, 0 \in S, \A n \in Nat : n \in S => n + 1 \in S
    PROVE  Nat \subseteq S
<1>1. SUFFICES ASSUME Nat \ S # {} PROVE FALSE
  OBVIOUS
<1>2. PICK m \in Nat \ S : \A k \in Nat \ S : <<k, m>> \notin Smaller
  <2>1. Nat \ S \subseteq Nat
    OBVIOUS
  <2> QED
    BY WFMin, SmallerIsWellFounded, <1>1, <2>1
<1>3. m - 1 \in Nat /\ <<m - 1, m>> \in Smaller
  BY <1>2 DEF Smaller
<1> QED
  BY <1>2, <1>3

\* f is computed up to n, from a start and a step to each number.
Follows(f, n, start, step) ==
    f[0] = start /\ \A k \in 1 .. n : f[k] = step[k][f[k - 1]]

LEMMA ComputedOnce ==
    ASSUME NEW f, NEW g, NEW m \in Nat, NEW n \in Nat, m <= n, NEW start, NEW step,
           Follows(f, m, start, step), Follows(g, n, start, step)
    PROVE  \A k \in 0 .. m : f[k] = g[k]
<1> DEFINE S == {k \in Nat : k <= m => f[k] = g[k]}
<1>1. 0 \in S
  BY DEF Follows
<1>2. ASSUME NEW k \in Nat, k \in S PROVE k + 1 \in S
  <2> SUFFICES ASSUME k + 1 <= m PROVE f[k + 1] = g[k + 1]
    OBVIOUS
  <2>1. f[k] = g[k] /\ (k + 1) - 1 = k /\ k + 1 \in 1 .. m /\ k + 1 \in 1 .. n
    BY <1>2
  <2>2. f[k + 1] = step[k + 1][f[k]] /\ g[k + 1] = step[k + 1][g[k]]
    BY <2>1 DEF Follows
  <2> QED
    BY <2>1, <2>2
<1> HIDE DEF S
<1>3. Nat \subseteq S
  BY <1>1, <1>2, Induction
<1> QED
  BY <1>3 DEF S

LEMMA ComputedUpTo ==
    ASSUME NEW V, NEW m \in Nat, NEW start \in V, NEW step \in [1 .. m -> [V -> V]]
    PROVE  \E f \in [0 .. m -> V] : Follows(f, m, start, step)
<1> DEFINE S == {k \in Nat : k <= m => \E f \in [0 .. k -> V] : Follows(f, k, start, step)}
<1>1. 0 \in S
  <2>1. Follows([n \in 0 .. 0 |-> start], 0, start, step)
    BY DEF Follows
  <2> QED
    BY <2>1
<1>2. ASSUME NEW k \in Nat, k \in S PROVE k + 1 \in S
  <2> SUFFICES ASSUME k + 1 <= m
               PROVE  \E f \in [0 .. k + 1 -> V] : Follows(f, k + 1, start, step)
    OBVIOUS
  <2>1. PICK f \in [0 .. k -> V] : Follows(f, k, start, step)
    BY <1>2
  <2> DEFINE g == [n \in 0 .. k + 1 |-> IF n <= k THEN f[n] ELSE step[k + 1][f[k]]]
  <2>2. g \in [0 .. k + 1 -> V]
    BY <2>1
  <2>3. g[0] = start
    BY <2>1 DEF Follows
  <2>4. ASSUME NEW n \in 1 .. k + 1 PROVE g[n] = step[n][g[n - 1]]
    <3>1. g[n - 1] = f[n - 1]
      OBVIOUS
    <3>2. CASE n <= k
      BY <2>1, <3>1, <3>2 DEF Follows
    <3>3. CASE n = k + 1
      BY <3>1, <3>3
    <3> QED
      BY <3>2, <3>3
  <2> QED
    BY <2>2, <2>3, <2>4 DEF Follows
<1> HIDE DEF S
<1>3. m \in S
  BY <1>1, <1>2, Induction
<1> QED
  BY <1>3 DEF S

\* The same for a computation that does not end.
LEMMA ComputedForAll ==
    ASSUME NEW V, NEW start \in V, NEW step \in [Nat \ {0} -> [V -> V]]
    PROVE  \E f \in [Nat -> V] : \A n \in Nat : Follows(f, n, start, step)
<1> DEFINE upto(n) == CHOOSE f \in [0 .. n -> V] : Follows(f, n, start, step)
           f == [n \in Nat |-> upto(n)[n]]
<1>1. ASSUME NEW n \in Nat PROVE upto(n) \in [0 .. n -> V] /\ Follows(upto(n), n, start, step)
  <2> DEFINE first == [k \in 1 .. n |-> step[k]]
  <2>1. first \in [1 .. n -> [V -> V]]
    OBVIOUS
  <2>2. PICK h \in [0 .. n -> V] : Follows(h, n, start, first)
    BY <2>1, ComputedUpTo
  <2>3. Follows(h, n, start, step)
    BY <2>2 DEF Follows
  <2> QED
    BY <2>3, Zenon
<1> HIDE DEF upto
<1>2. f \in [Nat -> V] /\ f[0] = start
  BY <1>1 DEF Follows
<1>3. ASSUME NEW k \in Nat \ {0} PROVE f[k] = step[k][f[k - 1]]
  <2>1. k - 1 \in Nat /\ k - 1 <= k
    OBVIOUS
  <2>2. upto(k - 1)[k - 1] = upto(k)[k - 1]
    BY <1>1, <2>1, ComputedOnce
  <2>3. upto(k)[k] = step[k][upto(k)[k - 1]]
    BY <1>1 DEF Follows
  <2> QED
    BY <2>1, <2>2, <2>3
<1> HIDE DEF f
<1>4. \A n \in Nat : Follows(f, n, start, step)
  BY <1>2, <1>3 DEF Follows
<1> QED
  BY <1>2, <1>4

-----------------------------------------------------------------------------
(***************************************************************************)
(* The recursive functions of FinalWord.                                   *)
(***************************************************************************)
LEMMA PowersComputed ==
    ASSUME NEW base \in Nat
    PROVE  /\ Powers(base) \in [Nat -> Nat]
           /\ Powers(base)[0] = 1
           /\ \A n \in Nat : Powers(base)[n + 1] = Powers(base)[n] * base
<1> DEFINE power[n \in Nat] == IF n = 0 THEN 1 ELSE power[n - 1] * base
           step == [n \in Nat \ {0} |-> [v \in Nat |-> v * base]]
<1>1. PICK f \in [Nat -> Nat] : \A n \in Nat : Follows(f, n, 1, step)
  <2>1. step \in [Nat \ {0} -> [Nat -> Nat]]
    OBVIOUS
  <2> HIDE DEF step
  <2> QED
    BY <2>1, ComputedForAll
<1>2. f = [n \in Nat |-> IF n = 0 THEN 1 ELSE f[n - 1] * base]
  <2> SUFFICES ASSUME NEW n \in Nat PROVE f[n] = IF n = 0 THEN 1 ELSE f[n - 1] * base
    OBVIOUS
  <2>1. CASE n = 0
    BY <1>1, <2>1 DEF Follows
  <2>2. CASE n # 0
    <3> HIDE DEF step
    <3>1. f[n] = step[n][f[n - 1]] /\ f[n - 1] \in Nat
      BY <1>1, <2>2 DEF Follows
    <3> QED
      BY <2>2, <3>1 DEF step
  <2> QED
    BY <2>1, <2>2
<1>3. power = [n \in Nat |-> IF n = 0 THEN 1 ELSE power[n - 1] * base]
  BY <1>2, Zenon
<1>4. Powers(base) = power
  BY DEF Powers
<1> HIDE DEF power
<1> DEFINE S == {n \in Nat : power[n] \in Nat}
<1>5. 0 \in S
  BY <1>3
<1>6. ASSUME NEW n \in Nat, n \in S PROVE n + 1 \in S
  BY <1>3, <1>6
<1> HIDE DEF S
<1>7. Nat \subseteq S
  BY <1>5, <1>6, Induction
<1>8. power \in [Nat -> Nat]
  BY <1>3, <1>7 DEF S
<1>9. power[0] = 1 /\ \A n \in Nat : power[n + 1] = power[n] * base
  BY <1>3
<1> QED
  BY <1>4, <1>8, <1>9

\* The steps in which digits are put together to a number.
Shifts(digits, base, n) == [k \in 1 .. n |-> [v \in Nat |-> v * base + digits[k]]]

LEMMA ShiftsType ==
    ASSUME NEW base \in Nat, NEW n \in Nat, NEW digits \in [1 .. n -> Nat]
    PROVE  Shifts(digits, base, n) \in [1 .. n -> [Nat -> Nat]]
BY DEF Shifts

LEMMA NumberComputed ==
    ASSUME NEW base \in Nat, NEW n \in Nat, NEW digits \in [1 .. n -> Nat]
    PROVE  \E value \in [0 .. n -> Nat] :
               /\ Follows(value, n, 0, Shifts(digits, base, n))
               /\ NumberOf(digits, base) = value[n]
<1> DEFINE value[k \in 0 .. n] == IF k = 0 THEN 0 ELSE value[k - 1] * base + digits[k]
<1>1. NumberOf(digits, base) = value[n]
  <2>1. Len(digits) = n
    OBVIOUS
  <2> QED
    BY <2>1 DEF NumberOf
<1>2. PICK f \in [0 .. n -> Nat] : Follows(f, n, 0, Shifts(digits, base, n))
  BY ShiftsType, ComputedUpTo
<1>3. f = [k \in 0 .. n |-> IF k = 0 THEN 0 ELSE f[k - 1] * base + digits[k]]
  <2> SUFFICES ASSUME NEW k \in 0 .. n
               PROVE  f[k] = IF k = 0 THEN 0 ELSE f[k - 1] * base + digits[k]
    OBVIOUS
  <2>1. CASE k = 0
    BY <1>2, <2>1 DEF Follows
  <2>2. CASE k # 0
    <3>1. f[k] = Shifts(digits, base, n)[k][f[k - 1]] /\ f[k - 1] \in Nat
      BY <1>2, <2>2 DEF Follows
    <3> QED
      BY <2>2, <3>1 DEF Shifts
  <2> QED
    BY <2>1, <2>2
<1>4. value = [k \in 0 .. n |-> IF k = 0 THEN 0 ELSE value[k - 1] * base + digits[k]]
  BY <1>3, Zenon
<1> HIDE DEF value
<1> DEFINE S == {k \in Nat : k <= n => value[k] \in Nat /\ value[k] = f[k]}
<1>5. 0 \in S
  BY <1>2, <1>4 DEF Follows
<1>6. ASSUME NEW k \in Nat, k \in S PROVE k + 1 \in S
  BY <1>3, <1>4, <1>6
<1> HIDE DEF S
<1>7. Nat \subseteq S
  BY <1>5, <1>6, Induction
<1>8. \A k \in 0 .. n : value[k] = f[k]
  BY <1>7 DEF S
<1> QED
  BY <1>1, <1>2, <1>8

-----------------------------------------------------------------------------
(***************************************************************************)
(* Numbers and their digits.                                               *)
(***************************************************************************)
LEMMA Division ==
    ASSUME NEW number \in Nat, NEW base \in Nat \ {0}
    PROVE  /\ number = (number \div base) * base + (number % base)
           /\ number % base \in 0 .. base - 1
           /\ number \div base \in Nat
OBVIOUS

LEMMA DivisionOfShifted ==
    ASSUME NEW number \in Nat, NEW base \in Nat \ {0}, NEW digit \in 0 .. base - 1
    PROVE  /\ (number * base + digit) \div base = number
           /\ (number * base + digit) % base = digit
OBVIOUS

LEMMA DivisionOfSmaller ==
    ASSUME NEW base \in Nat \ {0}, NEW number \in Nat, number < base
    PROVE  number \div base = 0
OBVIOUS

LEMMA DivisionTwice ==
    ASSUME NEW number \in Nat, NEW a \in Nat \ {0}, NEW b \in Nat \ {0}
    PROVE  number \div (a * b) = (number \div a) \div b
OBVIOUS

LEMMA PowersPositive ==
    ASSUME NEW base \in Nat \ {0}, NEW n \in Nat
    PROVE  Powers(base)[n] \in Nat \ {0}
<1>0. /\ Powers(base)[0] = 1
      /\ \A k \in Nat : Powers(base)[k + 1] = Powers(base)[k] * base
  BY PowersComputed
<1> DEFINE S == {k \in Nat : Powers(base)[k] \in Nat \ {0}}
<1>1. 0 \in S
  BY <1>0
<1>2. ASSUME NEW k \in Nat, k \in S PROVE k + 1 \in S
  BY <1>0, <1>2
<1> HIDE DEF S
<1>3. n \in S
  BY <1>1, <1>2, Induction
<1> QED
  BY <1>3 DEF S

Digits(number, base, n) == [k \in 1 .. n |-> (number \div Powers(base)[n - k]) % base]

LEMMA DigitsType ==
    ASSUME NEW number \in Nat, NEW base \in Nat \ {0}, NEW n \in Nat
    PROVE  Digits(number, base, n) \in [1 .. n -> 0 .. base - 1]
<1> SUFFICES ASSUME NEW k \in 1 .. n
             PROVE  (number \div Powers(base)[n - k]) % base \in 0 .. base - 1
  BY DEF Digits
<1>1. Powers(base)[n - k] \in Nat \ {0}
  BY PowersPositive
<1>2. number \div Powers(base)[n - k] \in Nat
  BY <1>1, Division
<1> QED
  BY <1>2, Division

\* The digits of a number that fits make the number.
LEMMA NumberOfDigits ==
    ASSUME NEW base \in Nat \ {0}, NEW n \in Nat, NEW number \in Nat, number < Powers(base)[n]
    PROVE  NumberOf(Digits(number, base, n), base) = number
<1> DEFINE digits == Digits(number, base, n)
           upper(k) == number \div Powers(base)[n - k]
<1>1. digits \in [1 .. n -> 0 .. base - 1]
  BY DigitsType
<1>2. digits \in [1 .. n -> Nat]
  BY <1>1
<1>3. PICK value \in [0 .. n -> Nat] : /\ Follows(value, n, 0, Shifts(digits, base, n))
                                       /\ NumberOf(digits, base) = value[n]
  BY <1>2, NumberComputed
<1>4. ASSUME NEW k \in 1 .. n PROVE upper(k) = upper(k - 1) * base + digits[k]
  <2>1. /\ n - k \in Nat /\ n - (k - 1) = (n - k) + 1
        /\ Powers(base)[n - k] \in Nat \ {0}
    BY PowersPositive
  <2>2. Powers(base)[n - (k - 1)] = Powers(base)[n - k] * base
    BY <2>1, PowersComputed
  <2>3. upper(k - 1) = upper(k) \div base
    BY <2>1, <2>2, DivisionTwice
  <2>4. upper(k) \in Nat
    BY <2>1, Division
  <2>5. digits[k] = upper(k) % base
    BY DEF Digits
  <2> HIDE DEF upper, digits
  <2> QED
    BY <2>3, <2>4, <2>5, Division
<1>5. upper(0) = 0
  <2>1. Powers(base)[n] \in Nat \ {0}
    BY PowersPositive
  <2> QED
    BY <2>1, DivisionOfSmaller
<1>6. upper(n) = number
  <2>1. Powers(base)[n - n] = 1
    BY PowersComputed
  <2> QED
    BY <2>1
<1> HIDE DEF upper, digits
<1> DEFINE S == {k \in Nat : k <= n => value[k] = upper(k)}
<1>7. 0 \in S
  BY <1>3, <1>5 DEF Follows
<1>8. ASSUME NEW k \in Nat, k \in S PROVE k + 1 \in S
  <2> SUFFICES ASSUME k + 1 <= n PROVE value[k + 1] = upper(k + 1)
    OBVIOUS
  <2>1. value[k] = upper(k) /\ k + 1 \in 1 .. n /\ (k + 1) - 1 = k /\ value[k] \in Nat
    BY <1>8
  <2>2. value[k + 1] = Shifts(digits, base, n)[k + 1][value[k]]
    BY <1>3, <2>1 DEF Follows
  <2>3. value[k + 1] = value[k] * base + digits[k + 1]
    BY <2>1, <2>2 DEF Shifts
  <2> QED
    BY <1>4, <2>1, <2>3
<1> HIDE DEF S
<1>9. n \in S
  BY <1>7, <1>8, Induction
<1> QED
  BY <1>3, <1>6, <1>9 DEF S, digits

\* A number made of digits fits, and its digits are those.
LEMMA DigitsOfNumber ==
    ASSUME NEW base \in Nat \ {0}, NEW n \in Nat, NEW digits \in [1 .. n -> 0 .. base - 1]
    PROVE  /\ NumberOf(digits, base) \in Nat
           /\ NumberOf(digits, base) < Powers(base)[n]
           /\ Digits(NumberOf(digits, base), base, n) = digits
<1>1. digits \in [1 .. n -> Nat]
  OBVIOUS
<1>2. PICK value \in [0 .. n -> Nat] : /\ Follows(value, n, 0, Shifts(digits, base, n))
                                       /\ NumberOf(digits, base) = value[n]
  BY <1>1, NumberComputed
<1>3. ASSUME NEW k \in 1 .. n
      PROVE  /\ value[k] = value[k - 1] * base + digits[k]
             /\ value[k - 1] \in Nat
             /\ value[k] \div base = value[k - 1]
             /\ value[k] % base = digits[k]
  <2>1. value[k - 1] \in Nat
    OBVIOUS
  <2>2. value[k] = Shifts(digits, base, n)[k][value[k - 1]]
    BY <1>2 DEF Follows
  <2>3. value[k] = value[k - 1] * base + digits[k]
    BY <2>1, <2>2 DEF Shifts
  <2> QED
    BY <2>1, <2>3, DivisionOfShifted
<1>4. value[n] < Powers(base)[n]
  <2> DEFINE S == {k \in Nat : k <= n => value[k] < Powers(base)[k]}
  <2>1. 0 \in S
    <3>1. value[0] = 0 /\ Powers(base)[0] = 1
      BY <1>2, PowersComputed DEF Follows
    <3> QED
      BY <3>1
  <2>2. ASSUME NEW k \in Nat, k \in S PROVE k + 1 \in S
    <3> SUFFICES ASSUME k + 1 <= n PROVE value[k + 1] < Powers(base)[k + 1]
      OBVIOUS
    <3>1. k + 1 \in 1 .. n /\ (k + 1) - 1 = k /\ value[k] < Powers(base)[k]
      BY <2>2
    <3>2. value[k + 1] = value[k] * base + digits[k + 1] /\ value[k] \in Nat
      BY <1>3, <3>1
    <3>3. Powers(base)[k + 1] = Powers(base)[k] * base /\ Powers(base)[k] \in Nat
      BY PowersComputed
    <3>4. digits[k + 1] \in 0 .. base - 1
      BY <3>1
    <3>5. ASSUME NEW v \in Nat, NEW p \in Nat, v < p, NEW d \in 0 .. base - 1
          PROVE  v * base + d < p * base
      <4>1. (v + 1) * base <= p * base
        BY <3>5
      <4> QED
        BY <4>1
    <3> QED
      BY <3>1, <3>2, <3>3, <3>4, <3>5
  <2> HIDE DEF S
  <2>3. n \in S
    BY <2>1, <2>2, Induction
  <2> QED
    BY <2>3 DEF S
<1>5. ASSUME NEW j \in 0 .. n PROVE value[n] \div Powers(base)[j] = value[n - j]
  <2> DEFINE S == {k \in Nat : k <= n => value[n] \div Powers(base)[k] = value[n - k]}
  <2>1. 0 \in S
    <3>1. Powers(base)[0] = 1 /\ value[n] \in Nat /\ n - 0 = n
      BY PowersComputed
    <3>2. value[n] \div 1 = value[n]
      BY <3>1
    <3> QED
      BY <3>1, <3>2
  <2>2. ASSUME NEW k \in Nat, k \in S PROVE k + 1 \in S
    <3> SUFFICES ASSUME k + 1 <= n
                 PROVE  value[n] \div Powers(base)[k + 1] = value[n - (k + 1)]
      OBVIOUS
    <3>1. n - k \in 1 .. n /\ (n - k) - 1 = n - (k + 1) /\ value[n] \in Nat
      OBVIOUS
    <3>2. value[n] \div Powers(base)[k] = value[n - k]
      BY <2>2
    <3>3. Powers(base)[k + 1] = Powers(base)[k] * base /\ Powers(base)[k] \in Nat \ {0}
      BY PowersComputed, PowersPositive
    <3>4. value[n] \div (Powers(base)[k] * base) = (value[n] \div Powers(base)[k]) \div base
      BY <3>1, <3>3, DivisionTwice
    <3>5. value[n - k] \div base = value[(n - k) - 1]
      BY <1>3, <3>1
    <3> QED
      BY <3>1, <3>2, <3>3, <3>4, <3>5
  <2> HIDE DEF S
  <2>3. Nat \subseteq S
    BY <2>1, <2>2, Induction
  <2>4. j \in S
    BY <2>3
  <2> QED
    BY <2>4 DEF S
<1>6. ASSUME NEW k \in 1 .. n PROVE (value[n] \div Powers(base)[n - k]) % base = digits[k]
  <2>1. n - k \in 0 .. n /\ n - (n - k) = k
    OBVIOUS
  <2>2. value[n] \div Powers(base)[n - k] = value[k]
    BY <1>5, <2>1
  <2> QED
    BY <1>3, <2>2
<1>7. Digits(value[n], base, n) = digits
  BY <1>6 DEF Digits
<1> QED
  BY <1>2, <1>4, <1>7

LEMMA NumberOfAppend ==
    ASSUME NEW base \in Nat, NEW n \in Nat, NEW digits \in [1 .. n -> Nat], NEW digit \in Nat
    PROVE  NumberOf(Append(digits, digit), base) = NumberOf(digits, base) * base + digit
<1> DEFINE longer == Append(digits, digit)
<1>1. /\ longer \in [1 .. n + 1 -> Nat]
      /\ longer[n + 1] = digit
      /\ \A k \in 1 .. n : longer[k] = digits[k]
  <2>1. digits \in Seq(Nat) /\ Len(digits) = n
    OBVIOUS
  <2>2. longer \in Seq(Nat) /\ Len(longer) = n + 1
    BY <2>1
  <2>3. longer[n + 1] = digit /\ \A k \in 1 .. n : longer[k] = digits[k]
    BY <2>1
  <2> HIDE DEF longer
  <2>4. longer \in [1 .. n + 1 -> Nat]
    BY <2>2
  <2> QED
    BY <2>3, <2>4
<1> HIDE DEF longer
<1>2. PICK value \in [0 .. n -> Nat] : /\ Follows(value, n, 0, Shifts(digits, base, n))
                                       /\ NumberOf(digits, base) = value[n]
  BY NumberComputed
<1>3. PICK total \in [0 .. n + 1 -> Nat] :
          /\ Follows(total, n + 1, 0, Shifts(longer, base, n + 1))
          /\ NumberOf(longer, base) = total[n + 1]
  <2>1. n + 1 \in Nat
    OBVIOUS
  <2> QED
    BY <1>1, <2>1, NumberComputed
<1>4. ASSUME NEW k \in 1 .. n PROVE Shifts(longer, base, n + 1)[k] = Shifts(digits, base, n)[k]
  <2>1. k \in 1 .. n + 1
    OBVIOUS
  <2>2. longer[k] = digits[k]
    BY <1>1
  <2>3. Shifts(digits, base, n)[k] = [v \in Nat |-> v * base + digits[k]]
    BY Zenon DEF Shifts
  <2>4. Shifts(longer, base, n + 1)[k] = [v \in Nat |-> v * base + longer[k]]
    BY <2>1, Zenon DEF Shifts
  <2> QED
    BY <2>2, <2>3, <2>4, Zenon
<1>5. Follows(total, n, 0, Shifts(digits, base, n))
  <2>1. total[0] = 0 /\ \A k \in 1 .. n : total[k] = Shifts(longer, base, n + 1)[k][total[k - 1]]
    BY <1>3 DEF Follows
  <2> QED
    BY <1>4, <2>1 DEF Follows
<1>6. total[n] = value[n]
  BY <1>2, <1>5, ComputedOnce
<1>7. total[n + 1] = total[n] * base + digit
  <2>1. (n + 1) - 1 = n /\ n + 1 \in 1 .. n + 1 /\ total[n] \in Nat
    OBVIOUS
  <2>2. total[n + 1] = Shifts(longer, base, n + 1)[n + 1][total[n]]
    BY <1>3, <2>1 DEF Follows
  <2> QED
    BY <1>1, <2>1, <2>2 DEF Shifts
<1> QED
  BY <1>2, <1>3, <1>6, <1>7 DEF longer

-----------------------------------------------------------------------------
(***************************************************************************)
(* The prefix.                                                             *)
(***************************************************************************)
Words == 0 .. WordListSize - 1

LEMMA ConstantTypes ==
    /\ PrefixWordCount \in Nat /\ EntropyBytes \in Nat
    /\ {WordListSize, EntropyValues, ChecksumValues, ByteValues} \subseteq Nat \ {0}
    /\ WordListSize = EntropyValues * ChecksumValues
    /\ EntropySize = Powers(ByteValues)[EntropyBytes]
    /\ EntropySize = Powers(WordListSize)[PrefixWordCount] * EntropyValues
<1>1. \A a, b \in Nat \ {0} : a * b \in Nat \ {0}
  OBVIOUS
<1> QED
  BY <1>1, FinalWordAssumption DEF EntropySize

Folds == [ok : {TRUE}, value : Nat] \cup [ok : {FALSE}, position : Nat, index : Nat]

FoldIndex(indices) ==
    [n \in 1 .. PrefixWordCount |-> [fold \in Folds |->
        IF ~fold.ok THEN fold
        ELSE IF indices[n] >= WordListSize THEN InvalidWordIndex(n - 1, indices[n])
        ELSE Ok(fold.value * WordListSize + indices[n])]]

LEMMA FoldIndexType ==
    ASSUME NEW indices \in Indices
    PROVE  FoldIndex(indices) \in [1 .. PrefixWordCount -> [Folds -> Folds]]
<1> SUFFICES ASSUME NEW n \in 1 .. PrefixWordCount, NEW fold \in Folds
             PROVE  FoldIndex(indices)[n][fold] \in Folds
  BY DEF FoldIndex
<1>1. indices[n] \in Nat /\ n - 1 \in Nat /\ WordListSize \in Nat
  BY ConstantTypes DEF Indices
<1>2. CASE ~fold.ok
  BY <1>2 DEF FoldIndex
<1>3. CASE fold.ok /\ indices[n] >= WordListSize
  BY <1>1, <1>3 DEF FoldIndex, InvalidWordIndex, Folds
<1>4. CASE fold.ok /\ ~(indices[n] >= WordListSize)
  <2>1. fold.value \in Nat
    BY <1>4 DEF Folds
  <2>2. fold.value * WordListSize + indices[n] \in Nat
    BY <1>1, <2>1
  <2>3. Ok(fold.value * WordListSize + indices[n]) \in Folds
    BY <2>2 DEF Ok, Folds
  <2> QED
    BY <1>4, <2>3 DEF FoldIndex
<1> QED
  BY <1>2, <1>3, <1>4

LEMMA PrefixFolded ==
    ASSUME NEW indices \in Indices
    PROVE  \E folded \in [0 .. PrefixWordCount -> Folds] :
               /\ Follows(folded, PrefixWordCount, Ok(0), FoldIndex(indices))
               /\ entropy_prefix(indices) = folded[PrefixWordCount]
<1> DEFINE folded[n \in 0 .. PrefixWordCount] ==
               IF n = 0 THEN Ok(0)
               ELSE IF ~folded[n - 1].ok THEN folded[n - 1]
               ELSE IF indices[n] >= WordListSize THEN InvalidWordIndex(n - 1, indices[n])
               ELSE Ok(folded[n - 1].value * WordListSize + indices[n])
<1>1. entropy_prefix(indices) = folded[PrefixWordCount]
  BY DEF entropy_prefix
<1>2. PICK f \in [0 .. PrefixWordCount -> Folds] :
          Follows(f, PrefixWordCount, Ok(0), FoldIndex(indices))
  <2>1. Ok(0) \in Folds
    BY DEF Ok, Folds
  <2> QED
    BY <2>1, ConstantTypes, FoldIndexType, ComputedUpTo
<1>3. f = [n \in 0 .. PrefixWordCount |->
               IF n = 0 THEN Ok(0)
               ELSE IF ~f[n - 1].ok THEN f[n - 1]
               ELSE IF indices[n] >= WordListSize THEN InvalidWordIndex(n - 1, indices[n])
               ELSE Ok(f[n - 1].value * WordListSize + indices[n])]
  <2>1. f[0] = Ok(0)
    BY <1>2 DEF Follows
  <2>2. ASSUME NEW n \in 1 .. PrefixWordCount
        PROVE  f[n] = IF ~f[n - 1].ok THEN f[n - 1]
                      ELSE IF indices[n] >= WordListSize
                      THEN InvalidWordIndex(n - 1, indices[n])
                      ELSE Ok(f[n - 1].value * WordListSize + indices[n])
    <3>1. f[n] = FoldIndex(indices)[n][f[n - 1]] /\ f[n - 1] \in Folds
      BY <1>2, ConstantTypes DEF Follows
    <3> QED
      BY <3>1 DEF FoldIndex
  <2> QED
    BY <2>1, <2>2, ConstantTypes
<1>4. folded = [n \in 0 .. PrefixWordCount |->
               IF n = 0 THEN Ok(0)
               ELSE IF ~folded[n - 1].ok THEN folded[n - 1]
               ELSE IF indices[n] >= WordListSize THEN InvalidWordIndex(n - 1, indices[n])
               ELSE Ok(folded[n - 1].value * WordListSize + indices[n])]
  BY <1>3, Zenon
<1> HIDE DEF folded
<1> DEFINE S == {n \in Nat : n <= PrefixWordCount => folded[n] = f[n]}
<1>5. 0 \in S
  BY <1>3, <1>4, ConstantTypes
<1>6. ASSUME NEW n \in Nat, n \in S PROVE n + 1 \in S
  <2> SUFFICES ASSUME n + 1 <= PrefixWordCount PROVE folded[n + 1] = f[n + 1]
    OBVIOUS
  <2>1. folded[n] = f[n] /\ n + 1 # 0 /\ (n + 1) - 1 = n /\ n + 1 \in 0 .. PrefixWordCount
    BY <1>6, ConstantTypes
  <2> DEFINE one(g) == IF ~g[n].ok THEN g[n]
                       ELSE IF indices[n + 1] >= WordListSize
                       THEN InvalidWordIndex((n + 1) - 1, indices[n + 1])
                       ELSE Ok(g[n].value * WordListSize + indices[n + 1])
  <2>2. f[n + 1] = one(f)
    BY <1>3, <2>1
  <2>3. folded[n + 1] = one(folded)
    BY <1>4, <2>1
  <2> QED
    BY <2>1, <2>2, <2>3
<1> HIDE DEF S
<1>7. Nat \subseteq S
  BY <1>5, <1>6, Induction
<1>8. \A n \in 0 .. PrefixWordCount : folded[n] = f[n]
  BY <1>7, ConstantTypes DEF S
<1>9. folded = f
  BY <1>8, <1>4
<1> QED
  BY <1>1, <1>2, <1>9

\* A prefix is calculated of words only, and is their number.
LEMMA PrefixIsNumber ==
    ASSUME NEW indices \in Indices, entropy_prefix(indices).ok
    PROVE  /\ indices \in [1 .. PrefixWordCount -> Words]
           /\ entropy_prefix(indices).value = NumberOf(indices, WordListSize)
<1>1. PICK folded \in [0 .. PrefixWordCount -> Folds] :
          /\ Follows(folded, PrefixWordCount, Ok(0), FoldIndex(indices))
          /\ entropy_prefix(indices) = folded[PrefixWordCount]
  BY PrefixFolded
<1>2. indices \in [1 .. PrefixWordCount -> Nat]
  BY ConstantTypes DEF Indices
<1>3. PICK value \in [0 .. PrefixWordCount -> Nat] :
          /\ Follows(value, PrefixWordCount, 0, Shifts(indices, WordListSize, PrefixWordCount))
          /\ NumberOf(indices, WordListSize) = value[PrefixWordCount]
  <2>1. WordListSize \in Nat
    BY ConstantTypes
  <2> QED
    BY <1>2, <2>1, ConstantTypes, NumberComputed
<1> DEFINE Good(n) == folded[n].ok => /\ folded[n].value = value[n]
                                      /\ \A k \in 1 .. n : indices[k] \in Words
           S == {n \in Nat : n <= PrefixWordCount => Good(n)}
<1>4. 0 \in S
  BY <1>1, <1>3 DEF Follows, Ok
<1>5. ASSUME NEW n \in Nat, n \in S PROVE n + 1 \in S
  <2> SUFFICES ASSUME n + 1 <= PrefixWordCount, folded[n + 1].ok
               PROVE  /\ folded[n + 1].value = value[n + 1]
                      /\ \A k \in 1 .. n + 1 : indices[k] \in Words
    OBVIOUS
  <2>1. Good(n) /\ n + 1 \in 1 .. PrefixWordCount /\ (n + 1) - 1 = n /\ folded[n] \in Folds
    BY <1>5, ConstantTypes
  <2>2. folded[n + 1] = FoldIndex(indices)[n + 1][folded[n]]
    BY <1>1, <2>1 DEF Follows
  <2>3. folded[n + 1] = IF ~folded[n].ok THEN folded[n]
                        ELSE IF indices[n + 1] >= WordListSize
                        THEN InvalidWordIndex((n + 1) - 1, indices[n + 1])
                        ELSE Ok(folded[n].value * WordListSize + indices[n + 1])
    BY <2>1, <2>2 DEF FoldIndex
  <2>4. folded[n].ok /\ ~(indices[n + 1] >= WordListSize)
    BY <2>3 DEF InvalidWordIndex
  <2>5. folded[n + 1].value = value[n] * WordListSize + indices[n + 1]
    BY <2>1, <2>3, <2>4 DEF Ok
  <2>6. value[n + 1] = value[n] * WordListSize + indices[n + 1]
    <3>1. value[n] \in Nat
      BY <2>1, ConstantTypes
    <3>2. value[n + 1] = Shifts(indices, WordListSize, PrefixWordCount)[n + 1][value[n]]
      BY <1>3, <2>1 DEF Follows
    <3> QED
      BY <2>1, <3>1, <3>2 DEF Shifts
  <2>7. indices[n + 1] \in Words
    BY <1>2, <2>1, <2>4, ConstantTypes DEF Words
  <2> QED
    BY <2>1, <2>4, <2>5, <2>6, <2>7
<1> HIDE DEF S
<1>6. PrefixWordCount \in S
  BY <1>4, <1>5, Induction, ConstantTypes
<1>7. Good(PrefixWordCount)
  BY <1>6, ConstantTypes DEF S
<1> QED
  BY <1>1, <1>2, <1>3, <1>7

-----------------------------------------------------------------------------
(***************************************************************************)
(* The entropy fills its bytes exactly, and the final word is the bits     *)
(* followed by the checksum.                                               *)
(***************************************************************************)
Bits == 0 .. EntropyValues - 1

LEMMA EntropyFits ==
    ASSUME NEW words \in [1 .. PrefixWordCount -> Words], NEW bits \in Bits
    PROVE  LET prefix == NumberOf(words, WordListSize)
           IN  /\ prefix \in Nat
               /\ entropy(prefix, bits) = prefix * EntropyValues + bits
               /\ entropy(prefix, bits) \in 0 .. EntropySize - 1
<1> DEFINE prefix == NumberOf(words, WordListSize)
           size == Powers(WordListSize)[PrefixWordCount]
<1>1. prefix \in Nat /\ prefix < size
  BY ConstantTypes, DigitsOfNumber DEF Words
<1>2. size \in Nat /\ EntropySize = size * EntropyValues /\ EntropyValues \in Nat \ {0}
  BY ConstantTypes, PowersPositive
<1> HIDE DEF prefix, size
<1>3. ASSUME NEW p \in Nat, NEW s \in Nat, p < s, NEW v \in Nat \ {0}, NEW b \in 0 .. v - 1
      PROVE  p * v + b < s * v
  <2>1. (p + 1) * v <= s * v
    BY <1>3
  <2> QED
    BY <2>1
<1>4. prefix * EntropyValues + bits < EntropySize
  BY <1>1, <1>2, <1>3 DEF Bits
<1>5. prefix * EntropyValues \in Nat /\ EntropySize \in Nat
  BY <1>1, <1>2
<1>6. (prefix * EntropyValues) % EntropySize = prefix * EntropyValues
  <2>1. \A n, m \in Nat : n < m => n % m = n
    OBVIOUS
  <2>2. bits \in Nat
    BY <1>2 DEF Bits
  <2> QED
    BY <1>4, <1>5, <2>1, <2>2
<1>7. entropy(prefix, bits) = prefix * EntropyValues + bits
  BY <1>6 DEF entropy
<1> QED
  BY <1>1, <1>2, <1>4, <1>5, <1>7 DEF prefix, Bits

LEMMA BytesType ==
    ASSUME NEW number \in Nat
    PROVE  to_be_bytes(number) \in Entropies /\ Checksum(to_be_bytes(number)) \in Nat
              /\ Checksum(to_be_bytes(number)) < ChecksumValues
<1>1. to_be_bytes(number) = Digits(number, ByteValues, EntropyBytes)
  BY DEF to_be_bytes, Digits
<1>2. to_be_bytes(number) \in Entropies
  <2>1. ByteValues \in Nat \ {0} /\ EntropyBytes \in Nat
    BY ConstantTypes
  <2>2. Digits(number, ByteValues, EntropyBytes) \in [1 .. EntropyBytes -> 0 .. ByteValues - 1]
    BY <2>1, DigitsType
  <2> QED
    BY <1>1, <2>2 DEF Entropies
<1> QED
  BY <1>2, FinalWordAssumption

LEMMA FinalWordFits ==
    ASSUME NEW words \in [1 .. PrefixWordCount -> Words], NEW bits \in Bits
    PROVE  LET word == final_word_index(NumberOf(words, WordListSize), bits)
           IN  word \in Words /\ word \div ChecksumValues = bits
<1> DEFINE prefix == NumberOf(words, WordListSize)
           sum == Checksum(to_be_bytes(entropy(prefix, bits)))
<1>1. sum \in 0 .. ChecksumValues - 1
  <2>1. entropy(prefix, bits) \in Nat
    BY EntropyFits
  <2>2. sum \in Nat /\ sum < ChecksumValues
    BY <2>1, BytesType
  <2> QED
    BY <2>2, ConstantTypes
<1>2. final_word_index(prefix, bits) = bits * ChecksumValues + sum
  BY DEF final_word_index
<1> HIDE DEF prefix, sum
<1>3. /\ WordListSize = EntropyValues * ChecksumValues
      /\ EntropyValues \in Nat \ {0} /\ ChecksumValues \in Nat \ {0}
      /\ bits \in Nat /\ bits + 1 <= EntropyValues
  BY ConstantTypes DEF Bits
<1>4. (bits + 1) * ChecksumValues <= EntropyValues * ChecksumValues
  BY <1>3
<1>5. bits * ChecksumValues + sum \in Words
  BY <1>1, <1>3, <1>4 DEF Words
<1>6. (bits * ChecksumValues + sum) \div ChecksumValues = bits
  BY <1>1, <1>3, DivisionOfShifted
<1> QED
  BY <1>2, <1>5, <1>6 DEF prefix

\* A word completes the prefix to a mnemonic exactly if it is the final word
\* of its own bits.
LEMMA MnemonicsEndInFinalWords ==
    ASSUME NEW words \in [1 .. PrefixWordCount -> Words], NEW word \in Words
    PROVE  LET bits == word \div ChecksumValues
           IN  /\ bits \in Bits
               /\ IsMnemonic(Append(words, word)) <=>
                      word = final_word_index(NumberOf(words, WordListSize), bits)
<1> DEFINE prefix == NumberOf(words, WordListSize)
           bits == word \div ChecksumValues
           sum == word % ChecksumValues
           number == NumberOf(Append(words, word), WordListSize)
<1>1. /\ WordListSize = EntropyValues * ChecksumValues
      /\ EntropyValues \in Nat \ {0} /\ ChecksumValues \in Nat \ {0}
      /\ word \in Nat /\ word < WordListSize
  BY ConstantTypes DEF Words
<1>2. word = bits * ChecksumValues + sum /\ sum \in 0 .. ChecksumValues - 1 /\ bits \in Nat
  BY <1>1, Division
<1>3. bits \in Bits
  <2>1. bits * ChecksumValues < EntropyValues * ChecksumValues
    BY <1>1, <1>2
  <2> HIDE DEF bits
  <2>2. ASSUME bits >= EntropyValues PROVE FALSE
    <3>1. bits * ChecksumValues >= EntropyValues * ChecksumValues
      BY <1>1, <1>2, <2>2
    <3> QED
      BY <1>1, <1>2, <2>1, <3>1
  <2> QED
    BY <1>1, <1>2, <2>2 DEF Bits
<1>4. prefix \in Nat /\ entropy(prefix, bits) = prefix * EntropyValues + bits
  BY <1>3, EntropyFits
<1>5. number = prefix * WordListSize + word
  <2>1. words \in [1 .. PrefixWordCount -> Nat] /\ WordListSize \in Nat
    BY ConstantTypes DEF Words
  <2> QED
    BY <1>1, <2>1, ConstantTypes, NumberOfAppend
<1> HIDE DEF prefix, bits, sum, number
<1>6. number = (prefix * EntropyValues + bits) * ChecksumValues + sum
  <2>1. prefix * (EntropyValues * ChecksumValues)
            = (prefix * EntropyValues) * ChecksumValues
    BY <1>1, <1>4
  <2> QED
    BY <1>1, <1>2, <1>4, <1>5, <2>1
<1>7. number \div ChecksumValues = entropy(prefix, bits) /\ number % ChecksumValues = sum
  <2>1. prefix * EntropyValues + bits \in Nat
    BY <1>1, <1>2, <1>4
  <2> QED
    BY <1>1, <1>2, <1>4, <1>6, <2>1, DivisionOfShifted
<1>8. IsMnemonic(Append(words, word)) <=> Checksum(to_be_bytes(entropy(prefix, bits))) = sum
  BY <1>7 DEF IsMnemonic, number
<1>9. Checksum(to_be_bytes(entropy(prefix, bits))) \in Nat
  <2>1. entropy(prefix, bits) \in Nat
    BY <1>1, <1>2, <1>4
  <2> QED
    BY <2>1, BytesType
<1>10. Checksum(to_be_bytes(entropy(prefix, bits))) = sum
           <=> word = final_word_index(prefix, bits)
  <2> DEFINE c == Checksum(to_be_bytes(entropy(prefix, bits)))
  <2>1. final_word_index(prefix, bits) = bits * ChecksumValues + c
    BY DEF final_word_index
  <2> HIDE DEF c
  <2>2. c = sum <=> bits * ChecksumValues + sum = bits * ChecksumValues + c
    BY <1>1, <1>2, <1>9 DEF c
  <2> QED
    BY <1>2, <2>1, <2>2 DEF c
<1> QED
  BY <1>3, <1>8, <1>10 DEF prefix, bits

-----------------------------------------------------------------------------
(***************************************************************************)
(* The theorems.                                                           *)
(***************************************************************************)
Inputs == word_indices \in Indices /\ entropy_bits \in EntropyBits

LEMMA InputsInvariance == FinalWordSpec => []Inputs
<1>1. Init => Inputs
  BY ConstantTypes DEF Init, Inputs, Indices, EntropyBits
<1>2. Inputs /\ [Next]_inputs => Inputs'
  BY DEF Inputs, Next, ChangeWord, ChangeBits, inputs, Indices
<1> QED
  BY <1>1, <1>2, PTL DEF FinalWordSpec

LEMMA CandidateOf ==
    ASSUME candidates.ok, Inputs
    PROVE  /\ word_indices \in [1 .. PrefixWordCount -> Words]
           /\ entropy_prefix(word_indices).ok
           /\ candidates.value =
                  [bits \in Bits |-> final_word_index(NumberOf(word_indices, WordListSize), bits)]
<1>1. entropy_prefix(word_indices).ok
  BY DEF candidates, candidates_from_indices
<1> QED
  BY <1>1, PrefixIsNumber DEF Inputs, candidates, candidates_from_indices, Bits, Ok

\* Every candidate is a word of the list.
THEOREM FinalWordTypeCorrect == FinalWordSpec => []FinalWordTypeOK
<1>1. Inputs => FinalWordTypeOK
  <2> SUFFICES ASSUME Inputs, candidates.ok PROVE candidates.value \in [Bits -> Words]
    BY DEF Inputs, FinalWordTypeOK, Bits, Words
  <2> QED
    BY CandidateOf, FinalWordFits
<1> QED
  BY <1>1, InputsInvariance, PTL

\* The candidates are the words that complete the prefix to a mnemonic, each once.
THEOREM CandidatesAreFinalWords == FinalWordSpec => []CandidatesAreTheFinalWords
<1>1. Inputs => CandidatesAreTheFinalWords
  <2> SUFFICES ASSUME Inputs, candidates.ok
               PROVE  LET words == {candidates.value[bits] : bits \in Bits}
                      IN  /\ words = {word \in Words : IsMnemonic(Append(word_indices, word))}
                          /\ Cardinality(words) = EntropyValues
    BY DEF CandidatesAreTheFinalWords, Bits, Words
  <2> DEFINE final(bits) == final_word_index(NumberOf(word_indices, WordListSize), bits)
             words == {candidates.value[bits] : bits \in Bits}
             table == [bits \in Bits |-> final(bits)]
  <2>1. word_indices \in [1 .. PrefixWordCount -> Words] /\ candidates.value = table
    BY CandidateOf
  <2>2. \A bits \in Bits : final(bits) \in Words /\ final(bits) \div ChecksumValues = bits
    BY <2>1, FinalWordFits
  <2>3. \A word \in Words : /\ word \div ChecksumValues \in Bits
                            /\ IsMnemonic(Append(word_indices, word))
                                   <=> word = final(word \div ChecksumValues)
    BY <2>1, MnemonicsEndInFinalWords
  <2>4. words = {final(bits) : bits \in Bits}
    BY <2>1
  <2> HIDE DEF final
  <2>5. words = {word \in Words : IsMnemonic(Append(word_indices, word))}
    BY <2>2, <2>3, <2>4
  <2>6. table \in Surjection(Bits, words) /\ table \in Injection(Bits, words)
    BY <2>2, <2>4 DEF Surjection, Injection, IsInjective
  <2>7. IsFiniteSet(Bits) /\ Cardinality(Bits) = EntropyValues
    <3>1. EntropyValues \in Nat \ {0} /\ EntropyValues - 1 \in Int /\ ~(0 > EntropyValues - 1)
      BY ConstantTypes
    <3>2. IsFiniteSet(0 .. EntropyValues - 1)
            /\ Cardinality(0 .. EntropyValues - 1) = (EntropyValues - 1) - 0 + 1
      BY <3>1, FS_Interval
    <3> QED
      BY <3>1, <3>2 DEF Bits
  <2>8. Cardinality(words) = EntropyValues
    BY <2>6, <2>7, FS_Surjection
  <2> QED
    BY <2>5, <2>8
<1> QED
  BY <1>1, InputsInvariance, PTL

\* The direct calculation and the table agree, errors included.
THEOREM DirectIsTable == FinalWordSpec => []DirectAgreesWithTable
<1>1. Inputs => DirectAgreesWithTable
  <2> SUFFICES ASSUME Inputs PROVE DirectAgreesWithTable
    OBVIOUS
  <2>1. CASE ~entropy_prefix(word_indices).ok
    <3>1. candidates = entropy_prefix(word_indices) /\ final_word = candidates
      BY <2>1 DEF candidates, candidates_from_indices, final_word, word_for_entropy_bits_in
    <3> QED
      BY <2>1, <3>1 DEF DirectAgreesWithTable
  <2>2. CASE entropy_prefix(word_indices).ok
    <3>1. candidates.ok
      BY <2>2 DEF candidates, candidates_from_indices, Ok
    <3>2. /\ word_indices \in [1 .. PrefixWordCount -> Words]
          /\ entropy_prefix(word_indices).value = NumberOf(word_indices, WordListSize)
      BY <2>2, PrefixIsNumber DEF Inputs
    <3>3. DOMAIN candidates.value = Bits
      BY <3>1, CandidateOf
    <3>4. CASE entropy_bits \in Bits
      <4> DEFINE word == final_word_index(NumberOf(word_indices, WordListSize), entropy_bits)
      <4>1. candidates.value[entropy_bits] = word
        BY <3>1, <3>4, CandidateOf
      <4>2. word \in Words
        BY <3>2, <3>4, FinalWordFits
      <4>3. word_for_index_in(word) = Ok(word)
        BY <4>2, ConstantTypes DEF word_for_index_in, Words
      <4>4. validate_entropy_bits(entropy_bits)
        BY <3>4, ConstantTypes DEF validate_entropy_bits, Bits
      <4> HIDE DEF word
      <4>5. final_word = word_for_index_in(word)
        BY <2>2, <3>2, <4>4 DEF final_word, word_for_entropy_bits_in, word
      <4> QED
        BY <3>1, <3>3, <3>4, <4>1, <4>3, <4>5
           DEF DirectAgreesWithTable, word_index_for_entropy_bits
    <3>5. CASE entropy_bits \notin Bits
      <4>1. ~validate_entropy_bits(entropy_bits)
        BY <3>5, ConstantTypes DEF validate_entropy_bits, Bits, Inputs, EntropyBits
      <4>2. final_word = InvalidEntropyBits(entropy_bits)
        BY <2>2, <4>1 DEF final_word, word_for_entropy_bits_in
      <4> QED
        BY <3>1, <3>3, <3>5, <4>2 DEF DirectAgreesWithTable, word_index_for_entropy_bits
    <3> QED
      BY <3>4, <3>5
  <2> QED
    BY <2>1, <2>2
<1> QED
  BY <1>1, InputsInvariance, PTL

\* The entropy behind the addresses encodes to the mnemonic on the screen.
THEOREM SeedIsOfTheMnemonic == FinalWordSpec => []SeedIsOfTheseWords
<1>1. Inputs => SeedIsOfTheseWords
  <2> SUFFICES ASSUME Inputs PROVE SeedIsOfTheseWords
    OBVIOUS
  <2>1. CASE ~(entropy_prefix(word_indices).ok /\ validate_entropy_bits(entropy_bits))
    <3>1. ~final_entropy.ok /\ ~final_word.ok
      BY <2>1 DEF final_entropy, entropy_from_indices, final_word, word_for_entropy_bits_in,
         InvalidEntropyBits
    <3> QED
      BY <3>1 DEF SeedIsOfTheseWords
  <2>2. CASE entropy_prefix(word_indices).ok /\ validate_entropy_bits(entropy_bits)
    <3> DEFINE prefix == NumberOf(word_indices, WordListSize)
               whole == entropy(prefix, entropy_bits)
               bytes == to_be_bytes(whole)
               word == final_word_index(prefix, entropy_bits)
               words == Append(word_indices, word)
    <3>1. /\ word_indices \in [1 .. PrefixWordCount -> Words]
          /\ entropy_prefix(word_indices).value = prefix
      BY <2>2, PrefixIsNumber DEF Inputs
    <3>2. entropy_bits \in Bits
      BY <2>2, ConstantTypes DEF Inputs, EntropyBits, validate_entropy_bits, Bits
    <3>3. /\ prefix \in Nat
          /\ whole = prefix * EntropyValues + entropy_bits
          /\ whole \in Nat /\ whole < EntropySize
      <4>1. prefix \in Nat /\ whole = prefix * EntropyValues + entropy_bits
                /\ whole \in 0 .. EntropySize - 1
        BY <3>1, <3>2, EntropyFits
      <4>2. EntropySize \in Nat
        BY ConstantTypes, PowersPositive
      <4> HIDE DEF prefix, whole
      <4> QED
        BY <4>1, <4>2
    <3>4. word \in Words
      BY <3>1, <3>2, FinalWordFits
    <3>5. final_entropy = Ok(bytes) /\ final_word = Ok(word)
      <4>1. word_for_index_in(word) = Ok(word)
        BY <3>4, ConstantTypes DEF word_for_index_in, Words
      <4> QED
        BY <2>2, <3>1, <4>1 DEF final_entropy, entropy_from_indices, final_word,
           word_for_entropy_bits_in
    <3>6. NumberOf(bytes, ByteValues) = whole
      <4>1. bytes = Digits(whole, ByteValues, EntropyBytes)
        BY DEF to_be_bytes, Digits
      <4>2. ByteValues \in Nat \ {0} /\ whole < Powers(ByteValues)[EntropyBytes]
        BY <3>3, ConstantTypes
      <4> HIDE DEF whole, bytes
      <4> QED
        BY <3>3, <4>1, <4>2, ConstantTypes, NumberOfDigits
    <3>7. words \in [1 .. PrefixWordCount + 1 -> Words]
      <4>1. word_indices \in Seq(Words) /\ Len(word_indices) = PrefixWordCount
        BY <3>1, ConstantTypes
      <4> HIDE DEF word
      <4>2. words \in Seq(Words) /\ Len(words) = PrefixWordCount + 1
        BY <3>4, <4>1
      <4> HIDE DEF words
      <4> QED
        BY <4>2
    <3>8. NumberOf(words, WordListSize) = whole * ChecksumValues + Checksum(bytes)
      <4>1. NumberOf(words, WordListSize) = prefix * WordListSize + word
        <5>1. word_indices \in [1 .. PrefixWordCount -> Nat] /\ word \in Nat /\ WordListSize \in Nat
          BY <3>1, <3>4, ConstantTypes DEF Words
        <5> HIDE DEF word
        <5> QED
          BY <5>1, ConstantTypes, NumberOfAppend
      <4>2. word = entropy_bits * ChecksumValues + Checksum(bytes)
        BY DEF final_word_index
      <4>3. Checksum(bytes) \in Nat
        BY <3>3, BytesType
      <4>4. /\ WordListSize = EntropyValues * ChecksumValues
            /\ EntropyValues \in Nat /\ ChecksumValues \in Nat /\ entropy_bits \in Nat
        BY <3>2, ConstantTypes DEF Bits
      <4> HIDE DEF prefix, whole, bytes, word, words
      <4>5. prefix * (EntropyValues * ChecksumValues) = (prefix * EntropyValues) * ChecksumValues
        BY <3>3, <4>4
      <4>6. (prefix * EntropyValues + entropy_bits) * ChecksumValues
                = (prefix * EntropyValues) * ChecksumValues + entropy_bits * ChecksumValues
        BY <3>3, <4>4
      <4> QED
        BY <3>3, <4>1, <4>2, <4>3, <4>4, <4>5, <4>6
    <3>9. from_entropy(bytes) =
              Digits(NumberOf(words, WordListSize), WordListSize, PrefixWordCount + 1)
      <4> HIDE DEF whole, bytes, words
      <4>1. NumberOf(bytes, ByteValues) * ChecksumValues + Checksum(bytes)
                = NumberOf(words, WordListSize)
        BY <3>6, <3>8
      <4> QED
        BY <4>1, Zenon DEF from_entropy, Digits
    <3>10. from_entropy(bytes) = words
      <4>1. WordListSize \in Nat \ {0} /\ PrefixWordCount + 1 \in Nat
        BY ConstantTypes
      <4> HIDE DEF words, bytes
      <4> QED
        BY <3>7, <3>9, <4>1, DigitsOfNumber DEF Words
    <3> HIDE DEF bytes, word
    <3> QED
      BY <3>5, <3>10 DEF SeedIsOfTheseWords, Ok, words
  <2> QED
    BY <2>1, <2>2
<1> QED
  BY <1>1, InputsInvariance, PTL
=============================================================================
