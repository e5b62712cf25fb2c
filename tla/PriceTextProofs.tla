--------------------------- MODULE PriceTextProofs ---------------------------
(***************************************************************************)
(* Theorems about the texts of prices, for prices up to any cap and texts  *)
(* of any length: what the form shows reads back as the price, and what    *)
(* says a decimal is read to the cent. The recursions of the module are    *)
(* functions; that each has a solution is shown by induction over numbers  *)
(* (NumbersAll of Sums), and then what it computes, the same way.          *)
(***************************************************************************)
EXTENDS PriceText, Sums, SequenceTheorems

-----------------------------------------------------------------------------
(* Digits.                                                                 *)

\* The digits are ten different characters.
LEMMA DigitsDiffer == \A i, j \in 1..10 : Digits[i] = Digits[j] => i = j
<1>1. /\ Digits[1] = "0" /\ Digits[2] = "1" /\ Digits[3] = "2" /\ Digits[4] = "3"
      /\ Digits[5] = "4" /\ Digits[6] = "5" /\ Digits[7] = "6" /\ Digits[8] = "7"
      /\ Digits[9] = "8" /\ Digits[10] = "9"
  BY DEF Digits
<1> SUFFICES ASSUME NEW i \in 1..10, NEW j \in 1..10, Digits[i] = Digits[j] PROVE i = j
  OBVIOUS
<1>2. /\ i \in {1, 2, 3, 4, 5, 6, 7, 8, 9, 10}
      /\ j \in {1, 2, 3, 4, 5, 6, 7, 8, 9, 10}
  OBVIOUS
<1> QED
  BY <1>1, <1>2

\* The ten digits, and no sign, point, blank or dollar among them.
Digit == ToSet(Digits)

\* The digits are the ten characters listed, none of them a sign, a point, a comma,
\* a blank or a dollar.
LEMMA DigitsAre ==
  /\ Digit = {Digits[i] : i \in 1..10}
  /\ \A c \in Digit : c \notin {"+", "-", ".", ",", " ", "$"}
<1>1. DOMAIN Digits = 1..10
  BY DEF Digits
<1>2. Digit = {Digits[i] : i \in 1..10}
  BY <1>1 DEF Digit, ToSet
<1>3. \A c \in {"0", "1", "2", "3", "4", "5", "6", "7", "8", "9"} :
        c \notin {"+", "-", ".", ",", " ", "$"}
  OBVIOUS
<1>4. \A i \in 1..10 : Digits[i] \in {"0", "1", "2", "3", "4", "5", "6", "7", "8", "9"}
  BY DEF Digits
<1> QED
  BY <1>2, <1>3, <1>4

\* The value of a digit is its place in the list, from 0.
LEMMA DigitValues == \A i \in 1..10 : DigitValue(Digits[i]) = i - 1
<1> SUFFICES ASSUME NEW i \in 1..10 PROVE DigitValue(Digits[i]) = i - 1
  OBVIOUS
<1> DEFINE P(j) == j \in 1..10 /\ Digits[j] = Digits[i]
<1>1. P(i) /\ \A j : P(j) => j = i
  BY DigitsDiffer
<1>2. (CHOOSE j \in 1..10 : Digits[j] = Digits[i]) = i
  BY <1>1
<1> QED
  BY <1>2 DEF DigitValue

\* Every digit is worth 0 to 9.
LEMMA DigitType == \A c \in Digit : DigitValue(c) \in 0..9
<1> SUFFICES ASSUME NEW i \in 1..10 PROVE DigitValue(Digits[i]) \in 0..9
  BY DigitsAre
<1>1. DigitValue(Digits[i]) = i - 1
  BY DigitValues
<1> QED
  BY <1>1

-----------------------------------------------------------------------------
(* The number a text of digits stands for, read from the left.             *)

\* What ParseUnsigned makes of digits.
Number(text) == FoldLeft(LAMBDA n, c : 10 * n + DigitValue(c), 0, text)

\* The same as a recursion over sets of places, the greatest last.
ReadSoFar(text, g, s) ==
  IF s = {} THEN 0 ELSE 10 * g[s \ {Max(s)}] + DigitValue(text[Max(s)])
ReadOff(text) == CHOOSE g : g = [s \in SUBSET DOMAIN text |-> ReadSoFar(text, g, s)]

\* The fold of Number is the recursion of ReadOff, taken to the whole text.
LEMMA NumberIsReadOff ==
  ASSUME NEW text
  PROVE  Number(text) = ReadOff(text)[DOMAIN text]
BY DEF FoldLeft, MapThenFoldSet, ReadOff, ReadSoFar, Number

\* A set of numbers up to n has a greatest one.
LEMMA GreatestBelow ==
  ASSUME NEW n \in Nat, NEW s \in SUBSET (1..n), s # {}
  PROVE  Max(s) \in s /\ \A y \in s : Max(s) >= y
<1> DEFINE below == {m \in Nat : \E x \in s : m = n - x}
<1>1. below \in SUBSET Nat /\ below # {} /\ \A x \in s : n - x \in below
  <2>1. \A x \in s : n - x \in Nat
    OBVIOUS
  <2> QED
    BY <2>1
<1>2. PICK m \in below : \A y \in below : m <= y
  <2> HIDE DEF below
  <2> QED
    BY <1>1, LeastNumber
<1>3. PICK x \in s : m = n - x
  BY <1>2
<1>4. \A y \in s : x >= y
  BY <1>1, <1>2, <1>3
<1> QED
  BY <1>4, Greatest

\* The recursion over the places of a text has a solution.
LEMMA ReadOffSolves ==
  ASSUME NEW text, NEW n \in Nat, DOMAIN text = 1..n
  PROVE  \A s \in SUBSET (1..n) : ReadOff(text)[s] = ReadSoFar(text, ReadOff(text), s)
<1> DEFINE S == 1..n
           Small(m) == {s \in SUBSET S : Cardinality(s) <= m}
           T == {m \in Nat : \E g : g = [s \in Small(m) |-> ReadSoFar(text, g, s)]}
<1>0. IsFiniteSet(S)
  BY FS_Interval
<1>1. \A s \in SUBSET S : IsFiniteSet(s) /\ Cardinality(s) \in Nat
  BY <1>0, FS_Subset, FS_CardinalityType
<1>2. \A s \in SUBSET S : s # {} =>
        s \ {Max(s)} \in SUBSET S /\ Cardinality(s \ {Max(s)}) = Cardinality(s) - 1
  <2> SUFFICES ASSUME NEW s \in SUBSET S, s # {}
               PROVE  s \ {Max(s)} \in SUBSET S /\ Cardinality(s \ {Max(s)}) = Cardinality(s) - 1
    OBVIOUS
  <2>1. Max(s) \in s
    BY GreatestBelow
  <2> QED
    BY <1>1, <2>1, FS_RemoveElement
<1>3. 0 \in T
  <2> DEFINE g == [s \in Small(0) |-> 0]
  <2>1. \A s \in Small(0) : s = {}
    BY <1>1, FS_EmptySet
  <2>2. g = [s \in Small(0) |-> ReadSoFar(text, g, s)]
    BY <2>1 DEF ReadSoFar
  <2> QED
    BY <2>2
<1>4. ASSUME NEW m \in Nat, m \in T PROVE m + 1 \in T
  <2>1. PICK g : g = [s \in Small(m) |-> ReadSoFar(text, g, s)]
    BY <1>4
  <2> DEFINE h == [s \in Small(m + 1) |-> ReadSoFar(text, g, s)]
  <2>2. ASSUME NEW s \in Small(m + 1) PROVE ReadSoFar(text, g, s) = ReadSoFar(text, h, s)
    <3>1. CASE s = {}
      BY <3>1 DEF ReadSoFar
    <3>2. CASE s # {}
      <4> DEFINE rest == s \ {Max(s)}
      <4>1. rest \in Small(m) /\ rest \in Small(m + 1)
        BY <1>1, <1>2, <3>2
      <4>2. g[rest] = ReadSoFar(text, g, rest)
        BY <2>1, <4>1
      <4>3. h[rest] = ReadSoFar(text, g, rest)
        BY <4>1
      <4> QED
        BY <4>2, <4>3 DEF ReadSoFar
    <3> QED
      BY <3>1, <3>2
  <2>3. h = [s \in Small(m + 1) |-> ReadSoFar(text, h, s)]
    BY <2>2
  <2> HIDE DEF h
  <2>4. \E k : k = [s \in Small(m + 1) |-> ReadSoFar(text, k, s)]
    BY <2>3
  <2>5. m + 1 \in Nat
    OBVIOUS
  <2> QED
    BY <2>4, <2>5
<1> HIDE DEF T
<1>5. Cardinality(S) \in T
  BY <1>1, <1>3, <1>4, NumbersAll
<1>6. Small(Cardinality(S)) = SUBSET S
  BY <1>0, <1>1, FS_Subset
<1>7. \E g : g = [s \in SUBSET S |-> ReadSoFar(text, g, s)]
  BY <1>5, <1>6 DEF T
<1>8. ReadOff(text) = [s \in SUBSET S |-> ReadSoFar(text, ReadOff(text), s)]
  BY <1>7 DEF ReadOff
<1> DEFINE read == ReadOff(text)
<1> HIDE DEF read
<1>9. read = [s \in SUBSET S |-> ReadSoFar(text, read, s)]
  BY <1>8 DEF read
<1>10. \A s \in SUBSET S : read[s] = ReadSoFar(text, read, s)
  BY <1>9
<1> QED
  BY <1>10 DEF read

\* The number the first k characters stand for.
Upto(text, k) == ReadOff(text)[1..k]

\* Each further digit multiplies what was read by ten and adds itself.
LEMMA ReadFromLeft ==
  ASSUME NEW text, NEW n \in Nat, DOMAIN text = 1..n
  PROVE  /\ Number(text) = Upto(text, n) /\ Upto(text, 0) = 0
         /\ \A k \in 1..n : Upto(text, k) = 10 * Upto(text, k - 1) + DigitValue(text[k])
<1>1. Number(text) = Upto(text, n)
  BY NumberIsReadOff DEF Upto
<1>2. Upto(text, 0) = 0
  <2>1. 1..0 = {} /\ 1..0 \in SUBSET (1..n)
    OBVIOUS
  <2> QED
    BY <2>1, ReadOffSolves DEF Upto, ReadSoFar
<1>3. ASSUME NEW k \in 1..n PROVE Upto(text, k) = 10 * Upto(text, k - 1) + DigitValue(text[k])
  <2> DEFINE s == 1..k
  <2>1. s \in SUBSET (1..n) /\ s # {} /\ k \in s /\ \A y \in s : k >= y
    OBVIOUS
  <2>2. s \ {k} = 1..(k - 1)
    OBVIOUS
  <2>3. Max(s) = k
    <3>1. Max(s) \in s /\ \A y \in s : Max(s) >= y
      BY <2>1, GreatestBelow
    <3> QED
      BY <2>1, <3>1
  <2> HIDE DEF s
  <2>4. ReadOff(text)[s] = ReadSoFar(text, ReadOff(text), s)
    BY <2>1, ReadOffSolves
  <2>5. ReadOff(text)[s] = 10 * ReadOff(text)[s \ {k}] + DigitValue(text[k])
    BY <2>1, <2>3, <2>4 DEF ReadSoFar
  <2> QED
    BY <2>2, <2>5 DEF Upto, s
<1> QED
  BY <1>1, <1>2, <1>3

\* Texts that begin alike read alike so far.
LEMMA ReadingAgrees ==
  ASSUME NEW a, NEW m \in Nat, DOMAIN a = 1..m, NEW b, NEW n \in Nat, DOMAIN b = 1..n,
         NEW k \in Nat, k <= m, k <= n, \A i \in 1..k : a[i] = b[i]
  PROVE  Upto(a, k) = Upto(b, k)
<1> DEFINE T == {j \in Nat : j <= k => Upto(a, j) = Upto(b, j)}
<1>1. 0 \in T
  BY ReadFromLeft
<1>2. ASSUME NEW j \in Nat, j \in T PROVE j + 1 \in T
  <2> SUFFICES ASSUME j + 1 <= k PROVE Upto(a, j + 1) = Upto(b, j + 1)
    OBVIOUS
  <2>1. Upto(a, j) = Upto(b, j)
    BY <1>2
  <2>2. PICK i \in 1..k : i = j + 1 /\ i \in 1..m /\ i \in 1..n /\ i - 1 = j
    OBVIOUS
  <2>3. Upto(a, i) = 10 * Upto(a, i - 1) + DigitValue(a[i])
    BY <2>2, ReadFromLeft
  <2>4. Upto(b, i) = 10 * Upto(b, i - 1) + DigitValue(b[i])
    BY <2>2, ReadFromLeft
  <2> QED
    BY <2>1, <2>2, <2>3, <2>4
<1> HIDE DEF T
<1>3. k \in T
  BY <1>1, <1>2, NumbersAll
<1> QED
  BY <1>3 DEF T

\* What is read of digits is a number.
LEMMA ReadingType ==
  ASSUME NEW text, NEW n \in Nat, DOMAIN text = 1..n, \A i \in 1..n : text[i] \in Digit
  PROVE  \A k \in 0..n : Upto(text, k) \in Nat
<1> DEFINE T == {j \in Nat : j <= n => Upto(text, j) \in Nat}
<1>1. 0 \in T
  BY ReadFromLeft
<1>2. ASSUME NEW j \in Nat, j \in T PROVE j + 1 \in T
  <2> SUFFICES ASSUME j + 1 <= n PROVE Upto(text, j + 1) \in Nat
    OBVIOUS
  <2>1. Upto(text, j) \in Nat
    BY <1>2
  <2>2. PICK i \in 1..n : i = j + 1 /\ i - 1 = j
    OBVIOUS
  <2>3. Upto(text, i) = 10 * Upto(text, i - 1) + DigitValue(text[i])
    BY ReadFromLeft
  <2>4. DigitValue(text[i]) \in 0..9
    BY DigitType
  <2> QED
    BY <2>1, <2>2, <2>3, <2>4
<1> HIDE DEF T
<1>3. \A j \in Nat : j \in T
  BY <1>1, <1>2, NumbersAll
<1> QED
  BY <1>3 DEF T

\* A text of digits spells a number.
LEMMA NumberType ==
  ASSUME NEW text \in Seq(Digit)
  PROVE  Number(text) \in Nat
<1>1. Len(text) \in Nat /\ DOMAIN text = 1..Len(text) /\ \A i \in 1..Len(text) : text[i] \in Digit
  OBVIOUS
<1>2. Number(text) = Upto(text, Len(text))
  BY <1>1, ReadFromLeft
<1>3. Len(text) \in 0..Len(text)
  BY <1>1
<1> QED
  BY <1>1, <1>2, <1>3, ReadingType

\* A digit appended is the last digit of the number.
LEMMA NumberAppended ==
  ASSUME NEW text \in Seq(Digit), NEW c \in Digit
  PROVE  Number(Append(text, c)) = 10 * Number(text) + DigitValue(c)
<1> DEFINE longer == Append(text, c)
           n == Len(text)
           m == n + 1
<1>1. n \in Nat /\ m \in Nat /\ DOMAIN text = 1..n
  OBVIOUS
<1>2. DOMAIN longer = 1..m /\ longer[m] = c /\ \A i \in 1..n : longer[i] = text[i]
  OBVIOUS
<1>3. m \in 1..m /\ m - 1 = n /\ n <= m
  BY <1>1
<1> HIDE DEF longer, n, m
<1>4. /\ Number(longer) = Upto(longer, m)
      /\ Upto(longer, m) = 10 * Upto(longer, m - 1) + DigitValue(longer[m])
  BY <1>1, <1>2, <1>3, ReadFromLeft
<1>5. Upto(longer, n) = Upto(text, n)
  BY <1>1, <1>2, <1>3, ReadingAgrees
<1>6. Number(text) = Upto(text, n)
  BY <1>1, ReadFromLeft
<1>7. Number(longer) = 10 * Number(text) + DigitValue(c)
  BY <1>2, <1>3, <1>4, <1>5, <1>6
<1> QED
  BY <1>7 DEF longer

\* One digit spells its own value.
LEMMA NumberOfOne ==
  ASSUME NEW c \in Digit
  PROVE  Number(<<c>>) = DigitValue(c)
<1>1. DOMAIN <<c>> = 1..1 /\ <<c>>[1] = c /\ 1 \in 1..1 /\ 1 - 1 = 0
  OBVIOUS
<1> DEFINE text == <<c>>
<1> HIDE DEF text
<1>2. DOMAIN text = 1..1 /\ text[1] = c
  BY <1>1 DEF text
<1>3. /\ Number(text) = Upto(text, 1) /\ Upto(text, 0) = 0
      /\ \A k \in 1..1 : Upto(text, k) = 10 * Upto(text, k - 1) + DigitValue(text[k])
  <2>1. 1 \in Nat
    OBVIOUS
  <2> QED
    BY <1>2, <2>1, ReadFromLeft
<1>5. Upto(text, 1) = 10 * Upto(text, 1 - 1) + DigitValue(text[1])
  BY <1>1, <1>3
<1>4. Number(text) = DigitValue(c)
  BY <1>1, <1>2, <1>3, <1>5, DigitType
<1> QED
  BY <1>4 DEF text

-----------------------------------------------------------------------------
(* A number written down, and read again.                                  *)

\* One step of the recursion of FormatInt, and the function it defines.
WrittenBy(g, m) ==
  IF m < 10 THEN <<Digits[m + 1]>> ELSE Append(g[m \div 10], Digits[(m % 10) + 1])
Written(n) == CHOOSE g : g = [m \in 0..n |-> WrittenBy(g, m)]

\* FormatInt is the recursion of Written, taken to n.
LEMMA FormatIntIsWritten ==
  ASSUME NEW n
  PROVE  FormatInt(n) = Written(n)[n]
BY DEF FormatInt, Written, WrittenBy

\* The recursion of FormatInt has a solution.
LEMMA WrittenSolves ==
  ASSUME NEW n \in Nat
  PROVE  \A m \in 0..n : Written(n)[m] = WrittenBy(Written(n), m)
<1> DEFINE T == {k \in Nat : \E g : g = [m \in 0..k |-> WrittenBy(g, m)]}
<1>0. \A m \in Nat : m >= 10 => m \div 10 \in Nat /\ m \div 10 < m
  OBVIOUS
<1>1. 0 \in T
  <2> DEFINE g == [m \in 0..0 |-> <<Digits[m + 1]>>]
  <2>1. g = [m \in 0..0 |-> WrittenBy(g, m)]
    BY DEF WrittenBy
  <2> QED
    BY <2>1
<1>2. ASSUME NEW k \in Nat, k \in T PROVE k + 1 \in T
  <2>1. PICK g : g = [m \in 0..k |-> WrittenBy(g, m)]
    BY <1>2
  <2> DEFINE h == [m \in 0..(k + 1) |-> WrittenBy(g, m)]
  <2>2. ASSUME NEW m \in 0..(k + 1) PROVE WrittenBy(g, m) = WrittenBy(h, m)
    <3>1. CASE m < 10
      BY <3>1 DEF WrittenBy
    <3>2. CASE ~(m < 10)
      <4> DEFINE rest == m \div 10
      <4>1. rest \in 0..k /\ rest \in 0..(k + 1)
        BY <1>0, <3>2
      <4> HIDE DEF rest
      <4>2. g[rest] = WrittenBy(g, rest)
        BY <2>1, <4>1
      <4>3. h[rest] = WrittenBy(g, rest)
        BY <4>1
      <4>4. g[rest] = h[rest]
        BY <4>2, <4>3
      <4> HIDE DEF h
      <4> QED
        BY <4>4 DEF WrittenBy, rest
    <3> QED
      BY <3>1, <3>2
  <2>3. h = [m \in 0..(k + 1) |-> WrittenBy(h, m)]
    BY <2>2
  <2> HIDE DEF h
  <2>4. \E f : f = [m \in 0..(k + 1) |-> WrittenBy(f, m)]
    BY <2>3
  <2>5. k + 1 \in Nat
    OBVIOUS
  <2> QED
    BY <2>4, <2>5
<1> HIDE DEF T
<1>3. n \in T
  BY <1>1, <1>2, NumbersAll
<1>4. \E g : g = [m \in 0..n |-> WrittenBy(g, m)]
  BY <1>3 DEF T
<1>5. Written(n) = [m \in 0..n |-> WrittenBy(Written(n), m)]
  BY <1>4 DEF Written
<1> DEFINE w == Written(n)
<1> HIDE DEF w
<1>6. w = [m \in 0..n |-> WrittenBy(w, m)]
  BY <1>5 DEF w
<1>7. \A m \in 0..n : w[m] = WrittenBy(w, m)
  BY <1>6
<1> QED
  BY <1>7 DEF w

\* A text that spells this number.
Spells(text, m) == text \in Seq(Digit) /\ text # <<>> /\ Number(text) = m

\* What FormatInt writes spells the number it was given.
LEMMA FormatIntSpells ==
  ASSUME NEW n \in Nat
  PROVE  Spells(FormatInt(n), n)
<1> DEFINE w == Written(n)
           T == {k \in Nat : \A m \in 0..n : m <= k => Spells(w[m], m)}
<1>0. \A m \in Nat : /\ m % 10 \in 0..9 /\ m \div 10 \in Nat /\ m = 10 * (m \div 10) + (m % 10)
                     /\ m >= 10 => m \div 10 < m
  OBVIOUS
<1>1. \A i \in 0..9 : Digits[i + 1] \in Digit /\ DigitValue(Digits[i + 1]) = i
  <2> SUFFICES ASSUME NEW i \in 0..9 PROVE Digits[i + 1] \in Digit /\ DigitValue(Digits[i + 1]) = i
    OBVIOUS
  <2>1. PICK j \in 1..10 : j = i + 1 /\ j - 1 = i
    OBVIOUS
  <2>2. Digits[j] \in Digit /\ DigitValue(Digits[j]) = j - 1
    BY DigitsAre, DigitValues
  <2> QED
    BY <2>1, <2>2
<1>2. ASSUME NEW m \in 0..n, \A k \in 0..n : k < m => Spells(w[k], k)
      PROVE  Spells(w[m], m)
  <2>1. w[m] = WrittenBy(w, m)
    BY WrittenSolves
  <2>2. CASE m < 10
    <3>1. w[m] = <<Digits[m + 1]>> /\ m \in 0..9
      BY <2>1, <2>2 DEF WrittenBy
    <3>2. PICK c \in Digit : w[m] = <<c>> /\ DigitValue(c) = m
      BY <1>1, <3>1
    <3>3. Number(<<c>>) = m
      BY <3>2, NumberOfOne
    <3> HIDE DEF w
    <3> QED
      BY <3>2, <3>3 DEF Spells
  <2>3. CASE ~(m < 10)
    <3>1. w[m] = Append(w[m \div 10], Digits[(m % 10) + 1])
      BY <2>1, <2>3 DEF WrittenBy
    <3>2. PICK k \in 0..n, r \in 0..9 : k = m \div 10 /\ r = m % 10 /\ m = 10 * k + r /\ k < m
      BY <1>0, <2>3
    <3>3. PICK c \in Digit : c = Digits[r + 1] /\ DigitValue(c) = r
      BY <1>1
    <3>4. PICK front : front = w[k]
      OBVIOUS
    <3>5. Spells(front, k)
      BY <1>2, <3>2, <3>4
    <3>6. w[m] = Append(front, c)
      BY <3>1, <3>2, <3>3, <3>4
    <3> HIDE DEF w
    <3>7. Number(Append(front, c)) = 10 * k + r
      BY <3>3, <3>5, NumberAppended DEF Spells
    <3>8. Append(front, c) \in Seq(Digit) /\ Append(front, c) # <<>>
      BY <3>5 DEF Spells
    <3> QED
      BY <3>2, <3>6, <3>7, <3>8 DEF Spells
  <2> QED
    BY <2>2, <2>3
<1> HIDE DEF w
<1>3. 0 \in T
  <2>1. 0 \in 0..n /\ \A k \in 0..n : ~(k < 0)
    OBVIOUS
  <2>2. Spells(w[0], 0)
    BY <1>2, <2>1
  <2> QED
    BY <2>2
<1>4. ASSUME NEW k \in Nat, k \in T PROVE k + 1 \in T
  <2>1. \A j \in 0..n : j < k + 1 => Spells(w[j], j)
    BY <1>4
  <2>2. ASSUME NEW m \in 0..n, m <= k + 1 PROVE Spells(w[m], m)
    <3>1. CASE m = k + 1
      BY <1>2, <2>1, <3>1
    <3>2. CASE m # k + 1
      BY <2>1, <2>2, <3>2
    <3> QED
      BY <3>1, <3>2
  <2> QED
    BY <2>2
<1> HIDE DEF T
<1>5. n \in T
  BY <1>3, <1>4, NumbersAll
<1>6. Spells(w[n], n)
  BY <1>5 DEF T
<1> QED
  BY <1>6, FormatIntIsWritten DEF w

-----------------------------------------------------------------------------
(* A number read by the places of its digits.                              *)

\* The places of Reading, as a step and the function it defines, and its summands.
PlaceBy(g, k) == IF k = 0 THEN 1 ELSE 10 * g[k - 1]
PlacesTo(n) == CHOOSE g : g = [k \in 0..n |-> PlaceBy(g, k)]
Weighed(text) == [i \in 1..Len(text) |-> DigitValue(text[i]) * PlacesTo(Len(text))[Len(text) - i]]

\* Reading is the sum of the weighed digits.
LEMMA ReadingIsWeighed ==
  ASSUME NEW text
  PROVE  Reading(text) = SumFunction(Weighed(text))
BY DEF Reading, PlacesTo, PlaceBy, Weighed

\* The recursion over the places has a solution.
LEMMA PlacesSolve ==
  ASSUME NEW n \in Nat
  PROVE  \A k \in 0..n : PlacesTo(n)[k] = PlaceBy(PlacesTo(n), k)
<1> DEFINE T == {m \in Nat : \E g : g = [k \in 0..m |-> PlaceBy(g, k)]}
<1>1. 0 \in T
  <2> DEFINE g == [k \in 0..0 |-> 1]
  <2>1. g = [k \in 0..0 |-> PlaceBy(g, k)]
    BY DEF PlaceBy
  <2> QED
    BY <2>1
<1>2. ASSUME NEW m \in Nat, m \in T PROVE m + 1 \in T
  <2>1. PICK g : g = [k \in 0..m |-> PlaceBy(g, k)]
    BY <1>2
  <2> DEFINE h == [k \in 0..(m + 1) |-> PlaceBy(g, k)]
  <2>2. ASSUME NEW k \in 0..(m + 1) PROVE PlaceBy(g, k) = PlaceBy(h, k)
    <3>1. CASE k = 0
      BY <3>1 DEF PlaceBy
    <3>2. CASE k # 0
      <4>1. PICK j : j = k - 1 /\ j \in 0..m /\ j \in 0..(m + 1)
        BY <3>2
      <4>2. g[j] = PlaceBy(g, j)
        BY <2>1, <4>1
      <4>3. h[j] = PlaceBy(g, j)
        BY <4>1
      <4> HIDE DEF h
      <4> QED
        BY <3>2, <4>1, <4>2, <4>3 DEF PlaceBy
    <3> QED
      BY <3>1, <3>2
  <2>3. h = [k \in 0..(m + 1) |-> PlaceBy(h, k)]
    BY <2>2
  <2> HIDE DEF h
  <2>4. \E f : f = [k \in 0..(m + 1) |-> PlaceBy(f, k)]
    BY <2>3
  <2>5. m + 1 \in Nat
    OBVIOUS
  <2> QED
    BY <2>4, <2>5
<1> HIDE DEF T
<1>3. n \in T
  BY <1>1, <1>2, NumbersAll
<1>4. \E g : g = [k \in 0..n |-> PlaceBy(g, k)]
  BY <1>3 DEF T
<1>5. PlacesTo(n) = [k \in 0..n |-> PlaceBy(PlacesTo(n), k)]
  BY <1>4 DEF PlacesTo
<1>6. PICK w : w = PlacesTo(n)
  OBVIOUS
<1>7. w = [k \in 0..n |-> PlaceBy(w, k)]
  BY <1>5, <1>6
<1>8. \A k \in 0..n : w[k] = PlaceBy(w, k)
  BY <1>7
<1> QED
  BY <1>6, <1>8

\* Places are powers of ten: one, and each ten times the one before.
LEMMA PlaceType ==
  ASSUME NEW n \in Nat
  PROVE  /\ PlacesTo(n)[0] = 1
         /\ \A k \in 0..n : PlacesTo(n)[k] \in Nat
         /\ \A j, k \in 0..n : k = j + 1 => PlacesTo(n)[k] = 10 * PlacesTo(n)[j]
<1>1. PICK p : p = PlacesTo(n)
  OBVIOUS
<1>2. \A k \in 0..n : p[k] = IF k = 0 THEN 1 ELSE 10 * p[k - 1]
  BY <1>1, PlacesSolve DEF PlaceBy
<1>3. p[0] = 1
  BY <1>2
<1>4. \A j, k \in 0..n : k = j + 1 => p[k] = 10 * p[j]
  <2> SUFFICES ASSUME NEW j \in 0..n, NEW k \in 0..n, k = j + 1 PROVE p[k] = 10 * p[j]
    OBVIOUS
  <2>1. k # 0 /\ k - 1 = j
    OBVIOUS
  <2> QED
    BY <1>2, <2>1
<1> DEFINE T == {k \in Nat : k <= n => p[k] \in Nat}
<1>5. 0 \in T
  BY <1>3
<1>6. ASSUME NEW j \in Nat, j \in T PROVE j + 1 \in T
  <2> SUFFICES ASSUME j + 1 <= n PROVE p[j + 1] \in Nat
    OBVIOUS
  <2>1. p[j] \in Nat
    BY <1>6
  <2>2. PICK k : k = j + 1 /\ k \in 0..n /\ j \in 0..n
    OBVIOUS
  <2>3. p[k] = 10 * p[j]
    BY <1>4, <2>2
  <2> QED
    BY <2>1, <2>2, <2>3
<1> HIDE DEF T
<1>7. \A k \in Nat : k \in T
  BY <1>5, <1>6, NumbersAll
<1>8. \A k \in 0..n : p[k] \in Nat
  BY <1>7 DEF T
<1> QED
  BY <1>1, <1>3, <1>4, <1>8

\* The digits before the last one weigh ten times as much.
LEMMA Weigh ==
  ASSUME NEW u \in Nat, NEW d \in Nat, NEW p \in Nat
  PROVE  d * p + u * (10 * p) = (10 * u + d) * p
OBVIOUS

\* Both ways of reading digits agree.
LEMMA ReadingIsNumber ==
  ASSUME NEW text \in Seq(Digit)
  PROVE  Reading(text) = Number(text)
<1>1. PICK n \in Nat : n = Len(text) /\ DOMAIN text = 1..n /\ \A i \in 1..n : text[i] \in Digit
  OBVIOUS
<1>2. PICK p : p = PlacesTo(n)
  OBVIOUS
<1>3. /\ p[0] = 1 /\ \A k \in 0..n : p[k] \in Nat
      /\ \A j, k \in 0..n : k = j + 1 => p[k] = 10 * p[j]
  BY <1>2, PlaceType
<1>4. PICK f : f = Weighed(text)
  OBVIOUS
<1>5. DOMAIN f = 1..n /\ \A i \in 1..n : f[i] = DigitValue(text[i]) * p[n - i]
  BY <1>1, <1>2, <1>4 DEF Weighed
<1>6. \A i \in 1..n : DigitValue(text[i]) \in Nat /\ f[i] \in Int
  <2> SUFFICES ASSUME NEW i \in 1..n PROVE DigitValue(text[i]) \in Nat /\ f[i] \in Int
    OBVIOUS
  <2>1. DigitValue(text[i]) \in 0..9
    BY <1>1, DigitType
  <2>2. PICK k \in 0..n : k = n - i
    OBVIOUS
  <2>3. PICK d \in Nat, q \in Nat : d = DigitValue(text[i]) /\ q = p[k]
    BY <1>3, <2>1
  <2>4. f[i] = d * q
    BY <1>5, <2>2, <2>3
  <2>5. d * q \in Int
    OBVIOUS
  <2> QED
    BY <2>3, <2>4, <2>5
<1>7. \A k \in 0..n : Upto(text, k) \in Nat
  BY <1>1, ReadingType
<1> DEFINE Sum(k) == SumFunctionOnSet(f, 1..k)
           T == {k \in Nat : k <= n => Sum(k) = Upto(text, k) * p[n - k]}
<1>8. 0 \in T
  <2>1. 1..0 = {} /\ Upto(text, 0) = 0
    <3>1. 1..0 = {}
      OBVIOUS
    <3>2. Upto(text, 0) = 0
      BY <1>1, ReadFromLeft
    <3> QED
      BY <3>1, <3>2
  <2>2. Sum(0) = 0
    BY <2>1, SumEmpty
  <2>3. PICK q \in Nat : q = p[n - 0]
    BY <1>3
  <2> QED
    BY <2>1, <2>2, <2>3
<1>9. ASSUME NEW j \in Nat, j \in T PROVE j + 1 \in T
  <2> SUFFICES ASSUME j + 1 <= n PROVE Sum(j + 1) = Upto(text, j + 1) * p[n - (j + 1)]
    OBVIOUS
  <2>1. PICK k \in 1..n : k = j + 1 /\ k - 1 = j
    OBVIOUS
  <2>2. PICK b \in 0..n, a \in 0..n : b = n - j /\ a = n - k /\ b = a + 1
    BY <2>1
  <2>3. Sum(j) = Upto(text, j) * p[b]
    BY <1>9, <2>2
  <2>4. Upto(text, k) = 10 * Upto(text, j) + DigitValue(text[k])
    BY <1>1, <2>1, ReadFromLeft
  <2>5. PICK u \in Nat, d \in Nat, q \in Nat, r \in Nat :
          u = Upto(text, j) /\ d = DigitValue(text[k]) /\ q = p[a] /\ r = p[b] /\ r = 10 * q
    <3>1. j \in 0..n
      BY <2>1
    <3> QED
      BY <1>3, <1>6, <1>7, <2>2, <3>1
  <2>6. Sum(k) = f[k] + Sum(j)
    <3>1. IsFiniteSet(1..k) /\ k \in 1..k /\ (1..k) \ {k} = 1..j
      BY <2>1, FS_Interval
    <3>2. \A i \in 1..k : f[i] \in Int
      BY <1>6
    <3>3. PICK S, s : S = 1..k /\ s = 1..j /\ IsFiniteSet(S) /\ k \in S /\ S \ {k} = s
      BY <3>1
    <3>5. \A i \in S : f[i] \in Int
      BY <3>2, <3>3
    <3>6. IsFiniteSet(S)
      BY <3>3
    <3>7. \A y \in S : SumFunctionOnSet(f, S) = f[y] + SumFunctionOnSet(f, S \ {y})
      BY <3>5, <3>6, SumWithout
    <3>4. SumFunctionOnSet(f, S) = f[k] + SumFunctionOnSet(f, s)
      BY <3>3, <3>7
    <3> QED
      BY <3>3, <3>4
  <2>7. f[k] = d * q
    BY <1>5, <2>2, <2>5
  <2> HIDE DEF Sum
  <2>8. d * q + Sum(j) = (10 * u + d) * q
    <3>1. PICK sum : sum = Sum(j)
      OBVIOUS
    <3>2. sum = u * (10 * q)
      BY <2>3, <2>5, <3>1
    <3>3. d * q + sum = (10 * u + d) * q
      BY <3>2, Weigh
    <3> QED
      BY <3>1, <3>3
  <2>9. Sum(k) = Upto(text, k) * p[a]
    BY <2>4, <2>5, <2>6, <2>7, <2>8
  <2> QED
    BY <2>1, <2>2, <2>9
<1> HIDE DEF T
<1>10. n \in T
  BY <1>8, <1>9, NumbersAll
<1>11. Sum(n) = Upto(text, n) * p[n - n]
  BY <1>10 DEF T
<1>12. Sum(n) = Upto(text, n)
  <2> HIDE DEF Sum
  <2>1. PICK u \in Nat : u = Upto(text, n)
    BY <1>7
  <2>2. n - n = 0
    OBVIOUS
  <2> QED
    BY <1>3, <1>11, <2>1, <2>2
<1>13. Reading(text) = Sum(n)
  BY <1>4, <1>5, ReadingIsWeighed DEF SumFunction
<1>14. Number(text) = Upto(text, n)
  BY <1>1, ReadFromLeft
<1> QED
  BY <1>12, <1>13, <1>14

-----------------------------------------------------------------------------
(* Both trims read a point where the other reads a comma.                  *)

\* A function over the first n numbers is a sequence of n elements.
LEMMA FunctionIsSeq ==
  ASSUME NEW C, NEW n \in Nat, NEW f \in [1..n -> C]
  PROVE  f \in Seq(C) /\ Len(f) = n
<1>1. f \in Seq(C)
  BY SeqDef
<1> QED
  BY <1>1, LenProperties

\* r is the text s with points for its commas.
PointedAs(r, s, C) ==
  /\ r \in Seq(C) /\ Len(r) = Len(s) /\ Len(s) \in Nat
  /\ \A i \in 1..Len(s) : r[i] = IF s[i] = "," THEN "." ELSE s[i]

\* ReplaceAll puts the points and leaves the rest.
LEMMA Pointed ==
  ASSUME NEW C, "." \in C, NEW s \in Seq(C)
  PROVE  PointedAs(ReplaceAll(s, ",", "."), s, C)
<1> DEFINE n == Len(s)
           r == [i \in 1..n |-> IF s[i] = "," THEN "." ELSE s[i]]
<1>1. n \in Nat /\ \A i \in 1..n : s[i] \in C
  OBVIOUS
<1>2. ReplaceAll(s, ",", ".") = r
  BY DEF ReplaceAll
<1> HIDE DEF n
<1>3. r \in [1..n -> C]
  BY <1>1
<1>4. \A i \in 1..n : r[i] = IF s[i] = "," THEN "." ELSE s[i]
  OBVIOUS
<1> HIDE DEF r
<1>5. r \in Seq(C) /\ Len(r) = n
  BY <1>1, <1>3, FunctionIsSeq
<1> QED
  BY <1>1, <1>2, <1>4, <1>5 DEF n, PointedAs

\* The first character of a text that has one.
LEMMA NoHead ==
  ASSUME NEW C, NEW s \in Seq(C)
  PROVE  /\ Len(s) \in Nat
         /\ s = <<>> <=> Len(s) = 0
         /\ s # <<>> => Head(s) = s[1] /\ 1 \in 1..Len(s)
OBVIOUS

\* A dollar sign is cut off all the same before and after the points are put.
LEMMA DollarPointed ==
  ASSUME NEW C, "." \in C, NEW s \in Seq(C)
  PROVE  TrimDollar(ReplaceAll(s, ",", ".")) = ReplaceAll(TrimDollar(s), ",", ".")
<1>0. PICK n, r : n = Len(s) /\ r = ReplaceAll(s, ",", ".")
  OBVIOUS
<1>1. /\ r \in Seq(C) /\ Len(r) = n /\ n \in Nat
      /\ \A i \in 1..n : r[i] = IF s[i] = "," THEN "." ELSE s[i]
  <2>1. PointedAs(r, s, C)
    BY <1>0, Pointed
  <2> QED
    BY <1>0, <2>1 DEF PointedAs
<1>2. /\ s = <<>> <=> n = 0
      /\ r = <<>> <=> n = 0
      /\ n # 0 => Head(s) = s[1] /\ Head(r) = r[1] /\ 1 \in 1..n
  BY <1>0, <1>1, NoHead
<1>3. CASE n = 0
  BY <1>0, <1>2, <1>3 DEF TrimDollar
<1>4. CASE n # 0 /\ Head(s) # "$"
  <2>1. Head(r) # "$"
    BY <1>1, <1>2, <1>4
  <2>2. TrimDollar(s) = s /\ TrimDollar(r) = r
    BY <1>4, <2>1 DEF TrimDollar
  <2> QED
    BY <1>0, <2>2
<1>5. CASE n # 0 /\ Head(s) = "$"
  <2>1. Head(r) = "$"
    BY <1>1, <1>2, <1>5
  <2>2. PICK m \in Nat : m = n - 1 /\ \A i \in 1..m : i + 1 \in 1..n
    <3>1. n \in Nat /\ n # 0
      BY <1>1, <1>5
    <3> QED
      BY <3>1
  <2>3. PICK rest, b : rest = Tail(s) /\ b = Tail(r)
    OBVIOUS
  <2>4. rest \in Seq(C) /\ Len(rest) = m /\ \A i \in 1..m : rest[i] = s[i + 1]
    BY <1>0, <1>2, <1>5, <2>2, <2>3, HeadTailProperties
  <2>5. b \in Seq(C) /\ Len(b) = m /\ \A i \in 1..m : b[i] = r[i + 1]
    <3>1. r \in Seq(C) /\ r # <<>> /\ Len(r) = n
      BY <1>1, <1>2, <1>5
    <3> QED
      BY <2>2, <2>3, <3>1, HeadTailProperties
  <2>6. PICK a : a = ReplaceAll(rest, ",", ".")
    OBVIOUS
  <2>7. a \in Seq(C) /\ Len(a) = m /\ \A i \in 1..m : a[i] = IF rest[i] = "," THEN "." ELSE rest[i]
    <3>1. PointedAs(a, rest, C)
      BY <2>4, <2>6, Pointed
    <3> QED
      BY <2>4, <3>1 DEF PointedAs
  <2>8. \A i \in 1..m : a[i] = b[i]
    BY <1>1, <2>2, <2>4, <2>5, <2>7
  <2>9. a = b
    BY <2>5, <2>7, <2>8, SeqEqual
  <2>10. TrimDollar(s) = rest /\ TrimDollar(r) = b
    BY <1>2, <1>5, <2>1, <2>3 DEF TrimDollar
  <2> QED
    BY <1>0, <2>6, <2>9, <2>10
<1> QED
  BY <1>3, <1>4, <1>5

\* The ends of the blanks around a text.
LEMMA EndsFound ==
  ASSUME NEW n \in Nat, NEW W \in SUBSET (1..n), W # {}
  PROVE  /\ (CHOOSE i \in W : \A j \in W : i <= j) \in 1..n
         /\ (CHOOSE i \in W : \A j \in W : i >= j) \in 1..n
<1>1. \E i \in W : \A j \in W : i <= j
  <2>1. W \in SUBSET Nat
    OBVIOUS
  <2> QED
    BY <2>1, LeastNumber
<1>2. Max(W) \in W /\ \A j \in W : Max(W) >= j
  BY GreatestBelow
<1> QED
  BY <1>1, <1>2

\* Where the places lo to hi are.
LEMMA Places ==
  ASSUME NEW n \in Nat, NEW lo \in 1..n, NEW hi \in 1..n
  PROVE  /\ lo \in Int /\ hi \in Int /\ \A i \in lo..hi : i \in 1..n
         /\ \E m \in Nat : /\ m = IF lo <= hi THEN hi - lo + 1 ELSE 0
                          /\ \A i \in 1..m : i \in 1..(hi - lo + 1) /\ lo + i - 1 \in 1..n
<1>1. CASE lo <= hi
  <2>1. hi - lo + 1 \in Nat
    BY <1>1
  <2> QED
    BY <1>1, <2>1
<1>2. CASE ~(lo <= hi)
  BY <1>2
<1> QED
  BY <1>1, <1>2

\* The characters lo to hi of a text, and of the same text with points for its commas.
LEMMA PartPointed ==
  ASSUME NEW C, "." \in C, NEW s \in Seq(C), NEW lo \in 1..Len(s), NEW hi \in 1..Len(s)
  PROVE  /\ SubSeq(s, lo, hi) \in Seq(C)
         /\ SubSeq(ReplaceAll(s, ",", "."), lo, hi) = ReplaceAll(SubSeq(s, lo, hi), ",", ".")
<1>0. PICK n, r, a, b, c : /\ n = Len(s) /\ r = ReplaceAll(s, ",", ".")
                           /\ a = SubSeq(s, lo, hi) /\ b = SubSeq(r, lo, hi)
                           /\ c = ReplaceAll(a, ",", ".")
  OBVIOUS
<1>1. /\ r \in Seq(C) /\ Len(r) = n /\ n \in Nat
      /\ \A i \in 1..n : r[i] = IF s[i] = "," THEN "." ELSE s[i]
  <2>1. PointedAs(r, s, C)
    BY <1>0, Pointed
  <2> QED
    BY <1>0, <2>1 DEF PointedAs
<1>2. lo \in 1..n /\ hi \in 1..n
  BY <1>0
<1>3. PICK m \in Nat : /\ m = IF lo <= hi THEN hi - lo + 1 ELSE 0
                       /\ \A i \in 1..m : i \in 1..(hi - lo + 1) /\ lo + i - 1 \in 1..n
  BY <1>1, <1>2, Places
<1>4. \A i \in lo..hi : s[i] \in C /\ r[i] \in C
  <2>1. \A i \in lo..hi : i \in 1..n
    BY <1>1, <1>2, Places
  <2>2. \A i \in 1..n : s[i] \in C /\ r[i] \in C
    BY <1>0, <1>1, ElementOfSeq
  <2> QED
    BY <2>1, <2>2
<1>5. lo \in Int /\ hi \in Int
  BY <1>1, <1>2, Places
<1>6. a \in Seq(C) /\ Len(a) = m /\ \A i \in 1..m : a[i] = s[lo + i - 1]
  <2>1. /\ SubSeq(s, lo, hi) \in Seq(C)
        /\ Len(SubSeq(s, lo, hi)) = IF lo <= hi THEN hi - lo + 1 ELSE 0
        /\ \A i \in 1..hi - lo + 1 : SubSeq(s, lo, hi)[i] = s[lo + i - 1]
    BY <1>4, <1>5, SubSeqProperties
  <2> QED
    BY <1>0, <1>3, <2>1
<1>7. b \in Seq(C) /\ Len(b) = m /\ \A i \in 1..m : b[i] = r[lo + i - 1]
  <2>1. /\ SubSeq(r, lo, hi) \in Seq(C)
        /\ Len(SubSeq(r, lo, hi)) = IF lo <= hi THEN hi - lo + 1 ELSE 0
        /\ \A i \in 1..hi - lo + 1 : SubSeq(r, lo, hi)[i] = r[lo + i - 1]
    BY <1>4, <1>5, SubSeqProperties
  <2> QED
    BY <1>0, <1>3, <2>1
<1>8. c \in Seq(C) /\ Len(c) = m /\ \A i \in 1..m : c[i] = IF a[i] = "," THEN "." ELSE a[i]
  <2>1. PointedAs(c, a, C)
    BY <1>0, <1>6, Pointed
  <2> QED
    BY <1>6, <2>1 DEF PointedAs
<1>9. \A i \in 1..m : b[i] = c[i]
  BY <1>1, <1>3, <1>6, <1>7, <1>8
<1>10. b = c
  BY <1>7, <1>8, <1>9, SeqEqual
<1> QED
  BY <1>0, <1>6, <1>10

\* So are the blanks around a text, and what is left of a text is a text.
LEMMA TrimsPointed ==
  ASSUME NEW C, "." \in C, NEW t \in Seq(C)
  PROVE  /\ TrimDollar(TrimSpace(ReplaceAll(t, ",", ".")))
              = ReplaceAll(TrimDollar(TrimSpace(t)), ",", ".")
         /\ TrimDollar(TrimSpace(t)) \in Seq(C)
<1>0. PICK n, r : n = Len(t) /\ r = ReplaceAll(t, ",", ".")
  OBVIOUS
<1>1. /\ r \in Seq(C) /\ Len(r) = n /\ n \in Nat
      /\ \A i \in 1..n : r[i] = IF t[i] = "," THEN "." ELSE t[i]
  <2>1. PointedAs(r, t, C)
    BY <1>0, Pointed
  <2> QED
    BY <1>0, <2>1 DEF PointedAs
<1>2. PICK W : W = {i \in 1..n : t[i] # " "}
  OBVIOUS
<1>3. {i \in 1..Len(t) : t[i] # " "} = W /\ {i \in 1..Len(r) : r[i] # " "} = W
  BY <1>0, <1>1, <1>2
<1>4. PICK lo, hi : /\ lo = CHOOSE i \in W : \A j \in W : i <= j
                    /\ hi = CHOOSE i \in W : \A j \in W : i >= j
  OBVIOUS
<1>5. TrimSpace(t) = IF W = {} THEN <<>> ELSE SubSeq(t, lo, hi)
  <2> DEFINE V == {i \in 1..Len(t) : t[i] # " "}
  <2>1. TrimSpace(t) = IF V = {} THEN <<>>
             ELSE SubSeq(t, CHOOSE i \in V : \A j \in V : i <= j,
                            CHOOSE i \in V : \A j \in V : i >= j)
    BY DEF TrimSpace
  <2>2. V = W
    BY <1>3
  <2> HIDE DEF V
  <2> QED
    BY <1>4, <2>1, <2>2
<1>6. TrimSpace(r) = IF W = {} THEN <<>> ELSE SubSeq(r, lo, hi)
  <2> DEFINE V == {i \in 1..Len(r) : r[i] # " "}
  <2>1. TrimSpace(r) = IF V = {} THEN <<>>
             ELSE SubSeq(r, CHOOSE i \in V : \A j \in V : i <= j,
                            CHOOSE i \in V : \A j \in V : i >= j)
    BY DEF TrimSpace
  <2>2. V = W
    BY <1>3
  <2> HIDE DEF V
  <2> QED
    BY <1>4, <2>1, <2>2
<1>7. TrimSpace(t) \in Seq(C) /\ TrimSpace(r) = ReplaceAll(TrimSpace(t), ",", ".")
  <2>1. CASE W = {}
    <3>1. <<>> \in Seq(C) /\ Len(<<>>) = 0
      BY EmptySeq
    <3>2. PICK e : e = ReplaceAll(<<>>, ",", ".")
      OBVIOUS
    <3>3. e \in Seq(C) /\ Len(e) = 0
      BY <3>1, <3>2, Pointed DEF PointedAs
    <3>4. e = <<>>
      BY <3>3, NoHead
    <3> QED
      BY <1>5, <1>6, <2>1, <3>1, <3>2, <3>4
  <2>2. CASE W # {}
    <3>1. W \in SUBSET (1..n)
      BY <1>2
    <3>2. lo \in 1..n /\ hi \in 1..n
      BY <1>1, <1>4, <2>2, <3>1, EndsFound
    <3>3. /\ SubSeq(t, lo, hi) \in Seq(C)
          /\ SubSeq(r, lo, hi) = ReplaceAll(SubSeq(t, lo, hi), ",", ".")
      BY <1>0, <3>2, PartPointed
    <3> QED
      BY <1>5, <1>6, <2>2, <3>3
  <2> QED
    BY <2>1, <2>2
<1>8. PICK s : s = TrimSpace(t)
  OBVIOUS
<1>9. TrimDollar(TrimSpace(r)) = ReplaceAll(TrimDollar(s), ",", ".")
  BY <1>7, <1>8, DollarPointed
<1>10. TrimDollar(s) \in Seq(C)
  <2>1. s \in Seq(C) /\ (s # <<>> => Tail(s) \in Seq(C))
    BY <1>7, <1>8, HeadTailProperties
  <2> QED
    BY <2>1 DEF TrimDollar
<1> QED
  BY <1>0, <1>8, <1>9, <1>10

-----------------------------------------------------------------------------
(* Texts that say a decimal.                                               *)

\* ParseUnsigned reads a text of digits as the number it spells.
LEMMA DigitsParsed ==
  ASSUME NEW text \in Seq(Digit), text # <<>>
  PROVE  ParseUnsigned(text) = Number(text) /\ ParseUnsigned(text) \in Nat
<1>1. Head(text) \in Digit
  OBVIOUS
<1>2. ~(text # <<>> /\ Head(text) \in {"+", "-"})
  BY <1>1, DigitsAre
<1>3. ToSet(text) \subseteq ToSet(Digits)
  BY DEF ToSet, Digit
<1>4. ParseUnsigned(text) = Number(text)
  BY <1>2, <1>3 DEF ParseUnsigned, Number
<1> QED
  BY <1>4, NumberType

\* What ParsePrice takes for the units and the cents of an input.
PartsOf(input, whole, frac) ==
  LET text == TrimDollar(TrimSpace(ReplaceAll(input, ",", ".")))
      dot  == SelectInSeq(text, LAMBDA c : c = ".")
  IN  /\ whole = IF dot = 0 THEN text ELSE SubSeq(text, 1, dot - 1)
      /\ frac = IF dot = 0 THEN <<"0", "0">> ELSE Padded(SubSeq(text, dot + 1, Len(text)))

\* A price with digits for both parts is their sum in cents, up to the cap.
LEMMA PartsParsed ==
  ASSUME NEW input, NEW whole \in Seq(Digit), whole # <<>>, NEW frac \in Seq(Digit), Len(frac) = 2,
         PartsOf(input, whole, frac)
  PROVE  ParsePrice(input) = IF Number(whole) > MaxPriceCents \div 100 THEN unreadable
                             ELSE 100 * Number(whole) + Number(frac)
<1>1. PICK units \in Nat, cents \in Nat : /\ units = ParseUnsigned(whole) /\ units = Number(whole)
                                          /\ cents = ParseUnsigned(frac) /\ cents = Number(frac)
  <2>1. Len(<<>>) = 0
    OBVIOUS
  <2>2. ASSUME frac = <<>> PROVE FALSE
    <3>1. Len(frac) = Len(<<>>)
      BY <2>2, Zenon
    <3> QED
      BY <2>1, <3>1
  <2>3. ParseUnsigned(whole) = Number(whole) /\ ParseUnsigned(whole) \in Nat
    BY DigitsParsed
  <2>4. ParseUnsigned(frac) = Number(frac) /\ ParseUnsigned(frac) \in Nat
    BY <2>2, DigitsParsed
  <2> QED
    BY <2>3, <2>4
<1>2. ParsePrice(input) =
        IF units = unreadable \/ cents = unreadable \/ units > MaxPriceCents \div 100
        THEN unreadable ELSE 100 * units + cents
  BY <1>1, Zenon DEF ParsePrice, PartsOf
<1>3. units # unreadable /\ cents # unreadable
  BY DEF unreadable
<1> QED
  BY <1>1, <1>2, <1>3, Zenon

\* The first point of a text is where SelectInSeq finds it.
LEMMA FirstPoint ==
  ASSUME NEW C, NEW text \in Seq(C), NEW point \in 1..Len(text), text[point] = ".",
         \A i \in 1..Len(text) : i < point => text[i] # "."
  PROVE  SelectInSeq(text, LAMBDA c : c = ".") = point
<1> DEFINE I == {i \in 1..Len(text) : text[i] = "."}
<1>1. point \in I /\ \A i \in I : point <= i
  OBVIOUS
<1>2. Min(I) = point
  <2> DEFINE P(i) == i \in I /\ \A j \in I : i <= j
  <2>1. P(point) /\ \A i : P(i) => i = point
    BY <1>1
  <2> QED
    BY <2>1 DEF Min
<1>3. SelectInSeq(text, LAMBDA c : c = ".") = IF I # {} THEN Min(I) ELSE 0
  BY DEF SelectInSeq
<1> HIDE DEF I
<1> QED
  BY <1>1, <1>2, <1>3

\* A text of digits has no comma to replace.
LEMMA DigitsKept ==
  ASSUME NEW s \in Seq(Digit)
  PROVE  ReplaceAll(s, ",", ".") = s
<1>1. PICK n : n = Len(s) /\ DOMAIN s = 1..n /\ \A i \in 1..n : s[i] \in Digit
  OBVIOUS
<1>2. ReplaceAll(s, ",", ".") = [i \in 1..n |-> s[i]]
  BY <1>1, DigitsAre DEF ReplaceAll
<1>3. s = [i \in DOMAIN s |-> s[i]]
  OBVIOUS
<1> QED
  BY <1>1, <1>2, <1>3

\* No digits spell zero.
LEMMA NumberOfNone == Number(<<>>) = 0
<1>1. PICK e : e = <<>>
  OBVIOUS
<1>2. DOMAIN e = 1..0 /\ 0 \in Nat
  BY <1>1
<1>3. Number(e) = Upto(e, 0) /\ Upto(e, 0) = 0
  BY <1>2, ReadFromLeft
<1> QED
  BY <1>1, <1>3

\* Zero is a digit and worth nothing.
LEMMA ZeroIsDigit == "0" \in Digit /\ DigitValue("0") = 0
<1>1. Digits[1] = "0" /\ 1 \in 1..10 /\ 1 - 1 = 0
  BY DEF Digits
<1>2. Digits[1] \in Digit /\ DigitValue(Digits[1]) = 1 - 1
  BY <1>1, DigitsAre, DigitValues
<1> QED
  BY <1>1, <1>2

\* Two digits spell tens and ones.
LEMMA NumberOfTwo ==
  ASSUME NEW a \in Digit, NEW b \in Digit
  PROVE  Number(<<a, b>>) = 10 * DigitValue(a) + DigitValue(b)
<1>1. <<a>> \in Seq(Digit) /\ Append(<<a>>, b) = <<a, b>>
  <2>1. <<a>> \in Seq(Digit)
    OBVIOUS
  <2> DEFINE two == Append(<<a>>, b)
  <2>2. two \in Seq(Digit) /\ Len(two) = 2 /\ two[1] = a /\ two[2] = b
    BY <2>1, AppendProperties
  <2> HIDE DEF two
  <2>3. two = <<a, b>>
    BY <2>2
  <2> QED
    BY <2>1, <2>3 DEF two
<1>2. Number(Append(<<a>>, b)) = 10 * Number(<<a>>) + DigitValue(b)
  BY <1>1, NumberAppended
<1> QED
  BY <1>1, <1>2, NumberOfOne

\* The decimals of a text, as the two digits ParsePrice makes of them.
LEMMA PaddedReads ==
  ASSUME NEW decimals \in Seq(Digit), Len(decimals) \in {1, 2}
  PROVE  /\ Padded(decimals) \in Seq(Digit) /\ Len(Padded(decimals)) = 2
         /\ Number(Padded(decimals)) = (IF Len(decimals) = 1 THEN 10 ELSE 1) * Number(decimals)
<1>1. Number(decimals) \in Nat
  BY NumberType
<1>2. CASE Len(decimals) = 1
  <2>1. Padded(decimals) = Append(decimals, "0")
    BY <1>2 DEF Padded
  <2>2. Number(Append(decimals, "0")) = 10 * Number(decimals)
    BY <1>1, NumberAppended, ZeroIsDigit
  <2>3. Append(decimals, "0") \in Seq(Digit) /\ Len(Append(decimals, "0")) = 2
    <3>1. PICK zero \in Digit : zero = "0"
      BY ZeroIsDigit
    <3>2. Append(decimals, zero) \in Seq(Digit) /\ Len(Append(decimals, zero)) = Len(decimals) + 1
      BY AppendProperties
    <3> QED
      BY <1>2, <3>1, <3>2
  <2> QED
    BY <1>2, <2>1, <2>2, <2>3
<1>3. CASE Len(decimals) = 2
  <2>1. Padded(decimals) = decimals
    BY <1>3 DEF Padded
  <2> QED
    BY <1>1, <1>3, <2>1
<1> QED
  BY <1>2, <1>3

\* A text that says a decimal is read as that decimal to the cent, and refused only above the
\* cap: "the digits are counted, never divided" (ParsePrice).
THEOREM DecimalRead ==
  ASSUME NEW C, "." \in C, NEW input \in Seq(C), IsDecimal(TrimDollar(TrimSpace(input)))
  PROVE  LET says == DecimalCents(TrimDollar(TrimSpace(input))) IN
           \/ ParsePrice(input) = says
           \/ ParsePrice(input) = unreadable /\ says > MaxPriceCents
<1>1. PICK t, r : t = TrimDollar(TrimSpace(input)) /\ r = ReplaceAll(t, ",", ".")
  OBVIOUS
<1>2. t \in Seq(C) /\ TrimDollar(TrimSpace(ReplaceAll(input, ",", "."))) = r
  BY <1>1, TrimsPointed
<1>3. PICK n \in Nat : n = Len(t) /\ DOMAIN t = 1..n
  BY <1>2, LenProperties
<1>4. r \in Seq(C) /\ Len(r) = n /\ \A i \in 1..n : r[i] = IF t[i] = "," THEN "." ELSE t[i]
  <2>1. PointedAs(r, t, C)
    BY <1>1, <1>2, Pointed
  <2> QED
    BY <1>3, <2>1 DEF PointedAs
<1>5. PICK point \in 1..n + 1 :
        /\ point > 1 /\ n - point \in {-1, 1, 2}
        /\ \A i \in 1..n : IF i = point THEN t[i] \in {".", ","} ELSE t[i] \in Digit
  BY <1>1, <1>3 DEF IsDecimal, Digit
<1>6. PICK whole, decimals : whole = SubSeq(t, 1, point - 1) /\ decimals = SubSeq(t, point + 1, n)
  OBVIOUS
<1>7. /\ \A i \in 1..n : i # point => t[i] \in Digit /\ t[i] \notin {".", ","}
      /\ point \in 1..n => t[point] \in {".", ","}
  BY <1>5, DigitsAre
<1>13. point > 1 /\ (point = n + 1 \/ n = point + 1 \/ n = point + 2)
  <2>1. point > 1 /\ n - point \in {-1, 1, 2}
    BY <1>5
  <2> QED
    BY <2>1
<1>14. /\ \A i \in 1..(point - 1) : i \in 1..n /\ i # point
       /\ point - 1 \in Int /\ 1 <= point - 1
       /\ point # n + 1 => point \in 1..n
  BY <1>13
<1>8. DecimalCents(t) =
        100 * Reading(whole) + (IF Len(decimals) = 1 THEN 10 ELSE 1) * Reading(decimals)
  <2> DEFINE P(p) == /\ p \in 1..n + 1
                     /\ p = n + 1 \/ t[p] \in {".", ","}
                     /\ \A i \in 1..p - 1 : t[i] \notin {".", ","}
  <2>1. P(point)
    BY <1>7, <1>14
  <2>2. ASSUME NEW p \in 1..n + 1, P(p) PROVE p = point
    <3>1. CASE p < point
      <4>1. p \in 1..n /\ p # point /\ p # n + 1
        BY <3>1
      <4> QED
        BY <1>7, <2>2, <4>1
    <3>2. CASE p > point
      <4>1. point \in 1..p - 1 /\ point \in 1..n
        BY <3>2
      <4> QED
        BY <1>7, <2>2, <4>1
    <3>3. p \in Int /\ point \in Int
      OBVIOUS
    <3> QED
      BY <3>1, <3>2, <3>3
  <2>3. (CHOOSE p \in 1..n + 1 : /\ p = n + 1 \/ t[p] \in {".", ","}
                                 /\ \A i \in 1..p - 1 : t[i] \notin {".", ","}) = point
    BY <2>1, <2>2
  <2> QED
    BY <1>3, <1>6, <2>3, Zenon DEF DecimalCents
<1>9. whole \in Seq(Digit) /\ whole # <<>>
  <2>1. \A i \in 1..(point - 1) : t[i] \in Digit
    BY <1>7, <1>14
  <2>2. 1 \in Int /\ point - 1 \in Int /\ 1 <= point - 1
    BY <1>14
  <2>3. SubSeq(t, 1, point - 1) \in Seq(Digit) /\ Len(SubSeq(t, 1, point - 1)) # 0
    BY <2>1, <2>2, SubSeqProperties
  <2> QED
    BY <1>6, <2>3, NoHead
<1>10. Number(whole) \in Nat /\ Reading(whole) = Number(whole)
  BY <1>9, NumberType, ReadingIsNumber
<1>11. PICK frac \in Seq(Digit) :
         /\ Len(frac) = 2 /\ PartsOf(input, whole, frac)
         /\ Number(frac) = (IF Len(decimals) = 1 THEN 10 ELSE 1) * Reading(decimals)
  <2>1. CASE point = n + 1
    <3>1. SelectInSeq(r, LAMBDA c : c = ".") = 0
      <4> DEFINE I == {i \in 1..Len(r) : r[i] = "."}
      <4>1. I = {}
        <5>1. \A i \in 1..n : i # point
          BY <2>1
        <5>2. \A i \in 1..n : r[i] # "."
          BY <1>4, <1>7, <5>1
        <5> QED
          BY <1>4, <5>2
      <4>2. SelectInSeq(r, LAMBDA c : c = ".") = IF I # {} THEN Min(I) ELSE 0
        BY DEF SelectInSeq
      <4> HIDE DEF I
      <4> QED
        BY <4>1, <4>2
    <3>2. whole = r
      <4>1. whole = t
        <5>1. point - 1 = n
          BY <2>1
        <5> QED
          BY <1>2, <1>3, <1>6, <5>1, SubSeqFull
      <4> QED
        BY <1>1, <1>9, <4>1, DigitsKept
    <3>3. PICK zeros : zeros = <<"0", "0">>
      OBVIOUS
    <3>4. PartsOf(input, whole, zeros)
      BY <1>2, <3>1, <3>2, <3>3, Zenon DEF PartsOf
    <3>5. zeros \in Seq(Digit) /\ Len(zeros) = 2
      BY <3>3, ZeroIsDigit
    <3>6. Number(zeros) = 0
      BY <3>3, NumberOfTwo, ZeroIsDigit
    <3>7. decimals = <<>>
      <4>1. point + 1 \in Int /\ n \in Int /\ n < point + 1
        BY <2>1
      <4> QED
        BY <1>6, <4>1, SubSeqEmpty
    <3>8. Reading(decimals) = 0 /\ Len(decimals) = 0
      <4>1. <<>> \in Seq(Digit) /\ Len(<<>>) = 0
        BY EmptySeq
      <4> QED
        BY <3>7, <4>1, NumberOfNone, ReadingIsNumber
    <3> QED
      BY <3>4, <3>5, <3>6, <3>8
  <2>2. CASE point # n + 1
    <3>0. point \in 1..n /\ point - 1 \in 1..n /\ 1 \in 1..n /\ point + 1 \in 1..n /\ n \in 1..n
      BY <1>13, <2>2
    <3>1. SelectInSeq(r, LAMBDA c : c = ".") = point
      <4>1. r[point] = "."
        BY <1>4, <1>7, <3>0
      <4>2. \A i \in 1..n : i < point => r[i] # "."
        <5>1. \A i \in 1..n : i < point => i # point
          OBVIOUS
        <5> QED
          BY <1>4, <1>7, <5>1
      <4>3. point \in 1..Len(r) /\ \A i \in 1..Len(r) : i < point => r[i] # "."
        BY <1>4, <3>0, <4>2
      <4> QED
        BY <1>4, <4>1, <4>3, FirstPoint
    <3>2. decimals \in Seq(Digit) /\ Len(decimals) \in {1, 2}
      <4>1. \A i \in (point + 1)..n : t[i] \in Digit
        <5>1. \A i \in (point + 1)..n : i \in 1..n /\ i # point
          OBVIOUS
        <5> QED
          BY <1>7, <5>1
      <4>2. point + 1 \in Int /\ n \in Int /\ point + 1 <= n /\ n - (point + 1) + 1 \in {1, 2}
        BY <1>13, <2>2
      <4>3. /\ SubSeq(t, point + 1, n) \in Seq(Digit)
            /\ Len(SubSeq(t, point + 1, n)) = n - (point + 1) + 1
        BY <4>1, <4>2, SubSeqProperties
      <4> QED
        BY <1>6, <4>2, <4>3
    <3>3. SubSeq(r, 1, point - 1) = whole
      <4>1. PICK lo \in 1..Len(t), hi \in 1..Len(t) : lo = 1 /\ hi = point - 1
        BY <1>3, <3>0
      <4>2. SubSeq(ReplaceAll(t, ",", "."), lo, hi) = ReplaceAll(SubSeq(t, lo, hi), ",", ".")
        BY <1>2, PartPointed
      <4>3. SubSeq(r, 1, point - 1) = ReplaceAll(whole, ",", ".")
        BY <1>1, <1>6, <4>1, <4>2
      <4> QED
        BY <1>9, <4>3, DigitsKept
    <3>4. SubSeq(r, point + 1, n) = decimals
      <4>1. PICK lo \in 1..Len(t), hi \in 1..Len(t) : lo = point + 1 /\ hi = n
        BY <1>3, <3>0
      <4>2. SubSeq(ReplaceAll(t, ",", "."), lo, hi) = ReplaceAll(SubSeq(t, lo, hi), ",", ".")
        BY <1>2, PartPointed
      <4>3. SubSeq(r, point + 1, n) = ReplaceAll(decimals, ",", ".")
        BY <1>1, <1>6, <4>1, <4>2
      <4> QED
        BY <3>2, <4>3, DigitsKept
    <3>5. point # 0
      BY <3>0
    <3>6. PartsOf(input, whole, Padded(decimals))
      BY <1>2, <1>4, <3>1, <3>3, <3>4, <3>5, Zenon DEF PartsOf
    <3>7. /\ Padded(decimals) \in Seq(Digit) /\ Len(Padded(decimals)) = 2
          /\ Number(Padded(decimals)) = (IF Len(decimals) = 1 THEN 10 ELSE 1) * Number(decimals)
      BY <3>2, PaddedReads
    <3>8. Reading(decimals) = Number(decimals)
      BY <3>2, ReadingIsNumber
    <3> QED
      BY <3>6, <3>7, <3>8
  <2> QED
    BY <2>1, <2>2
<1>12. ParsePrice(input) = IF Number(whole) > MaxPriceCents \div 100 THEN unreadable
                           ELSE 100 * Number(whole) + Number(frac)
  BY <1>9, <1>11, PartsParsed
<1>15. PICK units \in Nat, cents \in Nat : units = Number(whole) /\ cents = Number(frac)
  BY <1>10, <1>11, NumberType
<1>16. DecimalCents(t) = 100 * units + cents
  BY <1>8, <1>10, <1>11, <1>15
<1>17. ParsePrice(input) = IF units > MaxPriceCents \div 100 THEN unreadable ELSE 100 * units + cents
  BY <1>12, <1>15
<1>18. units > MaxPriceCents \div 100 => 100 * units + cents > MaxPriceCents
  BY PriceCapAssumption
<1> QED
  BY <1>1, <1>16, <1>17, <1>18

-----------------------------------------------------------------------------
(* A price as the form shows it.                                           *)

\* Characters of a price as the form shows it.
Shown == Digit \cup {"."}

\* Nothing in a price as the form shows it is replaced or trimmed.
LEMMA NothingTrimmed ==
  ASSUME NEW text \in Seq(Shown), text # <<>>
  PROVE  TrimDollar(TrimSpace(ReplaceAll(text, ",", "."))) = text
<1> DEFINE n == Len(text)
<1>1. n \in Nat /\ n >= 1 /\ DOMAIN text = 1..n /\ \A i \in 1..n : text[i] \in Shown
  OBVIOUS
<1>2. \A c \in Shown : c # "," /\ c # " " /\ c # "$"
  BY DigitsAre DEF Shown
<1>3. ReplaceAll(text, ",", ".") = text
  <2>1. ReplaceAll(text, ",", ".") = [i \in 1..n |-> text[i]]
    BY <1>1, <1>2 DEF ReplaceAll
  <2>2. text = [i \in DOMAIN text |-> text[i]]
    OBVIOUS
  <2> QED
    BY <1>1, <2>1, <2>2
<1>4. TrimSpace(text) = text
  <2> DEFINE written == {i \in 1..n : text[i] # " "}
  <2>1. written = 1..n
    BY <1>1, <1>2
  <2>2. written # {}
    <3>1. 1 \in 1..n
      BY <1>1
    <3> HIDE DEF written, n
    <3> QED
      BY <2>1, <3>1
  <2>3. (CHOOSE i \in 1..n : \A j \in 1..n : i <= j) = 1
    <3> DEFINE P(i) == i \in 1..n /\ \A j \in 1..n : i <= j
    <3>1. P(1) /\ \A i : P(i) => i = 1
      BY <1>1
    <3> QED
      BY <3>1
  <2>4. (CHOOSE i \in 1..n : \A j \in 1..n : i >= j) = n
    <3> DEFINE P(i) == i \in 1..n /\ \A j \in 1..n : i >= j
    <3>1. P(n) /\ \A i : P(i) => i = n
      BY <1>1
    <3> QED
      BY <3>1
  <2>5. TrimSpace(text) = SubSeq(text, 1, n)
    <3>1. TrimSpace(text) = IF written = {} THEN <<>>
             ELSE SubSeq(text, CHOOSE i \in written : \A j \in written : i <= j,
                               CHOOSE i \in written : \A j \in written : i >= j)
      BY DEF TrimSpace
    <3> HIDE DEF written, n
    <3> QED
      BY <2>1, <2>2, <2>3, <2>4, <3>1
  <2>6. SubSeq(text, 1, n) = text
    BY <1>1
  <2> QED
    BY <2>5, <2>6
<1>5. Head(text) # "$"
  <2>1. Head(text) = text[1] /\ 1 \in 1..n
    BY <1>1
  <2> HIDE DEF n
  <2> QED
    BY <1>1, <1>2, <2>1
<1> QED
  BY <1>3, <1>4, <1>5 DEF TrimDollar

\* Dollars in digits, a point and two digits are read part by part.
LEMMA DecimalParsed ==
  ASSUME NEW w \in Seq(Digit), w # <<>>, NEW a \in Digit, NEW b \in Digit,
         Number(w) <= MaxPriceCents \div 100
  PROVE  ParsePrice(w \o <<".", a, b>>) = 100 * Number(w) + Number(<<a, b>>)
<1> DEFINE text == w \o <<".", a, b>>
           n == Len(w)
<1>1. n \in Nat /\ n >= 1 /\ text \in Seq(Shown) /\ text # <<>> /\ Len(text) = n + 3
  BY DEF Shown
<1>2. /\ \A i \in 1..n : text[i] = w[i] /\ text[i] \in Digit
      /\ text[n + 1] = "." /\ text[n + 2] = a /\ text[n + 3] = b
  OBVIOUS
<1>3. SubSeq(text, 1, n) = w
  BY <1>1, <1>2
<1> HIDE DEF text, n
<1>4. TrimDollar(TrimSpace(ReplaceAll(text, ",", "."))) = text
  BY <1>1, NothingTrimmed
<1>5. PICK point \in 1..Len(text) : point = n + 1 /\ point # 0 /\ point - 1 = n /\ point + 1 = n + 2
  BY <1>1
<1>6. SelectInSeq(text, LAMBDA c : c = ".") = point
  <2>1. \A i \in 1..Len(text) : i < point => i \in 1..n
    BY <1>1, <1>5
  <2>2. \A i \in 1..Len(text) : i < point => text[i] # "."
    BY <1>2, <2>1, DigitsAre
  <2> QED
    BY <1>1, <1>2, <1>5, <2>2, FirstPoint
<1>7. PICK frac : frac = <<a, b>>
  OBVIOUS
<1>8. frac \in Seq(Digit) /\ Len(frac) = 2
  BY <1>7
<1>9. SubSeq(text, n + 2, n + 3) = frac
  <2> DEFINE last == SubSeq(text, n + 2, n + 3)
  <2>1. last \in Seq(Shown) /\ Len(last) = 2
    BY <1>1, SubSeqProperties
  <2>2. last[1] = text[n + 2] /\ last[2] = text[n + 3]
    BY <1>1, SubSeqProperties
  <2> HIDE DEF last
  <2>3. last = <<a, b>>
    BY <1>2, <2>1, <2>2
  <2> QED
    BY <1>7, <2>3 DEF last
<1>10. Padded(frac) = frac
  BY <1>8 DEF Padded
<1>11. PICK all : all = n + 3
  OBVIOUS
<1>12. PartsOf(text, w, frac)
  BY <1>1, <1>3, <1>4, <1>5, <1>6, <1>9, <1>10, <1>11, Zenon DEF PartsOf
<1>13. ParsePrice(text) = 100 * Number(w) + Number(frac)
  <2>1. Number(w) \in Nat /\ ~(Number(w) > MaxPriceCents \div 100)
    BY NumberType, PriceCapAssumption
  <2> QED
    BY <1>8, <1>12, <2>1, PartsParsed
<1> QED
  BY <1>7, <1>13 DEF text

\* What the form shows of a price up to the cap reads back as that price: priceInput and
\* ParsePrice lose no cent.
THEOREM FormReadBack ==
  ASSUME NEW c \in 0..MaxPriceCents
  PROVE  ParsePrice(PriceInput(c)) = c
<1> DEFINE u == c \div 100
           p == (c \div 10) % 10
           q == c % 10
<1>1. /\ u \in Nat /\ u <= MaxPriceCents \div 100
      /\ p \in 0..9 /\ q \in 0..9 /\ c = 100 * u + 10 * p + q
  BY PriceCapAssumption
<1>2. PICK w : w = FormatInt(u)
  OBVIOUS
<1>3. w \in Seq(Digit) /\ w # <<>> /\ Number(w) = u
  BY <1>1, <1>2, FormatIntSpells DEF Spells
<1>4. PICK a, b : a = Digits[p + 1] /\ b = Digits[q + 1]
  OBVIOUS
<1>5. a \in Digit /\ b \in Digit /\ DigitValue(a) = p /\ DigitValue(b) = q
  <2> HIDE DEF p, q
  <2>1. PICK i \in 1..10, j \in 1..10 : i = p + 1 /\ j = q + 1 /\ i - 1 = p /\ j - 1 = q
    BY <1>1
  <2> QED
    BY <1>4, <2>1, DigitsAre, DigitValues
<1>6. PriceInput(c) = w \o <<".", a, b>>
  BY <1>2, <1>4 DEF PriceInput
<1> HIDE DEF u, p, q
<1>7. ParsePrice(w \o <<".", a, b>>) = 100 * Number(w) + Number(<<a, b>>)
  BY <1>1, <1>3, <1>5, DecimalParsed
<1>8. Number(<<a, b>>) = 10 * p + q
  BY <1>5, NumberOfTwo
<1>9. ParsePrice(PriceInput(c)) = 100 * Number(w) + Number(<<a, b>>)
  BY <1>6, <1>7
<1>10. PICK tail : tail = Number(<<a, b>>)
  OBVIOUS
<1>11. ParsePrice(PriceInput(c)) = 100 * u + tail
  BY <1>3, <1>9, <1>10
<1> QED
  BY <1>1, <1>8, <1>10, <1>11
=============================================================================
