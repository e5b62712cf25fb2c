----------------------------- MODULE PriceText ------------------------------
(***************************************************************************)
(* How a price travels between the admin form and the database: ParsePrice *)
(* reads what was typed (a sequence of characters) into cents and          *)
(* priceInput writes cents back into the form. The characters matter here, *)
(* because a form that is saved unchanged must not move a price.           *)
(***************************************************************************)
EXTENDS Integers, Sequences, SequencesExt

CONSTANT MaxPriceCents   \* catalog.MaxPriceCents
ASSUME PriceCapAssumption == MaxPriceCents \in Nat

Digits == <<"0", "1", "2", "3", "4", "5", "6", "7", "8", "9">>
DigitValue(c) == (CHOOSE i \in 1..10 : Digits[i] = c) - 1

unreadable == -1

\* strconv.ParseInt(text, 10, 64) as far as ParsePrice goes: an optional sign and at
\* least one digit. A negative zero is zero; anything below zero is refused.
ParseUnsigned(text) ==
  LET signed == text # <<>> /\ Head(text) \in {"+", "-"}
      body   == IF signed THEN Tail(text) ELSE text
      value  == FoldLeft(LAMBDA n, c : 10 * n + DigitValue(c), 0, body)
  IN  IF \/ body = <<>>
         \/ ~ToSet(body) \subseteq ToSet(Digits)
         \/ signed /\ Head(text) = "-" /\ value > 0
      THEN unreadable ELSE value

TrimSpace(text) ==
  LET written == {i \in 1..Len(text) : text[i] # " "}
  IN  IF written = {} THEN <<>>
      ELSE SubSeq(text, CHOOSE i \in written : \A j \in written : i <= j,
                        CHOOSE i \in written : \A j \in written : i >= j)

TrimDollar(text) == IF text # <<>> /\ Head(text) = "$" THEN Tail(text) ELSE text

\* Fault (mutation run): a missing second decimal is taken for a missing first one.
PaddedLeft(frac) == IF Len(frac) = 1 THEN <<"0">> \o frac ELSE frac

\* The decimals after the separator, as two digits; without a separator there are none.
Padded(frac) == IF Len(frac) = 1 THEN Append(frac, "0") ELSE frac

\* ParsePrice: the cents, or `unreadable`.
ParsePrice(input) ==
  LET text  == TrimDollar(TrimSpace(ReplaceAll(input, ",", ".")))
      dot   == SelectInSeq(text, LAMBDA c : c = ".")
      whole == IF dot = 0 THEN text ELSE SubSeq(text, 1, dot - 1)
      frac  == IF dot = 0 THEN <<"0", "0">> ELSE Padded(SubSeq(text, dot + 1, Len(text)))
      units == ParseUnsigned(whole)
      cents == IF Len(frac) = 2 THEN ParseUnsigned(frac) ELSE unreadable
  IN  IF units = unreadable \/ cents = unreadable \/ units > MaxPriceCents \div 100
      THEN unreadable ELSE 100 * units + cents

\* AdminService.ChangePrice: what is stored at all.
PriceInRange(cents) == cents \in 1..MaxPriceCents

\* FormatInt of a natural number: its last digit behind the others.
FormatInt(n) ==
  LET written[m \in 0..n] ==
        IF m < 10 THEN <<Digits[m + 1]>>
        ELSE Append(written[m \div 10], Digits[(m % 10) + 1])
  IN  written[n]

\* Fault (mutation run): the cents are written without a leading zero.
PriceInputUnpadded(cents) ==
  FormatInt(cents \div 100) \o <<".">> \o FormatInt(cents % 100)

\* priceInput: a stored price as the form shows it.
PriceInput(cents) ==
  FormatInt(cents \div 100) \o <<".", Digits[((cents \div 10) % 10) + 1], Digits[(cents % 10) + 1]>>

-----------------------------------------------------------------------------
(* The reference: what a person reads in such a text.                      *)

\* The number the digits of a text spell, each weighed by its place.
Reading(text) ==
  LET place[k \in 0..Len(text)] == IF k = 0 THEN 1 ELSE 10 * place[k - 1]
  IN  SumFunction([i \in 1..Len(text) |-> DigitValue(text[i]) * place[Len(text) - i]])

\* Dollars, or dollars and one or two decimals after a point or a comma, in digits.
IsDecimal(text) ==
  \E point \in 1..Len(text) + 1 :
    /\ point > 1 /\ Len(text) - point \in {-1, 1, 2}
    /\ \A i \in 1..Len(text) :
         IF i = point THEN text[i] \in {".", ","} ELSE text[i] \in ToSet(Digits)

DecimalCents(text) ==
  LET point == CHOOSE p \in 1..Len(text) + 1 :
                 /\ p = Len(text) + 1 \/ text[p] \in {".", ","}
                 /\ \A i \in 1..p - 1 : text[i] \notin {".", ","}
      decimals == SubSeq(text, point + 1, Len(text))
  IN  100 * Reading(SubSeq(text, 1, point - 1))
        + (IF Len(decimals) = 1 THEN 10 ELSE 1) * Reading(decimals)
=============================================================================
