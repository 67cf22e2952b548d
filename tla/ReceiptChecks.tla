---------------------------- MODULE ReceiptChecks ----------------------------
(***************************************************************************)
(* What the code makes of the answer of the vision model: the amount as it *)
(* is written, the name of the beneficiary as each bank prints it, and the *)
(* six checks whose conjunction approves a payment.  Pure functions.       *)
(***************************************************************************)
EXTENDS Integers, Sequences, SequencesExt, FiniteSetsExt

CONSTANTS
    Null,           \* a field that could not be read
    Placeholder,    \* "<UNKNOWN>", "n/a", "no disponible"...
    Today           \* the day of the business, as a number

ASSUME NullIsNoNumber == Null \notin Int \cup {"BOB", "USD"} /\ Placeholder \notin Int
ASSUME TodayIsADay    == Today \in Int

-----------------------------------------------------------------------------
(* Amounts (money.py).  A written number is its groups of digits, each with *)
(* its length, and the separators between them; values are in thousandths.  *)

\* What the provers cannot compute.
ASSUME PowersOfTen == 10^1 = 10 /\ 10^2 = 100 /\ 10^3 = 1000 /\ 10^6 \in Nat

Separators == {".", ","}

Digits(n, v) == [len |-> n, val |-> v]

Glue(groups) == 1000 * FoldLeft(LAMBDA v, g : v * 10^g.len + g.val, 0, groups)

WithFraction(groups) == Glue(Front(groups)) + Last(groups).val * 10^(3 - Last(groups).len)

\* Mutant of ToDecimal: a point is decimal and a comma is of thousands.
ToDecimalAnglo(number) ==
    IF number.seps # <<>> /\ Last(number.seps) = "." /\ Last(number.groups).len <= 3
    THEN WithFraction(number.groups) ELSE Glue(number.groups)

\* With two separators the last is the decimal one; with one, the digits after
\* it tell; any other way of writing determines nothing.
ToDecimal(number) ==
    LET groups == number.groups
        seps   == number.seps
        tail   == Last(groups).len
        kinds  == ToSet(seps)
    IN CASE seps = <<>> -> Glue(groups)
         [] kinds = Separators ->
              IF \E i \in 1 .. Len(seps) - 1 : seps[i] = Last(seps) THEN Null
              ELSE WithFraction(groups)
         [] (\E s \in Separators : kinds = {s}) /\ (Len(groups) > 2 \/ tail = 3) ->
              IF \A i \in 2 .. Len(groups) : groups[i].len = 3 THEN Glue(groups) ELSE Null
         [] (\E s \in Separators : kinds = {s}) /\ Len(groups) = 2 /\ tail \in {1, 2} ->
              WithFraction(groups)
         [] OTHER -> Null

MaxAmount == 100000000

\* quantize(0.01): thousandths to cents, a half to the even one.
Cents(v) ==
    LET c == v \div 10
        m == v % 10
    IN IF m > 5 \/ (m = 5 /\ c % 2 = 1) THEN c + 1 ELSE c

\* parse_amount: one number, no word of a range, positive and not too large.
ParseAmount(text) ==
    IF Len(text.numbers) # 1 \/ text.range THEN Null
    ELSE LET v == ToDecimal(text.numbers[1])
         IN IF v = Null THEN Null
            ELSE IF v <= 0 \/ v > MaxAmount THEN Null ELSE Cents(v)

-----------------------------------------------------------------------------
(* Names (beneficiary.py).  A name is a sequence of words; a word has the   *)
(* letters that can be read, and may be a particle or end in a mask.        *)

MinPrefix == 3

Word(letters)   == [letters |-> letters, noise |-> FALSE, masked |-> FALSE]
Initial(letter) == [letters |-> <<letter>>, noise |-> FALSE, masked |-> TRUE]
Particle        == [letters |-> <<"d", "e">>, noise |-> TRUE, masked |-> FALSE]

\* Those that are no particles, in their order: kept[n] is what the first n leave.
Words(name) ==
    LET wanted == {w \in ToSet(name) : ~w.noise}
        kept[n \in 0 .. Len(name)] ==
            IF n = 0 THEN <<>>
            ELSE IF name[n] \in wanted THEN Append(kept[n - 1], name[n]) ELSE kept[n - 1]
    IN kept[Len(name)]

NormalizeName(name) == [i \in DOMAIN Words(name) |-> Words(name)[i].letters]

IsMasked(name) == \E w \in ToSet(name) : w.masked

\* Mutant of TokenPresent: without the length that makes a prefix count.
TokenPresentAtAll(token, candidates) ==
    \E c \in ToSet(candidates) : IsPrefix(token, c) \/ IsPrefix(c, token)

\* The word is there, whichever of the two was cut.
TokenPresent(token, candidates) ==
    \E c \in ToSet(candidates) :
        \/ token = c
        \/ /\ Len(token) >= MinPrefix /\ Len(c) >= MinPrefix
           /\ IsPrefix(token, c) \/ IsPrefix(c, token)

\* As many words, with the same initials as often.
MatchesMasked(expected, found) ==
    LET With(tokens, l) == {i \in DOMAIN tokens : Head(tokens[i]) = l}
    IN /\ Len(expected) = Len(found)
       /\ \A t \in ToSet(expected) :
            Cardinality(With(expected, Head(t))) = Cardinality(With(found, Head(t)))

MatchesBeneficiary(expected, found) ==
    LET e == NormalizeName(expected)
        f == NormalizeName(found)
    IN /\ e # <<>> /\ f # <<>>
       /\ IF IsMasked(found) THEN MatchesMasked(e, f)
          ELSE \A t \in ToSet(e) : TokenPresent(t, f)

-----------------------------------------------------------------------------
(* What the model answered, and what is kept of it (receipt_extraction.py). *)

\* A marker of "could not read it" is not a value.
TextField(value) == IF value = Placeholder THEN Null ELSE value

ReadAmount(value)   == IF value \in {Null, Placeholder} THEN Null ELSE ParseAmount(value)
ReadCurrency(value) == IF value \in {"BOB", "USD"} THEN value ELSE Null
ReadDate(value)     == IF value \in Int THEN value ELSE Null

\* Mutant of ParseExtraction: a marker passes for a number of transaction.
ParseMarkers(raw) ==
    [amount |-> ReadAmount(raw.amount), currency |-> ReadCurrency(raw.currency),
     paid_at |-> ReadDate(raw.paid_at),
     beneficiary |-> TextField(raw.beneficiary), reference |-> raw.reference]

\* Anything that is no amount, no currency and no date counts as unread.
ParseExtraction(raw) ==
    [amount      |-> ReadAmount(raw.amount),
     currency    |-> ReadCurrency(raw.currency),
     paid_at     |-> ReadDate(raw.paid_at),
     beneficiary |-> TextField(raw.beneficiary),
     reference   |-> TextField(raw.reference)]

-----------------------------------------------------------------------------
(* The checks (receipt_checks.py). *)

MaxReceiptAgeDays == 7

CheckPriceIsComparable(expected) == expected.amount # Null

CheckCurrency(extracted, expected) ==
    expected.currency = "BOB" /\ extracted.currency \in {Null, "BOB"}

CheckAmount(extracted, expected) ==
    extracted.amount # Null /\ expected.amount # Null /\ extracted.amount = expected.amount

CheckBeneficiary(extracted, expected) ==
    /\ expected.beneficiary # Null /\ extracted.beneficiary # Null
    /\ MatchesBeneficiary(expected.beneficiary, extracted.beneficiary)

CheckDate(extracted) ==
    extracted.paid_at # Null /\ Today - extracted.paid_at \in 0 .. MaxReceiptAgeDays

CheckReference(extracted) == extracted.reference # Null

\* Every check runs; the verdict is green when all pass.
Evaluate(extracted, expected) ==
    /\ CheckPriceIsComparable(expected)
    /\ CheckCurrency(extracted, expected)
    /\ CheckAmount(extracted, expected)
    /\ CheckBeneficiary(extracted, expected)
    /\ CheckDate(extracted)
    /\ CheckReference(extracted)

\* Without exactly one accepted service there is no price to compare with.
ExpectedPayment(prices, currency, beneficiary) ==
    IF Len(prices) = 1
    THEN [amount |-> prices[1], currency |-> currency, beneficiary |-> beneficiary]
    ELSE [amount |-> Null, currency |-> "BOB", beneficiary |-> beneficiary]
=============================================================================
