--------------------------- MODULE MCReceiptChecks ---------------------------
(* The layouts of amounts, names and answers the code says it has met. *)
EXTENDS ReceiptChecks

-----------------------------------------------------------------------------
(* How a bank writes an amount of cents. *)

Amounts == {1, 50, 1205, 4600, 12250, 99999, 100000, 180000, 1000000, 1001050,
            6520050, 10000000}

Whole(a) ==
    LET whole == a \div 100
    IN IF whole < 1000 THEN <<Digits(3, whole)>>
       ELSE <<Digits(3, whole \div 1000), Digits(3, whole % 1000)>>

Number(groups, seps) == [numbers |-> <<[groups |-> groups, seps |-> seps]>>, range |-> FALSE]

\* "6000", "122.5", "46.00", "1.800" and "10,000.00", with either separator.
Written(a) ==
    UNION { LET other   == CHOOSE o \in Separators : o # s
                between == [i \in 1 .. Len(Whole(a)) - 1 |-> other]
            IN {Number(Append(Whole(a), Digits(2, a % 100)), Append(between, s)),
                Number(<<Digits(6, a \div 100), Digits(2, a % 100)>>, <<s>>)}
               \cup (IF a % 100 = 0
                     THEN {Number(Whole(a), between), Number(<<Digits(6, a \div 100)>>, <<>>)}
                     ELSE {})
               \cup (IF a % 10 = 0
                     THEN {Number(<<Digits(6, a \div 100), Digits(1, (a \div 10) % 10)>>, <<s>>)}
                     ELSE {})
            : s \in Separators }

-----------------------------------------------------------------------------
(* How a bank prints a name. *)

natalia == <<"n", "a", "t", "a", "l">>
duran   == <<"d", "u", "r", "a", "n">>
duarte  == <<"d", "u", "a", "r">>
oliva   == <<"o", "l", "i", "v", "a">>
nadia   == <<"n", "a", "d", "i", "a">>

Owners == {<<Word(natalia), Word(duran)>>, <<Word(natalia), Particle, Word(oliva)>>,
           <<Word(nadia), Word(duarte)>>, <<Word(duran), Word(oliva), Word(natalia)>>,
           <<Word(nadia)>>}

Orders(n) == {f \in [1 .. n -> 1 .. n] : \A i, j \in 1 .. n : i # j => f[i] # f[j]}

Reordered(name) == {[i \in DOMAIN name |-> name[f[i]]] : f \in Orders(Len(name))}

Cut(name) == {[name EXCEPT ![i].letters = SubSeq(@, 1, n)] : i \in DOMAIN name, n \in {3, 4}}

Masks(name) == LET words == NormalizeName(name)
               IN [i \in DOMAIN words |-> Initial(Head(words[i]))]

Printed(name) ==
    LET own == {Words(name), name}
    IN Reordered(Masks(name))
       \cup UNION {Reordered(n) : n \in own \cup Cut(Words(name))
                                       \cup {Append(n, Word(oliva)) : n \in own}}

Others == Owners \cup {<<Word(<<"n">>), Word(duran)>>, <<Word(nadia), Word(<<"d", "u">>)>>,
                       <<Word(natalia)>>, <<Word(<<"n", "a">>), Word(oliva), Word(duran)>>}

Alike(a, b) == a = b \/ \A i \in 1 .. MinPrefix : i <= Len(a) /\ i <= Len(b) /\ a[i] = b[i]

-----------------------------------------------------------------------------
(* Answers of the model. *)

Due == ExpectedPayment(<<180000>>, "BOB", <<Word(natalia), Word(duran)>>)

Good == [amount      |-> Number(<<Digits(1, 1), Digits(3, 800), Digits(2, 0)>>, <<",", ".">>),
         currency    |-> "BOB", paid_at |-> Today - 7,
         beneficiary |-> <<Word(duran), Word(natalia)>>, reference |-> <<"2P">>]

Answers == {Good, [Good EXCEPT !.currency = Null, !.paid_at = Today],
            [Good EXCEPT !.amount = Number(<<Digits(4, 1700)>>, <<>>)],
            [Good EXCEPT !.reference = Placeholder]}

Passes(raw, expected) == Evaluate(ParseExtraction(raw), expected)

\* One field less, or another value where it matters.
Worse(raw) ==
    {[raw EXCEPT ![f] = v] : f \in {"amount", "paid_at", "beneficiary", "reference"},
                             v \in {Null, Placeholder}}
    \cup {[raw EXCEPT !.currency = "USD"], [raw EXCEPT !.paid_at = Today + 1],
          [raw EXCEPT !.paid_at = Today - 8],
          [raw EXCEPT !.amount = [@ EXCEPT !.range = TRUE]],
          [raw EXCEPT !.amount = Number(<<Digits(1, 1), Digits(1, 8)>>, <<".">>)]}

\* Nothing to compare with, or more than one thing.
Incomparable ==
    {ExpectedPayment(<<>>, "BOB", Due.beneficiary),
     ExpectedPayment(<<180000, 180000>>, "BOB", Due.beneficiary),
     ExpectedPayment(<<180000>>, "USD", Due.beneficiary),
     ExpectedPayment(<<180000>>, "BOB", Null)}

=============================================================================
