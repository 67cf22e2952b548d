-------------------------- MODULE Functions_proofs --------------------------
(***************************************************************************)
(* Proofs about the pure functions, for inputs of any size where           *)
(* MCFunctions takes a few: amounts, the plan of a delivery, the answers   *)
(* of the vision model, and names.                                         *)
(***************************************************************************)
EXTENDS MCFunctions, FunctionTheorems, FiniteSetTheorems, SequenceTheorems, WellFoundedInduction, TLAPS

(***************************************************************************)
(* Amounts.                                                                *)
(***************************************************************************)

\* A hundred thousand bolivianos, in cents.
UpToHere == 10000000

LEMMA UpToHereIsNat == UpToHere \in Nat
BY SMT DEF UpToHere

LEMMA MaxOfUpToTwo ==
    /\ Max({1}) = 1 /\ Max({2}) = 2 /\ Max({1, 2}) = 2
<1>1. \E x \in {1, 2} : \A y \in {1, 2} : x >= y
  OBVIOUS
<1> QED BY <1>1 DEF Max

\* The digits of one group, or of two with those of the first before those of the second.
LEMMA GlueIs ==
    ASSUME NEW groups, NEW n \in {1, 2}, DOMAIN groups = 1 .. n,
           \A i \in 1 .. n : groups[i].val \in Nat /\ 10^groups[i].len \in Nat
    PROVE  Glue(groups) = IF n = 1 THEN 1000 * groups[1].val
                          ELSE 1000 * (groups[1].val * 10^groups[2].len + groups[2].val)
<1> DEFINE Step(v, g) == v * 10^g.len + g.val
           It(f) == f = [s \in SUBSET (1 .. n) |->
                           IF s = {} THEN 0 ELSE Step(f[s \ {Max(s)}], groups[Max(s)])]
           h == [s \in SUBSET (1 .. n) |->
                   IF s = {} THEN 0
                   ELSE IF 2 \notin s THEN groups[1].val
                   ELSE IF 1 \notin s THEN groups[2].val
                   ELSE Step(groups[1].val, groups[2])]
<1>1. \A s \in SUBSET (1 .. n) : s = {} \/ s = {1} \/ (n = 2 /\ (s = {2} \/ s = {1, 2}))
  BY 1 .. 1 = {1}, 1 .. 2 = {1, 2}
<1>2. \A i \in 1 .. n : Step(0, groups[i]) = groups[i].val
  OBVIOUS
<1>3. It(h)
  <2> HIDE DEF Step
  <2>1. ASSUME NEW s \in SUBSET (1 .. n), s # {}
        PROVE  h[s] = Step(h[s \ {Max(s)}], groups[Max(s)])
    <3>1. CASE s = {1}
      <4>1. Max(s) = 1 /\ s \ {1} = {} /\ h[s] = groups[1].val /\ h[{}] = 0 /\ 1 \in 1 .. n
        BY <3>1, MaxOfUpToTwo
      <4> HIDE DEF h
      <4> QED BY <1>2, <4>1
    <3>2. CASE n = 2 /\ s = {2}
      <4>1. Max(s) = 2 /\ s \ {2} = {} /\ h[s] = groups[2].val /\ h[{}] = 0 /\ 2 \in 1 .. n
        BY <3>2, MaxOfUpToTwo
      <4> HIDE DEF h
      <4> QED BY <1>2, <4>1
    <3>3. CASE n = 2 /\ s = {1, 2}
      <4>1. /\ Max(s) = 2 /\ s \ {2} = {1} /\ h[s] = Step(groups[1].val, groups[2])
            /\ h[{1}] = groups[1].val
        <5>1. {1} \in SUBSET (1 .. n) /\ {1} # {} /\ 2 \notin {1}
          BY <3>3
        <5> QED BY <3>3, <5>1, MaxOfUpToTwo
      <4> HIDE DEF h
      <4> QED BY <4>1
    <3> QED BY <1>1, <2>1, <3>1, <3>2, <3>3
  <2>2. h[{}] = 0 /\ h = [s \in SUBSET (1 .. n) |-> h[s]]
    OBVIOUS
  <2> HIDE DEF h
  <2> QED BY <2>1, <2>2
<1> DEFINE iter == CHOOSE f : It(f)
<1>4. It(iter)
  <2> HIDE DEF It, h
  <2> QED BY <1>3
<1>5. Glue(groups) = 1000 * iter[1 .. n]
  BY DEF Glue, FoldLeft, MapThenFoldSet
<1>6. iter[{}] = 0 /\ \A s \in SUBSET (1 .. n) : s # {} =>
         iter[s] = Step(iter[s \ {Max(s)}], groups[Max(s)])
  <2> HIDE DEF iter, h, Step
  <2> QED BY <1>4
<1> HIDE DEF iter
<1>7. iter[{1}] = groups[1].val
  <2>1. {1} \in SUBSET (1 .. n) /\ {1} # {} /\ {1} \ {1} = {} /\ 1 \in 1 .. n
    OBVIOUS
  <2> HIDE DEF Step
  <2>2. iter[{1}] = Step(0, groups[1])
    BY <1>6, <2>1, MaxOfUpToTwo
  <2> QED BY <1>2, <2>1, <2>2
<1>8. CASE n = 1
  BY <1>5, <1>7, <1>8, 1 .. 1 = {1}
<1>9. CASE n = 2
  <2>1. {1, 2} \in SUBSET (1 .. n) /\ {1, 2} # {} /\ {1, 2} \ {2} = {1} /\ 1 .. n = {1, 2}
    BY <1>9
  <2>2. iter[1 .. n] = Step(groups[1].val, groups[2])
    <3> HIDE DEF Step
    <3>1. iter[{1, 2}] = Step(iter[{1, 2} \ {Max({1, 2})}], groups[Max({1, 2})])
      BY <1>6, <2>1
    <3> QED BY <1>7, <2>1, <3>1, MaxOfUpToTwo
  <2> QED BY <1>5, <1>9, <2>2
<1> QED BY <1>8, <1>9


\* One number whose value is that of an amount in cents is read as that amount.
LEMMA ReadAs ==
    ASSUME NEW a \in Nat, 1 <= a, a <= UpToHere, NEW groups, NEW seps,
           ToDecimal([groups |-> groups, seps |-> seps]) = 10 * a
    PROVE  ParseAmount(Number(groups, seps)) = a
<1>1. PICK text : text = Number(groups, seps)
  OBVIOUS
<1>2. Len(text.numbers) = 1 /\ ~text.range /\ text.numbers[1] = [groups |-> groups, seps |-> seps]
  BY <1>1 DEF Number
<1>3. Cents(10 * a) = a
  BY DEF Cents
<1>4. 10 * a \in Int /\ ~(10 * a <= 0) /\ ~(10 * a > MaxAmount)
  BY SMT DEF MaxAmount, UpToHere
<1> QED BY <1>1, <1>2, <1>3, <1>4, NullIsNoNumber DEF ParseAmount

\* The bolivianos and the decimals of an amount of cents.
LEMMA CentsOf ==
    ASSUME NEW a \in Nat
    PROVE  /\ a \div 100 \in Nat /\ a % 100 \in Nat /\ 10 * a = 1000 * (a \div 100) + (a % 100) * 10
           /\ a % 100 = 0 => 10 * a = 1000 * (a \div 100)
           /\ a % 10 = 0 => 10 * a = 1000 * (a \div 100) + ((a \div 10) % 10) * 100
           /\ (a \div 10) % 10 \in Nat
<1>2. PICK h \in Nat, r \in Nat : r <= 99 /\ a = 100 * h + r /\ h = a \div 100 /\ r = a % 100
  OBVIOUS
<1>5. PICK d \in Nat, u \in Nat : u <= 9 /\ a = 10 * d + u /\ d = a \div 10 /\ u = a % 10
  OBVIOUS
<1>6. PICK e \in Nat, v \in Nat : v <= 9 /\ d = 10 * e + v /\ v = d % 10
  OBVIOUS
<1>7. e = h
  <2>1. a = 100 * e + (10 * v + u) /\ 10 * v + u <= 99
    BY <1>5, <1>6
  <2> QED BY <1>2, <2>1
<1> QED BY <1>2, <1>5, <1>6, <1>7

LEMMA ThousandsOf ==
    ASSUME NEW h \in Nat
    PROVE  h \div 1000 \in Nat /\ h % 1000 \in Nat /\ h = (h \div 1000) * 1000 + (h % 1000)
OBVIOUS

LEMMA TwoSeparators ==
    /\ \A s \in Separators : Separators # {s} /\ \E o \in Separators : o # s
    /\ \A o, s \in Separators : o # s => {o, s} = Separators
<1>1. PICK p, q : p # q /\ Separators = {p, q}
  <2>1. "." # ","
    BY Zenon
  <2> QED BY <2>1, Zenon DEF Separators
<1> QED BY <1>1

\* A group of digits that the layouts of the banks use.
Sized(g) == g.len \in {1, 2, 3, 6} /\ g.val \in Nat

LEMMA SizedPower == ASSUME NEW g, Sized(g) PROVE 10^g.len \in Nat
<1>1. g.len \in {1, 2, 3, 6}
  BY DEF Sized
<1>2. CASE g.len = 1 BY <1>2, PowersOfTen
<1>3. CASE g.len = 2 BY <1>3, PowersOfTen
<1>4. CASE g.len = 3 BY <1>4, PowersOfTen
<1>5. CASE g.len = 6 BY <1>5, PowersOfTen
<1> QED BY <1>1, <1>2, <1>3, <1>4, <1>5

LEMMA WithoutSeparators ==
    ASSUME NEW g, Sized(g) PROVE ToDecimal([groups |-> <<g>>, seps |-> <<>>]) = 1000 * g.val
<1>1. Glue(<<g>>) = 1000 * g.val
  <2>1. PICK groups : groups = <<g>>
    OBVIOUS
  <2>2. DOMAIN groups = 1 .. 1 /\ \A i \in 1 .. 1 : groups[i] = g
    BY <2>1
  <2> QED BY <2>1, <2>2, SizedPower, GlueIs DEF Sized
<1>2. ToSet(<<>>) = {}
  BY DEF ToSet
<1>3. PICK number : number = [groups |-> <<g>>, seps |-> <<>>]
  OBVIOUS
<1>4. number.groups = <<g>> /\ number.seps = <<>> /\ ToSet(number.seps) = {}
  BY <1>2, <1>3
<1>6. Separators # {} /\ \A s \in Separators : {s} # {}
  BY Zenon DEF Separators
<1>5. ToDecimal(number) = Glue(number.groups)
  BY <1>4, <1>6 DEF ToDecimal
<1> QED BY <1>1, <1>3, <1>4, <1>5

LEMMA WithDecimals ==
    ASSUME NEW g, Sized(g), NEW d, Sized(d), d.len \in {1, 2}, NEW s \in Separators
    PROVE  ToDecimal([groups |-> <<g, d>>, seps |-> <<s>>]) =
             1000 * g.val + d.val * (IF d.len = 1 THEN 100 ELSE 10)
<1>1. PICK number : number = [groups |-> <<g, d>>, seps |-> <<s>>]
  OBVIOUS
<1>2. /\ Len(number.groups) = 2 /\ Last(number.groups) = d
      /\ number.seps # <<>> /\ ToSet(number.seps) = {s}
  BY <1>1 DEF Last, ToSet
<1>3. {s} # Separators
  BY TwoSeparators
<1>4. ToDecimal(number) = WithFraction(number.groups)
  BY <1>2, <1>3 DEF ToDecimal
<1>5. Glue(Front(number.groups)) = 1000 * g.val
  <2>1. PICK groups : groups = Front(number.groups)
    OBVIOUS
  <2>2. DOMAIN groups = 1 .. 1 /\ \A i \in 1 .. 1 : groups[i] = g
    BY <1>1, <2>1 DEF Front
  <2> QED BY <2>1, <2>2, SizedPower, GlueIs DEF Sized
<1>6. d.val * 10^(3 - d.len) = d.val * (IF d.len = 1 THEN 100 ELSE 10)
  <2>1. CASE d.len = 1
    BY <2>1, 3 - 1 = 2, PowersOfTen DEF Sized
  <2>2. CASE d.len = 2
    BY <2>2, 3 - 2 = 1, PowersOfTen DEF Sized
  <2> QED BY <2>1, <2>2
<1> QED BY <1>1, <1>2, <1>4, <1>5, <1>6 DEF WithFraction


LEMMA Thousands ==
    ASSUME NEW g, Sized(g), NEW h, Sized(h), h.len = 3, NEW s \in Separators
    PROVE  ToDecimal([groups |-> <<g, h>>, seps |-> <<s>>]) = 1000 * (g.val * 1000 + h.val)
<1>1. PICK number : number = [groups |-> <<g, h>>, seps |-> <<s>>]
  OBVIOUS
<1>2. /\ Len(number.groups) = 2 /\ Last(number.groups) = h
      /\ number.seps # <<>> /\ ToSet(number.seps) = {s}
      /\ \A i \in 2 .. Len(number.groups) : number.groups[i].len = 3
  BY <1>1 DEF Last, ToSet
<1>3. {s} # Separators
  BY TwoSeparators
<1>4. ToDecimal(number) = Glue(number.groups)
  BY <1>2, <1>3 DEF ToDecimal
<1>5. Glue(number.groups) = 1000 * (g.val * 1000 + h.val)
  <2>1. PICK groups : groups = number.groups
    OBVIOUS
  <2>2. DOMAIN groups = 1 .. 2 /\ groups[1] = g /\ groups[2] = h
    BY <1>1, <2>1
  <2>3. \A i \in 1 .. 2 : groups[i].val \in Nat /\ 10^groups[i].len \in Nat
    <3>1. \A i \in 1 .. 2 : i = 1 \/ i = 2
      OBVIOUS
    <3> QED BY <2>2, <3>1, SizedPower DEF Sized
  <2>4. Glue(groups) = 1000 * (groups[1].val * 10^groups[2].len + groups[2].val)
    BY <2>2, <2>3, GlueIs
  <2> QED BY <2>1, <2>2, <2>4, PowersOfTen
<1> QED BY <1>1, <1>4, <1>5

LEMMA ThousandsWithDecimals ==
    ASSUME NEW g, Sized(g), NEW h, Sized(h), h.len = 3, NEW d, Sized(d), d.len = 2,
           NEW o \in Separators, NEW s \in Separators, o # s
    PROVE  ToDecimal([groups |-> <<g, h, d>>, seps |-> <<o, s>>]) =
             1000 * (g.val * 1000 + h.val) + d.val * 10
<1>1. PICK number : number = [groups |-> <<g, h, d>>, seps |-> <<o, s>>]
  OBVIOUS
<1>2. /\ Len(number.groups) = 3 /\ Last(number.groups) = d
      /\ number.seps # <<>> /\ ToSet(number.seps) = {o, s}
      /\ ~\E i \in 1 .. Len(number.seps) - 1 : number.seps[i] = Last(number.seps)
  BY <1>1 DEF Last, ToSet
<1>3. {o, s} = Separators /\ ~\E x \in Separators : {o, s} = {x}
  BY TwoSeparators
<1>4. ToDecimal(number) = WithFraction(number.groups)
  BY <1>2, <1>3 DEF ToDecimal
<1>5. Glue(Front(number.groups)) = 1000 * (g.val * 1000 + h.val)
  <2>1. PICK groups : groups = Front(number.groups)
    OBVIOUS
  <2>2. DOMAIN groups = 1 .. 2 /\ groups[1] = g /\ groups[2] = h
    BY <1>1, <2>1 DEF Front
  <2>3. \A i \in 1 .. 2 : groups[i].val \in Nat /\ 10^groups[i].len \in Nat
    <3>1. \A i \in 1 .. 2 : i = 1 \/ i = 2
      OBVIOUS
    <3> QED BY <2>2, <3>1, SizedPower DEF Sized
  <2>4. Glue(groups) = 1000 * (groups[1].val * 10^groups[2].len + groups[2].val)
    BY <2>2, <2>3, GlueIs
  <2> QED BY <2>1, <2>2, <2>4, PowersOfTen
<1>6. d.val * 10^(3 - d.len) = d.val * 10
  BY 3 - 2 = 1, PowersOfTen DEF Sized
<1>7. WithFraction(number.groups) = Glue(Front(number.groups)) + d.val * 10
  BY <1>2, <1>6 DEF WithFraction
<1> QED BY <1>1, <1>4, <1>5, <1>7


LEMMA AppendTo ==
    ASSUME NEW x, NEW y, NEW z
    PROVE  /\ Append(<<>>, x) = <<x>> /\ Append(<<x>>, y) = <<x, y>>
           /\ Append(<<x, y>>, z) = <<x, y, z>>
<1>1. Append(<<>>, x) = <<x>>
  OBVIOUS
<1>2. Append(<<x>>, y) = <<x, y>>
  <2> DEFINE S == {x, y}
  <2>1. <<x>> \in Seq(S) /\ y \in S /\ <<x, y>> \in Seq(S)
    OBVIOUS
  <2>2. Len(<<x>>) = 1 /\ Len(<<x, y>>) = 2 /\ <<x>>[1] = x
    OBVIOUS
  <2>3. Len(Append(<<x>>, y)) = 2 /\ Append(<<x>>, y)[1] = x /\ Append(<<x>>, y)[2] = y
    BY <2>1, <2>2, AppendProperties
  <2>4. PICK s, t \in Seq(S) : s = Append(<<x>>, y) /\ t = <<x, y>>
    BY <2>1, AppendProperties
  <2>5. Len(s) = 2 /\ Len(t) = 2 /\ s[1] = t[1] /\ s[2] = t[2]
    BY <2>3, <2>4
  <2> HIDE DEF S
  <2>6. s = t
    BY <2>5, SeqEqual
  <2> QED BY <2>4, <2>6
<1>3. Append(<<x, y>>, z) = <<x, y, z>>
  <2> DEFINE S == {x, y, z}
  <2>1. <<x, y>> \in Seq(S) /\ z \in S /\ <<x, y, z>> \in Seq(S)
    OBVIOUS
  <2>2. Len(<<x, y>>) = 2 /\ Len(<<x, y, z>>) = 3
    OBVIOUS
  <2>3. /\ Len(Append(<<x, y>>, z)) = 3 /\ Append(<<x, y>>, z)[1] = x
        /\ Append(<<x, y>>, z)[2] = y /\ Append(<<x, y>>, z)[3] = z
    BY <2>1, <2>2, AppendProperties
  <2>4. PICK s, t \in Seq(S) : s = Append(<<x, y>>, z) /\ t = <<x, y, z>>
    BY <2>1, AppendProperties
  <2>5. Len(s) = 3 /\ Len(t) = 3 /\ s[1] = t[1] /\ s[2] = t[2] /\ s[3] = t[3]
    BY <2>3, <2>4
  <2> HIDE DEF S
  <2>6. s = t
    BY <2>5, SeqEqual
  <2> QED BY <2>4, <2>6
<1> QED BY <1>1, <1>2, <1>3

LEMMA DigitsAreSized ==
    ASSUME NEW n \in {1, 2, 3, 6}, NEW v \in Nat
    PROVE  Sized(Digits(n, v)) /\ Digits(n, v).len = n /\ Digits(n, v).val = v
BY DEF Sized, Digits

\* Whatever layout the bank uses, an amount is read as it was written, up to a
\* million (money.py:9-13).
THEOREM AmountsAreRead ==
    ASSUME NEW a \in 1 .. UpToHere, NEW text \in Written(a), input = <<"amount", a, text>>
    PROVE  AmountsReadAsWritten
<1> SUFFICES ParseAmount(text) = a
  BY DEF AmountsReadAsWritten
<1> DEFINE h == a \div 100
           between(o) == [i \in 1 .. Len(Whole(a)) - 1 |-> o]
<1>1. PICK s \in Separators, o \in Separators : o # s /\
         \/ text = Number(Append(Whole(a), Digits(2, a % 100)), Append(between(o), s))
         \/ text = Number(<<Digits(6, h), Digits(2, a % 100)>>, <<s>>)
         \/ a % 100 = 0 /\ text = Number(Whole(a), between(o))
         \/ a % 100 = 0 /\ text = Number(<<Digits(6, h)>>, <<>>)
         \/ a % 10 = 0 /\ text = Number(<<Digits(6, h), Digits(1, (a \div 10) % 10)>>, <<s>>)
  <2> DEFINE other(s) == CHOOSE o \in Separators : o # s
             W(s) == {Number(Append(Whole(a), Digits(2, a % 100)), Append(between(other(s)), s)),
                      Number(<<Digits(6, h), Digits(2, a % 100)>>, <<s>>)}
                     \cup (IF a % 100 = 0
                           THEN {Number(Whole(a), between(other(s))), Number(<<Digits(6, h)>>, <<>>)}
                           ELSE {})
                     \cup (IF a % 10 = 0
                           THEN {Number(<<Digits(6, h), Digits(1, (a \div 10) % 10)>>, <<s>>)}
                           ELSE {})
  <2>1. Written(a) = UNION {W(s) : s \in Separators}
    BY Zenon DEF Written
  <2>2. PICK s \in Separators : text \in W(s)
    <3> HIDE DEF W
    <3> QED BY <2>1
  <2>3. other(s) \in Separators /\ other(s) # s
    BY TwoSeparators
  <2> HIDE DEF other, between, h
  <2> QED BY <2>2, <2>3
<1>0. a \in Nat /\ 1 <= a /\ a <= UpToHere
  BY UpToHereIsNat
<1>2. /\ h \in Nat /\ a % 100 \in Nat /\ (a \div 10) % 10 \in Nat
      /\ h \div 1000 \in Nat /\ h % 1000 \in Nat /\ h = (h \div 1000) * 1000 + (h % 1000)
      /\ 10 * a = 1000 * h + (a % 100) * 10 /\ (a % 100 = 0 => 10 * a = 1000 * h)
      /\ a % 10 = 0 => 10 * a = 1000 * h + ((a \div 10) % 10) * 100
  BY <1>0, CentsOf, ThousandsOf
<1> HIDE DEF h
<1>3. CASE text = Number(<<Digits(6, h), Digits(2, a % 100)>>, <<s>>)
  <2>1. ToDecimal([groups |-> <<Digits(6, h), Digits(2, a % 100)>>, seps |-> <<s>>]) = 10 * a
    BY <1>2, DigitsAreSized, WithDecimals
  <2> QED BY <1>3, <2>1, <1>0, ReadAs
<1>4. CASE a % 100 = 0 /\ text = Number(<<Digits(6, h)>>, <<>>)
  <2>1. ToDecimal([groups |-> <<Digits(6, h)>>, seps |-> <<>>]) = 10 * a
    <3>1. PICK g : g = Digits(6, h)
      OBVIOUS
    <3>2. Sized(g) /\ g.val = h
      BY <1>2, <3>1, DigitsAreSized
    <3>3. ToDecimal([groups |-> <<g>>, seps |-> <<>>]) = 1000 * g.val
      BY <3>2, WithoutSeparators
    <3> QED BY <1>2, <1>4, <3>1, <3>2, <3>3
  <2> QED BY <1>4, <2>1, <1>0, ReadAs
<1>5. CASE a % 10 = 0 /\ text = Number(<<Digits(6, h), Digits(1, (a \div 10) % 10)>>, <<s>>)
  <2>1. ToDecimal([groups |-> <<Digits(6, h), Digits(1, (a \div 10) % 10)>>, seps |-> <<s>>]) = 10 * a
    BY <1>2, <1>5, DigitsAreSized, WithDecimals
  <2> QED BY <1>5, <2>1, <1>0, ReadAs
<1> DEFINE k == h \div 1000
           m == h % 1000
<1>6. CASE h < 1000
  <2>1. Whole(a) = <<Digits(3, h)>> /\ between(o) = <<>>
    BY <1>2, <1>6 DEF Whole, h
  <2> HIDE DEF between
  <2>2. /\ Append(Whole(a), Digits(2, a % 100)) = <<Digits(3, h), Digits(2, a % 100)>>
        /\ Append(between(o), s) = <<s>>
    BY <2>1, AppendTo, Zenon
  <2>3. ToDecimal([groups |-> <<Digits(3, h), Digits(2, a % 100)>>, seps |-> <<s>>]) = 10 * a
    BY <1>2, DigitsAreSized, WithDecimals
  <2>4. a % 100 = 0 => ToDecimal([groups |-> <<Digits(3, h)>>, seps |-> <<>>]) = 10 * a
    <3>1. PICK g : g = Digits(3, h)
      OBVIOUS
    <3>2. Sized(g) /\ g.val = h
      BY <1>2, <3>1, DigitsAreSized
    <3>3. ToDecimal([groups |-> <<g>>, seps |-> <<>>]) = 1000 * g.val
      BY <3>2, WithoutSeparators
    <3> QED BY <1>2, <3>1, <3>2, <3>3
  <2> HIDE DEF between
  <2>5. CASE text = Number(Append(Whole(a), Digits(2, a % 100)), Append(between(o), s))
    BY <1>0, <2>2, <2>3, <2>5, ReadAs
  <2>6. CASE a % 100 = 0 /\ text = Number(Whole(a), between(o))
    BY <1>0, <2>1, <2>4, <2>6, ReadAs
  <2> QED BY <1>1, <1>3, <1>4, <1>5, <2>5, <2>6
<1>7. CASE ~(h < 1000)
  <2>1. Whole(a) = <<Digits(3, k), Digits(3, m)>> /\ between(o) = <<o>>
    BY <1>2, <1>7 DEF Whole, h
  <2> HIDE DEF between
  <2>2. /\ Append(Whole(a), Digits(2, a % 100)) = <<Digits(3, k), Digits(3, m), Digits(2, a % 100)>>
        /\ Append(between(o), s) = <<o, s>>
    <3>1. \A x, y : Append(<<x>>, y) = <<x, y>>
      BY AppendTo
    <3>2. \A x, y, z : Append(<<x, y>>, z) = <<x, y, z>>
      BY AppendTo
    <3>3. Append(between(o), s) = <<o, s>>
      <4>1. PICK b : b = <<o>>
        OBVIOUS
      <4>2. Append(b, s) = <<o, s>>
        BY <3>1, <4>1
      <4>3. between(o) = b
        BY <2>1, <4>1
      <4> QED BY <4>2, <4>3
    <3>4. Append(Whole(a), Digits(2, a % 100)) = <<Digits(3, k), Digits(3, m), Digits(2, a % 100)>>
      <4>1. PICK w : w = <<Digits(3, k), Digits(3, m)>>
        OBVIOUS
      <4>2. Append(w, Digits(2, a % 100)) = <<Digits(3, k), Digits(3, m), Digits(2, a % 100)>>
        BY <3>2, <4>1
      <4>3. Whole(a) = w
        BY <2>1, <4>1
      <4> QED BY <4>2, <4>3
    <3> QED BY <3>3, <3>4
  <2>0. k \in Nat /\ m \in Nat /\ h = k * 1000 + m
    BY <1>2
  <2> HIDE DEF k, m
  <2>3. ToDecimal([groups |-> <<Digits(3, k), Digits(3, m), Digits(2, a % 100)>>,
                   seps |-> <<o, s>>]) = 10 * a
    <3>1. PICK g, l, d : g = Digits(3, k) /\ l = Digits(3, m) /\ d = Digits(2, a % 100)
      OBVIOUS
    <3>2. /\ Sized(g) /\ g.val = k /\ Sized(l) /\ l.val = m /\ l.len = 3
          /\ Sized(d) /\ d.val = a % 100 /\ d.len = 2
      BY <1>2, <2>0, <3>1, DigitsAreSized
    <3>3. ToDecimal([groups |-> <<g, l, d>>, seps |-> <<o, s>>]) =
            1000 * (g.val * 1000 + l.val) + d.val * 10
      BY <1>1, <3>2, ThousandsWithDecimals
    <3> QED BY <1>2, <2>0, <3>1, <3>2, <3>3
  <2>4. a % 100 = 0 => ToDecimal([groups |-> <<Digits(3, k), Digits(3, m)>>, seps |-> <<o>>]) = 10 * a
    <3>1. PICK g, l : g = Digits(3, k) /\ l = Digits(3, m)
      OBVIOUS
    <3>2. Sized(g) /\ g.val = k /\ Sized(l) /\ l.val = m /\ l.len = 3
      BY <2>0, <3>1, DigitsAreSized
    <3>3. ToDecimal([groups |-> <<g, l>>, seps |-> <<o>>]) = 1000 * (g.val * 1000 + l.val)
      BY <1>1, <3>2, Thousands
    <3> QED BY <1>2, <2>0, <3>1, <3>2, <3>3
  <2>5. CASE text = Number(Append(Whole(a), Digits(2, a % 100)), Append(between(o), s))
    BY <1>0, <2>2, <2>3, <2>5, ReadAs
  <2>6. CASE a % 100 = 0 /\ text = Number(Whole(a), between(o))
    BY <1>0, <2>1, <2>4, <2>6, ReadAs
  <2> QED BY <1>1, <1>3, <1>4, <1>5, <2>5, <2>6
<1> QED BY <1>6, <1>7


-----------------------------------------------------------------------------
(* Links.  What the plan takes of a catalogue is a selection of it: links   *)
(* at places that increase, every place that is wanted among them.          *)

LEMMA Least ==
    ASSUME NEW T, T \subseteq Nat, T # {} PROVE \E x \in T : \A y \in T : x <= y
<1> DEFINE R == StrictSubsetOrdering(Nat)
           F == {0 .. x : x \in T}
<1>1. IsWellFoundedOn(R, FiniteSubsetsOf(Nat))
  BY FS_StrictSubsetOrderingWellFounded
<1>2. F \subseteq FiniteSubsetsOf(Nat) /\ F # {}
  <2>1. ASSUME NEW x \in T PROVE 0 .. x \in FiniteSubsetsOf(Nat)
    <3>1. IsFiniteSet(0 .. x)
      BY FS_Interval
    <3> QED
      BY <3>1 DEF FiniteSubsetsOf
  <2> QED
    BY <2>1
<1>3. PICK d \in F : \A e \in F : ~(<<e, d>> \in R)
  <2> HIDE DEF R, F
  <2> QED
    BY <1>1, <1>2, WFMin
<1>4. PICK x \in T : d = 0 .. x
  OBVIOUS
<1>5. ASSUME NEW y \in T, y < x PROVE FALSE
  <2>1. 0 .. y \subseteq 0 .. x /\ 0 .. y # 0 .. x /\ 0 .. x \subseteq Nat
    BY <1>5
  <2>2. 0 .. y \in F
    OBVIOUS
  <2>3. <<0 .. y, d>> \in R
    BY <1>4, <2>1 DEF StrictSubsetOrdering
  <2> QED
    BY <1>3, <2>2, <2>3
<1> QED
  BY <1>5

LEMMA Inductive ==
    ASSUME NEW n \in Nat, NEW P, 0 \in P, \A k \in 0 .. n : k < n /\ k \in P => k + 1 \in P
    PROVE  n \in P
<1> SUFFICES ASSUME n \notin P PROVE FALSE
  OBVIOUS
<1> DEFINE T == {k \in 0 .. n : k \notin P}
<1>1. PICK x \in T : \A y \in T : x <= y
  <2>1. T \subseteq Nat /\ T # {}
    OBVIOUS
  <2> HIDE DEF T
  <2> QED
    BY <2>1, Least
<1>2. x # 0 /\ x - 1 \in 0 .. n /\ x - 1 < n /\ x - 1 \in P
  BY <1>1
<1> QED
  BY <1>2

\* t is what is at the places T of the links, in their order: p says where.
SelectedBy(t, links, T, p) ==
    /\ p \in [1 .. Len(t) -> T]
    /\ \A j, k \in 1 .. Len(t) : j < k => p[j] < p[k]
    /\ \A i \in T : \E j \in 1 .. Len(t) : p[j] = i
    /\ \A j \in 1 .. Len(t) : t[j] = links[p[j]]

Selected(t, links, T) == \E p : SelectedBy(t, links, T, p)

\* The places of the first n links that are wanted.
Wanted(links, U, n) == {i \in 1 .. n : links[i] \in U}

LEMMA SelectedNext ==
    ASSUME NEW S, NEW links \in Seq(S), NEW U, NEW n \in Nat, n < Len(links),
           NEW t \in Seq(S), Selected(t, links, Wanted(links, U, n))
    PROVE  LET u == IF links[n + 1] \in U THEN Append(t, links[n + 1]) ELSE t
           IN u \in Seq(S) /\ Selected(u, links, Wanted(links, U, n + 1))
<1>1. PICK p : SelectedBy(t, links, Wanted(links, U, n), p)
  BY DEF Selected
<1>2. CASE links[n + 1] \notin U
  <2>1. Wanted(links, U, n + 1) = Wanted(links, U, n)
    BY <1>2 DEF Wanted
  <2> QED BY <1>1, <1>2, <2>1 DEF Selected
<1>3. CASE links[n + 1] \in U
  <2> DEFINE m == Len(t)
             u == Append(t, links[n + 1])
             q == [j \in 1 .. m + 1 |-> IF j = m + 1 THEN n + 1 ELSE p[j]]
             W == Wanted(links, U, n)
             V == Wanted(links, U, n + 1)
  <2>1. V = W \cup {n + 1} /\ \A i \in W : i \in 1 .. n
    BY <1>3 DEF Wanted
  <2>2. /\ m \in Nat /\ u \in Seq(S) /\ Len(u) = m + 1 /\ u[m + 1] = links[n + 1]
        /\ \A j \in 1 .. m : u[j] = t[j]
    OBVIOUS
  <2>3. p \in [1 .. m -> W] /\ \A j \in 1 .. m : p[j] \in W /\ q[j] = p[j]
    <3>1. p \in [1 .. m -> W]
      BY <1>1 DEF SelectedBy
    <3> HIDE DEF W, u
    <3>2. \A j \in 1 .. m : j \in 1 .. m + 1 /\ j # m + 1
      BY <2>2
    <3> QED BY <3>1, <3>2
  <2>4. q \in [1 .. m + 1 -> V] /\ q[m + 1] = n + 1
    BY <2>1, <2>2, <2>3
  <2>5. \A j, k \in 1 .. m + 1 : j < k => q[j] < q[k]
    <3> SUFFICES ASSUME NEW j \in 1 .. m + 1, NEW k \in 1 .. m + 1, j < k PROVE q[j] < q[k]
      OBVIOUS
    <3> HIDE DEF q, W, V, m, u
    <3>1. j \in 1 .. m /\ p[j] \in 1 .. n
      BY <2>1, <2>2, <2>3
    <3>2. CASE k = m + 1
      BY <2>3, <2>4, <3>1, <3>2
    <3>3. CASE k # m + 1
      <4>1. k \in 1 .. m
        BY <2>2, <3>3
      <4> QED BY <1>1, <2>3, <3>1, <4>1 DEF SelectedBy, m
    <3> QED BY <3>2, <3>3
  <2>6. \A i \in V : \E j \in 1 .. m + 1 : q[j] = i
    <3> SUFFICES ASSUME NEW i \in V PROVE \E j \in 1 .. m + 1 : q[j] = i
      OBVIOUS
    <3> HIDE DEF q, W, V, m, u
    <3>1. CASE i = n + 1
      BY <2>2, <2>4, <3>1
    <3>2. CASE i \in W
      <4>1. PICK j \in 1 .. m : p[j] = i
        BY <1>1, <3>2 DEF SelectedBy, m, W
      <4> QED BY <2>2, <2>3, <4>1
    <3> QED BY <2>1, <3>1, <3>2
  <2>7. \A j \in 1 .. m + 1 : u[j] = links[q[j]]
    <3> SUFFICES ASSUME NEW j \in 1 .. m + 1 PROVE u[j] = links[q[j]]
      OBVIOUS
    <3> HIDE DEF q, W, V, u
    <3>1. CASE j = m + 1
      BY <2>2, <2>4, <3>1
    <3>2. CASE j # m + 1
      <4>1. j \in 1 .. m
        BY <2>2, <3>2
      <4> QED BY <1>1, <2>2, <2>3, <4>1 DEF SelectedBy
    <3> QED BY <3>1, <3>2
  <2> HIDE DEF q, m
  <2>8. SelectedBy(u, links, V, q)
    <3> HIDE DEF u, V
    <3> QED BY <2>2, <2>4, <2>5, <2>6, <2>7 DEF SelectedBy
  <2> QED BY <1>3, <2>2, <2>8 DEF Selected
<1> QED BY <1>2, <1>3


LEMMA ThoseAreSelected ==
    ASSUME NEW S, NEW links \in Seq(S), NEW U
    PROVE  /\ Those(links, U) \in Seq(S)
           /\ Selected(Those(links, U), links, Wanted(links, U, Len(links)))
<1> DEFINE N == Len(links)
           F(f, k) == IF k = 0 THEN <<>>
                      ELSE IF links[k] \in U THEN Append(f[k - 1], links[k]) ELSE f[k - 1]
           Eq(f, n) == f = [k \in 0 .. n |-> F(f, k)]
<1>1. N \in Nat
  OBVIOUS
<1>2. \E f : Eq(f, N)
  <2> DEFINE P == {n \in Nat : \E f : Eq(f, n)}
  <2>1. 0 \in P
    <3> DEFINE g == [k \in 0 .. 0 |-> <<>>]
    <3>1. \A k \in 0 .. 0 : k = 0
      OBVIOUS
    <3>2. g = [k \in 0 .. 0 |-> F(g, k)]
      BY <3>1
    <3> QED BY <3>2
  <2>2. ASSUME NEW n \in 0 .. N, n < N, n \in P PROVE n + 1 \in P
    <3>1. PICK f : Eq(f, n)
      BY <2>2
    <3> DEFINE g == [k \in 0 .. n + 1 |-> IF k = n + 1 THEN F(f, k) ELSE f[k]]
    <3>2. \A k \in 0 .. n + 1 : g[k] = F(g, k)
      <4> SUFFICES ASSUME NEW k \in 0 .. n + 1 PROVE g[k] = F(g, k)
        OBVIOUS
      <4>1. k # 0 => k - 1 \in 0 .. n /\ k - 1 \in 0 .. n + 1 /\ k - 1 # n + 1
        BY <2>2
      <4>2. k # 0 => g[k - 1] = f[k - 1]
        BY <4>1
      <4>3. F(g, k) = F(f, k)
        <5> HIDE DEF g
        <5> QED BY <4>2
      <4>4. k # n + 1 => k \in 0 .. n
        BY <2>2
      <4>5. k # n + 1 => f[k] = F(f, k)
        <5> HIDE DEF F
        <5> QED BY <3>1, <4>4
      <4>6. g[k] = F(f, k)
        <5> HIDE DEF F
        <5> QED BY <4>5
      <4> HIDE DEF F, g
      <4> QED BY <4>3, <4>6
    <3>3. g = [k \in 0 .. n + 1 |-> g[k]]
      OBVIOUS
    <3>4. Eq(g, n + 1)
      <4> HIDE DEF F, g
      <4> QED BY <3>2, <3>3
    <3> HIDE DEF Eq, g
    <3> QED BY <2>2, <3>4
  <2> HIDE DEF P
  <2>3. N \in P
    BY <1>1, <2>1, <2>2, Inductive
  <2> QED BY <2>3 DEF P
<1> DEFINE kept == CHOOSE f : Eq(f, N)
<1>3. Eq(kept, N)
  <2> HIDE DEF Eq
  <2> QED BY <1>2
<1>4. Those(links, U) = kept[N]
  BY Zenon DEF Those
<1> HIDE DEF kept
<1>5. /\ kept[0] = <<>>
      /\ \A n \in 0 .. N : n < N => kept[n + 1] = F(kept, n + 1)
  <2>1. \A k \in 0 .. N : kept[k] = F(kept, k)
    <3> HIDE DEF F
    <3> QED BY <1>3
  <2>2. 0 \in 0 .. N /\ \A n \in 0 .. N : n < N => n + 1 \in 0 .. N
    BY <1>1
  <2>3. kept[0] = F(kept, 0)
    BY <2>1, <2>2
  <2>4. F(kept, 0) = <<>>
    OBVIOUS
  <2> HIDE DEF F
  <2> QED BY <2>1, <2>2, <2>3, <2>4
<1> DEFINE Q == {n \in Nat : kept[n] \in Seq(S) /\ Selected(kept[n], links, Wanted(links, U, n))}
<1>6. 0 \in Q
  <2>1. Wanted(links, U, 0) = {}
    BY DEF Wanted
  <2>2. SelectedBy(<<>>, links, {}, <<>>)
    BY DEF SelectedBy
  <2>3. Selected(<<>>, links, {})
    BY <2>2, Zenon DEF Selected
  <2>4. kept[0] = <<>> /\ <<>> \in Seq(S)
    BY <1>5
  <2>5. Selected(kept[0], links, Wanted(links, U, 0))
    BY <2>1, <2>3, <2>4, Zenon
  <2> QED BY <2>4, <2>5
<1>7. ASSUME NEW n \in 0 .. N, n < N, n \in Q PROVE n + 1 \in Q
  <2>1. (n + 1) - 1 = n /\ n + 1 # 0 /\ n \in Nat /\ n + 1 \in Nat
    OBVIOUS
  <2>2. kept[n + 1] = IF links[n + 1] \in U THEN Append(kept[n], links[n + 1]) ELSE kept[n]
    BY <1>5, <1>7, <2>1
  <2>3. PICK t \in Seq(S) : t = kept[n] /\ Selected(t, links, Wanted(links, U, n))
    BY <1>7
  <2>4. LET u == IF links[n + 1] \in U THEN Append(t, links[n + 1]) ELSE t
        IN u \in Seq(S) /\ Selected(u, links, Wanted(links, U, n + 1))
    BY <1>7, <2>1, <2>3, SelectedNext
  <2> QED BY <2>1, <2>2, <2>3, <2>4
<1> HIDE DEF Q
<1>8. N \in Q
  BY <1>1, <1>6, <1>7, Inductive
<1> QED BY <1>4, <1>8 DEF Q


\* The places of the links of these kinds that were filled in.
FilledOf(links, kinds) == {i \in DOMAIN links : links[i].kind \in kinds /\ links[i].url # Nothing}

LEMMA KindsAreSelected ==
    ASSUME NEW S, NEW links \in Seq(S), NEW kind
    PROVE  /\ OfKind(links, kind) \in Seq(S)
           /\ Selected(OfKind(links, kind), links, FilledOf(links, {kind}))
<1> DEFINE U == {l \in ToSet(links) : l.kind = kind /\ l.url # Nothing}
<1>1. Wanted(links, U, Len(links)) = FilledOf(links, {kind})
  BY DEF Wanted, FilledOf, ToSet
<1>2. OfKind(links, kind) = Those(links, U)
  BY DEF OfKind
<1> HIDE DEF U
<1> QED BY <1>1, <1>2, ThoseAreSelected

LEMMA SomeSelected ==
    ASSUME NEW S, NEW t \in Seq(S), NEW links, NEW T, Selected(t, links, T)
    PROVE  t # <<>> <=> T # {}
<1>1. PICK p : SelectedBy(t, links, T, p)
  BY DEF Selected
<1>2. \A i \in T : \E j \in 1 .. Len(t) : p[j] = i
  BY <1>1 DEF SelectedBy
<1>3. \A j \in 1 .. Len(t) : p[j] \in T
  BY <1>1 DEF SelectedBy
<1>4. Len(t) \in Nat /\ (t = <<>> <=> Len(t) = 0)
  OBVIOUS
<1>5. CASE t = <<>>
  BY <1>2, <1>4, <1>5
<1>6. CASE t # <<>>
  <2>1. 1 \in 1 .. Len(t)
    BY <1>4, <1>6
  <2> QED BY <1>3, <1>6, <2>1
<1> QED BY <1>5, <1>6

Continues(w, t) == \A j \in 1 .. Len(t) : w[j] = t[j]

SameTaken(links, T, X, w, n, V) ==
    \A i \in T, j \in 1 .. n : w[j] = links[i] => (j \in V <=> i \in X)

\* A selection of what was selected and then had something added is one of the
\* first, as long as what was added is not taken.
LEMMA SelectionOfSelection ==
    ASSUME NEW S, NEW links \in Seq(S), NEW T, T \subseteq 1 .. Len(links),
           NEW t \in Seq(S), Selected(t, links, T),
           NEW w, Continues(w, t),
           NEW V, V \subseteq 1 .. Len(t), NEW u \in Seq(S), Selected(u, w, V),
           NEW X, X \subseteq T, SameTaken(links, T, X, w, Len(t), V)
    PROVE  Selected(u, links, X)
<1> USE DEF Continues, SameTaken
<1>1. PICK p : SelectedBy(t, links, T, p)
  BY DEF Selected
<1>2. PICK r : SelectedBy(u, w, V, r)
  BY DEF Selected
<1> DEFINE q == [j \in 1 .. Len(u) |-> p[r[j]]]
<1>3. \A j \in 1 .. Len(t) : p[j] \in T /\ w[j] = links[p[j]]
  BY <1>1 DEF SelectedBy
<1>4. \A j \in 1 .. Len(u) : r[j] \in V /\ r[j] \in 1 .. Len(t)
  BY <1>2 DEF SelectedBy
<1>5. \A j \in 1 .. Len(u) : q[j] = p[r[j]] /\ q[j] \in X
  BY <1>3, <1>4
<1>6. q \in [1 .. Len(u) -> X]
  <2> HIDE DEF q
  <2>1. q = [j \in 1 .. Len(u) |-> q[j]]
    BY DEF q
  <2> QED BY <1>5, <2>1
<1> HIDE DEF q
<1>7. \A j, k \in 1 .. Len(u) : j < k => q[j] < q[k]
  <2> SUFFICES ASSUME NEW j \in 1 .. Len(u), NEW k \in 1 .. Len(u), j < k PROVE q[j] < q[k]
    OBVIOUS
  <2>1. r[j] < r[k]
    BY <1>2 DEF SelectedBy
  <2> QED BY <1>1, <1>4, <1>5, <2>1 DEF SelectedBy
<1>8. \A i \in X : \E j \in 1 .. Len(u) : q[j] = i
  <2> SUFFICES ASSUME NEW i \in X PROVE \E j \in 1 .. Len(u) : q[j] = i
    OBVIOUS
  <2>1. PICK k \in 1 .. Len(t) : p[k] = i
    BY <1>1 DEF SelectedBy
  <2>2. k \in V
    BY <1>3, <2>1
  <2>3. PICK j \in 1 .. Len(u) : r[j] = k
    BY <1>2, <2>2 DEF SelectedBy
  <2> QED BY <1>5, <2>1, <2>3
<1>9. \A j \in 1 .. Len(u) : u[j] = links[q[j]]
  <2> SUFFICES ASSUME NEW j \in 1 .. Len(u) PROVE u[j] = links[q[j]]
    OBVIOUS
  <2>1. u[j] = w[r[j]]
    BY <1>2 DEF SelectedBy
  <2> QED BY <1>3, <1>4, <1>5, <2>1
<1>10. SelectedBy(u, links, X, q)
  BY <1>6, <1>7, <1>8, <1>9 DEF SelectedBy
<1> QED BY <1>10 DEF Selected


\* l is what is at the places T of the links, each once, ordered by R.
PlacedBy(l, links, T, R, p) ==
    /\ p \in [1 .. Len(l) -> T]
    /\ \A j, k \in 1 .. Len(l) : j < k => <<p[j], p[k]>> \in R
    /\ \A i \in T : \E j \in 1 .. Len(l) : p[j] = i
    /\ \A j \in 1 .. Len(l) : l[j] = links[p[j]]

Placed(l, links, T, R) == \E p : PlacedBy(l, links, T, R, p)

LEMMA SelectedIsPlaced ==
    ASSUME NEW l, NEW links, NEW T, NEW R, Selected(l, links, T),
           \A i, j \in T : i < j => <<i, j>> \in R
    PROVE  Placed(l, links, T, R)
<1>1. PICK p : SelectedBy(l, links, T, p)
  BY DEF Selected
<1>2. PlacedBy(l, links, T, R, p)
  BY <1>1 DEF SelectedBy, PlacedBy
<1> QED BY <1>2 DEF Placed

LEMMA Concatenated ==
    ASSUME NEW S, NEW a \in Seq(S), NEW b \in Seq(S), NEW links, NEW A, NEW B, NEW R,
           Placed(a, links, A, R), Placed(b, links, B, R),
           \A i \in A, j \in B : <<i, j>> \in R
    PROVE  a \o b \in Seq(S) /\ Placed(a \o b, links, A \cup B, R)
<1>1. PICK p : PlacedBy(a, links, A, R, p)
  BY DEF Placed
<1>2. PICK r : PlacedBy(b, links, B, R, r)
  BY DEF Placed
<1> DEFINE m == Len(a)
           n == Len(b)
           l == a \o b
           q == [j \in 1 .. m + n |-> IF j <= m THEN p[j] ELSE r[j - m]]
<1>3. /\ m \in Nat /\ n \in Nat /\ l \in Seq(S) /\ Len(l) = m + n
      /\ \A j \in 1 .. m + n : l[j] = IF j <= m THEN a[j] ELSE b[j - m]
  OBVIOUS
<1>4. /\ \A j \in 1 .. m : p[j] \in A /\ a[j] = links[p[j]]
      /\ \A j, k \in 1 .. m : j < k => <<p[j], p[k]>> \in R
      /\ \A i \in A : \E j \in 1 .. m : p[j] = i
  BY <1>1 DEF PlacedBy
<1>5. /\ \A j \in 1 .. n : r[j] \in B /\ b[j] = links[r[j]]
      /\ \A j, k \in 1 .. n : j < k => <<r[j], r[k]>> \in R
      /\ \A i \in B : \E j \in 1 .. n : r[j] = i
  BY <1>2 DEF PlacedBy
<1> HIDE DEF m, n, l
<1>6. \A j \in 1 .. m + n : j \in 1 .. m \/ (~(j <= m) /\ j - m \in 1 .. n)
  BY <1>3
<1>7. \A j \in 1 .. m + n : q[j] = IF j <= m THEN p[j] ELSE r[j - m]
  OBVIOUS
<1>8. q = [j \in 1 .. m + n |-> q[j]]
  OBVIOUS
<1> HIDE DEF q
<1>9. q \in [1 .. m + n -> A \cup B]
  <2>1. ASSUME NEW j \in 1 .. m + n PROVE q[j] \in A \cup B
    <3>1. CASE j \in 1 .. m
      <4>1. q[j] = p[j]
        BY <1>3, <1>7, <3>1
      <4> QED BY <1>4, <3>1, <4>1
    <3>2. CASE ~(j <= m) /\ j - m \in 1 .. n
      <4>1. q[j] = r[j - m]
        BY <1>7, <3>2
      <4> QED BY <1>5, <3>2, <4>1
    <3> QED BY <1>6, <3>1, <3>2
  <2> QED BY <1>8, <2>1
<1>10. \A j, k \in 1 .. m + n : j < k => <<q[j], q[k]>> \in R
  <2> SUFFICES ASSUME NEW j \in 1 .. m + n, NEW k \in 1 .. m + n, j < k
               PROVE  <<q[j], q[k]>> \in R
    OBVIOUS
  <2>1. CASE k \in 1 .. m
    <3>1. j \in 1 .. m /\ q[j] = p[j] /\ q[k] = p[k]
      BY <1>3, <1>7, <2>1
    <3> QED BY <1>4, <2>1, <3>1
  <2>2. CASE j \in 1 .. m /\ k \notin 1 .. m
    <3>1. k - m \in 1 .. n /\ q[j] = p[j] /\ q[k] = r[k - m]
      BY <1>3, <1>6, <1>7, <2>2
    <3>2. p[j] \in A /\ r[k - m] \in B
      BY <1>4, <1>5, <2>2, <3>1
    <3> QED BY <3>1, <3>2
  <2>3. CASE j \notin 1 .. m
    <3>1. k \notin 1 .. m
      BY <1>3, <2>3
    <3>2. /\ j - m \in 1 .. n /\ k - m \in 1 .. n /\ j - m < k - m
          /\ q[j] = r[j - m] /\ q[k] = r[k - m]
      BY <1>3, <1>6, <1>7, <2>3, <3>1
    <3> QED BY <1>5, <3>2
  <2> QED BY <2>1, <2>2, <2>3
<1>11. \A i \in A \cup B : \E j \in 1 .. m + n : q[j] = i
  <2> SUFFICES ASSUME NEW i \in A \cup B PROVE \E j \in 1 .. m + n : q[j] = i
    OBVIOUS
  <2>1. CASE i \in A
    <3>1. PICK j \in 1 .. m : p[j] = i
      BY <1>4, <2>1
    <3>2. j \in 1 .. m + n /\ q[j] = p[j]
      BY <1>3, <1>7
    <3> QED BY <3>1, <3>2
  <2>2. CASE i \in B
    <3>1. PICK j \in 1 .. n : r[j] = i
      BY <1>5, <2>2
    <3>2. j + m \in 1 .. m + n /\ ~(j + m <= m) /\ (j + m) - m = j
      BY <1>3
    <3>3. q[j + m] = r[j]
      BY <1>7, <3>2
    <3> QED BY <3>1, <3>2, <3>3
  <2> QED BY <2>1, <2>2
<1>12. \A j \in 1 .. m + n : l[j] = links[q[j]]
  <2> SUFFICES ASSUME NEW j \in 1 .. m + n PROVE l[j] = links[q[j]]
    OBVIOUS
  <2>1. CASE j \in 1 .. m
    BY <1>3, <1>4, <1>7, <2>1
  <2>2. CASE ~(j <= m) /\ j - m \in 1 .. n
    <3>1. q[j] = r[j - m] /\ l[j] = b[j - m]
      BY <1>3, <1>7, <2>2
    <3> QED BY <1>5, <2>2, <3>1
  <2> QED BY <1>6, <2>1, <2>2
<1>13. PlacedBy(l, links, A \cup B, R, q)
  BY <1>3, <1>9, <1>10, <1>11, <1>12 DEF PlacedBy
<1> QED BY <1>3, <1>13 DEF Placed, l

LEMMA PlacedOnce ==
    ASSUME NEW S, NEW l \in Seq(S), NEW links, NEW T, NEW R, Placed(l, links, T, R),
           \A i \in T : <<i, i>> \notin R
    PROVE  /\ Len(l) = Cardinality(T)
           /\ ToSet(l) = {links[i] : i \in T}
<1>1. PICK p : PlacedBy(l, links, T, R, p)
  BY DEF Placed
<1>2. /\ p \in [1 .. Len(l) -> T]
      /\ \A j, k \in 1 .. Len(l) : j < k => <<p[j], p[k]>> \in R
      /\ \A i \in T : \E j \in 1 .. Len(l) : p[j] = i
      /\ \A j \in 1 .. Len(l) : l[j] = links[p[j]]
  BY <1>1 DEF PlacedBy
<1>3. Len(l) \in Nat /\ DOMAIN l = 1 .. Len(l)
  OBVIOUS
<1>4. Len(l) = Cardinality(T)
  <2>1. \A j, k \in 1 .. Len(l) : p[j] = p[k] => j = k
    <3> SUFFICES ASSUME NEW j \in 1 .. Len(l), NEW k \in 1 .. Len(l), p[j] = p[k], j # k
                 PROVE  FALSE
      OBVIOUS
    <3>1. p[j] \in T /\ (j < k \/ k < j)
      BY <1>2, <1>3
    <3> QED BY <1>2, <3>1
  <2>2. p \in Bijection(1 .. Len(l), T)
    BY <1>2, <2>1 DEF Bijection, Injection, Surjection, IsInjective
  <2>3. ExistsBijection(1 .. Len(l), T)
    BY <2>2 DEF ExistsBijection
  <2> QED BY <1>3, <2>3, FS_CountingElements
<1>5. ToSet(l) = {links[i] : i \in T}
  <2>1. ToSet(l) = {l[j] : j \in 1 .. Len(l)}
    BY <1>3 DEF ToSet
  <2>2. \A j \in 1 .. Len(l) : p[j] \in T
    BY <1>2
  <2> QED BY <1>2, <2>1, <2>2
<1> QED BY <1>4, <1>5

LEMMA OrderOfKinds ==
    /\ DOMAIN DeliveryKindOrder = 1 .. 3 /\ DeliveryKindOrder[1] = "whatsapp_group"
    /\ DeliveryKindOrder[2] = "meeting" /\ DeliveryKindOrder[3] = "other"
    /\ ToSet(DeliveryKindOrder) = {"whatsapp_group", "meeting", "other"}
    /\ ToSet(AccessKinds) = {"whatsapp_group", "meeting"}
<1>1. DeliveryKindOrder = <<"whatsapp_group", "meeting", "other">>
  <2> DEFINE S == {"whatsapp_group", "meeting", "other"}
  <2>0. /\ AccessKinds \in Seq(S) /\ <<"other">> \in Seq(S)
        /\ <<"whatsapp_group", "meeting", "other">> \in Seq(S)
    <3>1. \A x, y, z \in S : <<x>> \in Seq(S) /\ <<x, y>> \in Seq(S) /\ <<x, y, z>> \in Seq(S)
      <4> HIDE DEF S
      <4> QED OBVIOUS
    <3>2. "whatsapp_group" \in S /\ "meeting" \in S /\ "other" \in S
      OBVIOUS
    <3> HIDE DEF S
    <3> QED BY <3>1, <3>2 DEF AccessKinds
  <2>1. PICK a, b, c \in Seq(S) : a = AccessKinds /\ b = <<"other">> /\ c = a \o b
    <3> HIDE DEF S
    <3> QED BY <2>0, ConcatProperties
  <2>2. Len(a) = 2 /\ a[1] = "whatsapp_group" /\ a[2] = "meeting" /\ Len(b) = 1 /\ b[1] = "other"
    BY <2>1 DEF AccessKinds
  <2>3. Len(c) = 3 /\ c[1] = "whatsapp_group" /\ c[2] = "meeting" /\ c[3] = "other"
    <3> HIDE DEF S
    <3>1. /\ Len(c) = Len(a) + Len(b)
          /\ \A i \in 1 .. Len(a) : c[i] = a[i]
          /\ \A i \in Len(a) + 1 .. Len(a) + Len(b) : c[i] = b[i - Len(a)]
      BY <2>1, ConcatProperties
    <3> QED BY <2>2, <3>1
  <2>4. PICK d \in Seq(S) : d = <<"whatsapp_group", "meeting", "other">>
    BY <2>0
  <2>5. Len(d) = 3 /\ d[1] = c[1] /\ d[2] = c[2] /\ d[3] = c[3]
    BY <2>3, <2>4
  <2> HIDE DEF S
  <2>6. d = c
    BY <2>3, <2>5, SeqEqual
  <2> QED BY <2>1, <2>4, <2>6 DEF DeliveryKindOrder
<1>2. ToSet(AccessKinds) = {"whatsapp_group", "meeting"}
  BY DEF AccessKinds, ToSet
<1> QED BY <1>1, <1>2 DEF ToSet

LEMMA RankOfKinds ==
    ASSUME NEW l
    PROVE  /\ l.kind = "whatsapp_group" => Rank(l) = 1
           /\ l.kind = "meeting" => Rank(l) = 2
           /\ l.kind = "other" => Rank(l) = 3
<1> DEFINE RankOf(k) == CHOOSE r \in 1 .. 3 : DeliveryKindOrder[r] = k
<1>1. Rank(l) = RankOf(l.kind)
  BY OrderOfKinds DEF Rank
<1>2. \A r \in 1 .. 3 : r = 1 \/ r = 2 \/ r = 3
  OBVIOUS
<1>3. RankOf("whatsapp_group") = 1 /\ RankOf("meeting") = 2 /\ RankOf("other") = 3
  BY <1>2, OrderOfKinds
<1> HIDE DEF RankOf
<1> QED BY <1>1, <1>3

\* The lines are those of the three kinds, one kind after the other.
LEMMA LinesOfKinds ==
    ASSUME NEW S, NEW links,
           \A kind : OfKind(links, kind) \in Seq(S)
    PROVE  DeliveryLines(links) = (OfKind(links, "whatsapp_group") \o OfKind(links, "meeting"))
                                    \o OfKind(links, "other")
<1>1. PICK a, b, c \in Seq(S) : /\ a = OfKind(links, "whatsapp_group")
                                /\ b = OfKind(links, "meeting") /\ c = OfKind(links, "other")
  OBVIOUS
<1> DEFINE seqs == [i \in DOMAIN DeliveryKindOrder |-> OfKind(links, DeliveryKindOrder[i])]
           It(f) == f = [i \in 1 .. Len(seqs) |-> IF i = 1 THEN seqs[i] ELSE f[i - 1] \o seqs[i]]
           h == [i \in 1 .. 3 |-> IF i = 1 THEN a ELSE IF i = 2 THEN a \o b ELSE (a \o b) \o c]
<1>2. DOMAIN seqs = 1 .. 3 /\ seqs[1] = a /\ seqs[2] = b /\ seqs[3] = c
  BY <1>1, OrderOfKinds
<1>3. Len(seqs) = 3
  <2>1. seqs \in Seq(Seq(S))
    <3>1. seqs = [i \in 1 .. 3 |-> seqs[i]] /\ \A i \in 1 .. 3 : seqs[i] \in Seq(S)
      BY OrderOfKinds
    <3> HIDE DEF seqs
    <3> QED BY <3>1
  <2> HIDE DEF seqs
  <2> QED BY <1>2, <2>1
<1>4. DeliveryLines(links) = (CHOOSE f : It(f))[Len(seqs)]
  <2>1. DeliveryLines(links) = FlattenSeq(seqs)
    BY DEF DeliveryLines
  <2>2. Len(seqs) # 0
    <3> HIDE DEF seqs
    <3> QED BY <1>3
  <2> HIDE DEF seqs
  <2> QED BY <2>1, <2>2, Zenon DEF FlattenSeq
<1> HIDE DEF seqs
<1>5. It(h)
  <2>1. \A i \in 1 .. 3 : i = 1 \/ i = 2 \/ i = 3
    OBVIOUS
  <2>2. h[1] = a /\ h[2] = a \o b /\ h[3] = (a \o b) \o c
    OBVIOUS
  <2>3. h = [i \in 1 .. 3 |-> h[i]]
    OBVIOUS
  <2> HIDE DEF h
  <2>4. \A i \in 1 .. 3 : h[i] = IF i = 1 THEN seqs[i] ELSE h[i - 1] \o seqs[i]
    <3>1. 2 - 1 = 1 /\ 3 - 1 = 2
      OBVIOUS
    <3> QED BY <1>2, <2>1, <2>2, <3>1
  <2> QED BY <1>3, <2>3, <2>4
<1> DEFINE flat == CHOOSE f : It(f)
<1>6. It(flat)
  <2> HIDE DEF It, h
  <2> QED BY <1>5
<1> HIDE DEF flat
<1>7. flat[1] = a
  BY <1>2, <1>3, <1>6
<1>8. flat[2] = a \o b
  <2>1. 2 \in 1 .. 3 /\ 2 # 1 /\ 2 - 1 = 1
    OBVIOUS
  <2> QED BY <1>2, <1>3, <1>6, <1>7, <2>1
<1>9. flat[3] = (a \o b) \o c
  <2>1. 3 \in 1 .. 3 /\ 3 # 1 /\ 3 - 1 = 2
    OBVIOUS
  <2> QED BY <1>2, <1>3, <1>6, <1>8, <2>1
<1> QED BY <1>1, <1>3, <1>4, <1>9 DEF flat


\* The groups before the meetings before the material, each in the order of the catalogue.
KindOrder(links) ==
    {p \in (DOMAIN links) \X (DOMAIN links) :
        \/ Rank(links[p[1]]) < Rank(links[p[2]])
        \/ Rank(links[p[1]]) = Rank(links[p[2]]) /\ p[1] < p[2]}

LEMMA LinesArePlaced ==
    ASSUME NEW S, NEW links \in Seq(S), NEW R, NEW w, \A kind : OfKind(w, kind) \in Seq(R),
           \A kind \in ToSet(DeliveryKindOrder) :
              Selected(OfKind(w, kind), links, FilledOf(links, {kind}))
    PROVE  /\ DeliveryLines(w) \in Seq(R)
           /\ Placed(DeliveryLines(w), links, FilledOf(links, ToSet(DeliveryKindOrder)), KindOrder(links))
<1> DEFINE A == FilledOf(links, {"whatsapp_group"})
           B == FilledOf(links, {"meeting"})
           C == FilledOf(links, {"other"})
           O == KindOrder(links)
<1>1. PICK a, b, c \in Seq(R) : /\ a = OfKind(w, "whatsapp_group") /\ Selected(a, links, A)
                                /\ b = OfKind(w, "meeting") /\ Selected(b, links, B)
                                /\ c = OfKind(w, "other") /\ Selected(c, links, C)
  BY OrderOfKinds
<1>2. DeliveryLines(w) = (a \o b) \o c
  BY <1>1, LinesOfKinds
<1>3. FilledOf(links, ToSet(DeliveryKindOrder)) = (A \cup B) \cup C
  BY OrderOfKinds DEF FilledOf
<1>4. /\ \A i \in A : i \in DOMAIN links /\ Rank(links[i]) = 1
      /\ \A i \in B : i \in DOMAIN links /\ Rank(links[i]) = 2
      /\ \A i \in C : i \in DOMAIN links /\ Rank(links[i]) = 3
  BY RankOfKinds DEF FilledOf
<1>5. \A i, j \in DOMAIN links :
         Rank(links[i]) < Rank(links[j]) \/ (Rank(links[i]) = Rank(links[j]) /\ i < j)
           => <<i, j>> \in O
  BY DEF KindOrder
<1>6. /\ \A i, j \in A : i < j => <<i, j>> \in O
      /\ \A i, j \in B : i < j => <<i, j>> \in O
      /\ \A i, j \in C : i < j => <<i, j>> \in O
      /\ \A i \in A, j \in B : <<i, j>> \in O
      /\ \A i \in A \cup B, j \in C : <<i, j>> \in O
  <2> HIDE DEF A, B, C, O
  <2> QED BY <1>4, <1>5
<1> HIDE DEF A, B, C, O
<1>7. Placed(a, links, A, O) /\ Placed(b, links, B, O) /\ Placed(c, links, C, O)
  BY <1>1, <1>6, SelectedIsPlaced
<1>8. a \o b \in Seq(R) /\ Placed(a \o b, links, A \cup B, O)
  BY <1>6, <1>7, Concatenated
<1>9. (a \o b) \o c \in Seq(R) /\ Placed((a \o b) \o c, links, (A \cup B) \cup C, O)
  BY <1>6, <1>7, <1>8, Concatenated
<1> QED BY <1>2, <1>3, <1>9 DEF O

\* The place of the event takes nothing away from the other kinds.
LEMMA PlaceLeavesTheRest ==
    ASSUME NEW S, NEW links \in Seq(S), NEW event
    PROVE  \E R : /\ \A kind : OfKind(WithPlaceOf(links, event), kind) \in Seq(R)
                  /\ \A kind : kind # "maps" =>
                       Selected(OfKind(WithPlaceOf(links, event), kind), links, FilledOf(links, {kind}))
<1>1. CASE event = Nothing \/ event.maps_url = Nothing
  <2>1. WithPlaceOf(links, event) = links
    BY <1>1 DEF WithPlaceOf
  <2> QED BY <2>1, KindsAreSelected
<1>2. CASE event # Nothing /\ event.maps_url # Nothing
  <2> DEFINE e == [kind |-> "maps", url |-> event.maps_url]
             U == {l \in ToSet(links) : l.kind # "maps"}
             R == S \cup {e}
             T == Wanted(links, U, Len(links))
  <2>1. PICK t \in Seq(R), w \in Seq(R) : /\ t = Those(links, U) /\ Selected(t, links, T)
                                          /\ w = Append(t, e) /\ w = WithPlaceOf(links, event)
    <3>1. Those(links, U) \in Seq(S) /\ Selected(Those(links, U), links, T)
      BY ThoseAreSelected
    <3>2. Those(links, U) \in Seq(R) /\ Append(Those(links, U), e) \in Seq(R)
      <4> HIDE DEF e, U
      <4> QED BY <3>1
    <3>3. WithPlaceOf(links, event) = Append(Those(links, U), e)
      BY <1>2, Zenon DEF WithPlaceOf
    <3> HIDE DEF R, T, U, e
    <3> QED BY <3>1, <3>2, <3>3
  <2>2. /\ Len(t) \in Nat /\ Len(w) = Len(t) + 1 /\ w[Len(t) + 1] = e
        /\ \A j \in 1 .. Len(t) : w[j] = t[j]
    <3>1. e \in R
      OBVIOUS
    <3> HIDE DEF e, U, T, R
    <3>2. /\ Len(Append(t, e)) = Len(t) + 1 /\ Append(t, e)[Len(t) + 1] = e
          /\ \A j \in 1 .. Len(t) : Append(t, e)[j] = t[j]
      BY <3>1, AppendProperties
    <3>3. w = Append(t, e)
      BY <2>1
    <3> QED BY <3>2, <3>3, LenProperties
  <2>3. links \in Seq(R) /\ e.kind = "maps"
    OBVIOUS
  <2>4. T \subseteq 1 .. Len(links) /\ \A i \in 1 .. Len(links) : i \in T <=> links[i].kind # "maps"
    BY DEF Wanted, ToSet
  <2> HIDE DEF e, U, T, R
  <2>5. ASSUME NEW kind, kind # "maps"
        PROVE  Selected(OfKind(w, kind), links, FilledOf(links, {kind}))
    <3> DEFINE V == FilledOf(w, {kind})
               X == FilledOf(links, {kind})
               u == OfKind(w, kind)
    <3>1. u \in Seq(R) /\ Selected(u, w, V)
      BY KindsAreSelected
    <3>2. V \subseteq 1 .. Len(t)
      <4> SUFFICES ASSUME NEW j \in V, j \notin 1 .. Len(t) PROVE FALSE
        OBVIOUS
      <4>1. j \in 1 .. Len(w) /\ w[j].kind = kind
        BY DEF FilledOf
      <4>2. j = Len(t) + 1
        BY <2>2, <4>1
      <4> QED BY <2>2, <2>3, <2>5, <4>1, <4>2
    <3>3. X \subseteq T
      <4>1. \A i \in X : i \in 1 .. Len(links) /\ links[i].kind = kind
        BY DEF FilledOf
      <4> QED BY <2>4, <2>5, <4>1
    <3>4. SameTaken(links, T, X, w, Len(t), V)
      <4> SUFFICES ASSUME NEW i \in T, NEW j \in 1 .. Len(t), w[j] = links[i]
                   PROVE  j \in V <=> i \in X
        BY DEF SameTaken
      <4>1. j \in DOMAIN w /\ i \in DOMAIN links
        BY <2>2, <2>4
      <4> QED BY <4>1 DEF FilledOf
    <3> HIDE DEF V, X, u
    <3>5. Continues(w, t)
      BY <2>2 DEF Continues
    <3>6. links \in Seq(R) /\ T \subseteq 1 .. Len(links) /\ Selected(t, links, T)
      BY <2>1, <2>3, <2>4
    <3>7. Selected(u, links, X)
      BY <3>1, <3>2, <3>3, <3>4, <3>5, <3>6, SelectionOfSelection
    <3> QED BY <3>7 DEF X, u
  <2>6. \A kind : OfKind(w, kind) \in Seq(R)
    BY KindsAreSelected
  <2> QED BY <2>1, <2>5, <2>6
<1> QED BY <1>1, <1>2


LEMMA AccessIsFilled ==
    ASSUME NEW S, NEW links \in Seq(S), NEW R, NEW w, \A kind : OfKind(w, kind) \in Seq(R),
           \A kind \in ToSet(DeliveryKindOrder) :
              Selected(OfKind(w, kind), links, FilledOf(links, {kind}))
    PROVE  HasAccessLink(w) <=> FilledOf(links, {"whatsapp_group", "meeting"}) # {}
<1>1. \A kind \in {"whatsapp_group", "meeting"} :
         OfKind(w, kind) # <<>> <=> FilledOf(links, {kind}) # {}
  <2> SUFFICES ASSUME NEW kind \in {"whatsapp_group", "meeting"}
               PROVE  OfKind(w, kind) # <<>> <=> FilledOf(links, {kind}) # {}
    OBVIOUS
  <2>1. PICK t \in Seq(R) : t = OfKind(w, kind) /\ Selected(t, links, FilledOf(links, {kind}))
    BY OrderOfKinds
  <2> QED BY <2>1, SomeSelected
<1>2. FilledOf(links, {"whatsapp_group", "meeting"}) =
        FilledOf(links, {"whatsapp_group"}) \cup FilledOf(links, {"meeting"})
  BY DEF FilledOf
<1>3. HasAccessLink(w) <=> OfKind(w, "whatsapp_group") # <<>> \/ OfKind(w, "meeting") # <<>>
  BY OrderOfKinds DEF HasAccessLink
<1> QED BY <1>1, <1>2, <1>3

LEMMA LinesInOrder ==
    ASSUME NEW S, NEW links \in Seq(S), input[3] = links,
           \A i \in DOMAIN links : links[i].url # Nothing => links[i].url[2] = i,
           NEW R, NEW l \in Seq(R), Planned.lines = l,
           Placed(l, links, FilledOf(links, ToSet(DeliveryKindOrder)), KindOrder(links))
    PROVE  LinksInOrder
<1> DEFINE T == FilledOf(links, ToSet(DeliveryKindOrder))
<1>1. Filled(ToSet(DeliveryKindOrder)) = T
  BY DEF Filled, FilledOf
<1>2. \A i \in T : i \in DOMAIN links /\ i \in Nat /\ links[i].url[2] = i
  BY DEF FilledOf
<1>3. \A i \in T : Rank(links[i]) \in Nat
  <2>1. \A i \in T : links[i].kind \in {"whatsapp_group", "meeting", "other"}
    BY OrderOfKinds DEF FilledOf
  <2> HIDE DEF T
  <2> QED BY <2>1, RankOfKinds
<1>4. \A i, j \in T : <<i, j>> \in KindOrder(links) =>
         Rank(links[i]) < Rank(links[j]) \/ (Rank(links[i]) = Rank(links[j]) /\ i < j)
  BY DEF KindOrder
<1> HIDE DEF T
<1>5. \A i \in T : <<i, i>> \notin KindOrder(links)
  BY <1>2, <1>3, <1>4
<1>6. Len(l) = Cardinality(T) /\ ToSet(l) = {links[i] : i \in T}
  <2>1. PICK O : O = KindOrder(links)
    OBVIOUS
  <2>2. Placed(l, links, T, O) /\ \A i \in T : <<i, i>> \notin O
    BY <1>5, <2>1 DEF T
  <2> QED BY <2>2, PlacedOnce
<1>7. ASSUME NEW j \in 1 .. Len(l), NEW k \in 1 .. Len(l), j < k
      PROVE  \/ Rank(l[j]) < Rank(l[k])
             \/ Rank(l[j]) = Rank(l[k]) /\ l[j].url[2] < l[k].url[2]
  <2>1. PICK p : PlacedBy(l, links, T, KindOrder(links), p)
    BY DEF Placed, T
  <2>2. /\ p[j] \in T /\ p[k] \in T /\ l[j] = links[p[j]] /\ l[k] = links[p[k]]
        /\ <<p[j], p[k]>> \in KindOrder(links)
    BY <1>7, <2>1 DEF PlacedBy
  <2> QED BY <1>2, <1>4, <2>2
<1>8. DOMAIN l = 1 .. Len(l)
  OBVIOUS
<1> QED BY <1>1, <1>6, <1>7, <1>8 DEF LinksInOrder

\* Who paid gets the entry or something that opens the course, or a human is
\* told, and a message has all the links in their order: for a catalogue of any
\* length, whatever the service, its event and the gate (delivery.py:21-27,
\* delivery.py:185-189, delivery_planner.py:63-68).
THEOREM PaidIsServed ==
    ASSUME NEW S, NEW links \in Seq(S),
           \A i \in DOMAIN links : links[i].url # Nothing => links[i].url[2] = i,
           NEW modality, NEW event, NEW issued \in BOOLEAN, NEW gate,
           input = <<"plan", modality, links, event, issued, gate>>
    PROVE  PaidIsServedOrFlagged
<1> DEFINE access == FilledOf(links, {"whatsapp_group", "meeting"}) # {}
           place == WithPlaceOf(links, event)
           free == issued \/ gate = Nothing
<1>1. /\ input[1] = "plan" /\ input[2] = modality /\ input[3] = links /\ input[4] = event
      /\ input[5] = issued /\ input[6] = gate
  OBVIOUS
<1>2. Filled({"whatsapp_group", "meeting"}) # {} <=> access
  BY <1>1 DEF Filled, FilledOf
<1>3. Planned = IF modality \notin {"presencial", "hibrido"} THEN PlanDelivery(modality, links)
                ELSE IF ~free THEN Blocked(gate) ELSE PlanDelivery(modality, place)
  <2>1. PICK services : services = <<[modality |-> modality, links |-> links]>>
    OBVIOUS
  <2>2. /\ services # <<>> /\ Len(services) = 1
        /\ services[1].modality = modality /\ services[1].links = links
    BY <2>1
  <2>3. Planned = PlanFor(services, issued, event, gate)
    BY <1>1, <2>1, Zenon DEF Planned
  <2> HIDE DEF place
  <2> QED BY <2>2, <2>3 DEF PlanFor, place
<1>4. /\ HasAccessLink(links) <=> access
      /\ \E R : /\ DeliveryLines(links) \in Seq(R)
                /\ Placed(DeliveryLines(links), links, FilledOf(links, ToSet(DeliveryKindOrder)),
                          KindOrder(links))
  BY KindsAreSelected, AccessIsFilled, LinesArePlaced
<1>5. /\ HasAccessLink(place) <=> access
      /\ \E R : /\ DeliveryLines(place) \in Seq(R)
                /\ Placed(DeliveryLines(place), links, FilledOf(links, ToSet(DeliveryKindOrder)),
                          KindOrder(links))
  <2>1. \A kind \in ToSet(DeliveryKindOrder) : kind # "maps"
    BY OrderOfKinds
  <2>2. PICK R : /\ \A kind : OfKind(place, kind) \in Seq(R)
                 /\ \A kind : kind # "maps" =>
                      Selected(OfKind(place, kind), links, FilledOf(links, {kind}))
    BY PlaceLeavesTheRest
  <2> HIDE DEF place
  <2> QED BY <2>1, <2>2, AccessIsFilled, LinesArePlaced
<1> HIDE DEF access, place
<1>6. Planned.lines \in {<<>>, DeliveryLines(links), DeliveryLines(place)} => LinksInOrder
  <2>1. CASE Planned.lines = <<>>
    BY <2>1 DEF LinksInOrder
  <2>2. CASE Planned.lines = DeliveryLines(links)
    BY <1>1, <1>4, <2>2, LinesInOrder
  <2>3. CASE Planned.lines = DeliveryLines(place)
    BY <1>1, <1>5, <2>3, LinesInOrder
  <2> QED BY <2>1, <2>2, <2>3
<1> SUFFICES ASSUME TRUE
             PROVE  /\ Planned.blocked_by = Nothing => Planned.entry \/ access
                    /\ Planned.blocked_by # Nothing => ~Planned.entry /\ Planned.lines = <<>>
                    /\ modality \in {"presencial", "hibrido"} =>
                         /\ Planned.entry <=> free
                         /\ modality = "hibrido" /\ Planned.entry /\ ~access
                              => "missing_link" \in Planned.warnings
                         /\ Planned.entry /\ Planned.place = Nothing
                              => "missing_link" \in Planned.warnings
                    /\ Planned.lines \in {<<>>, DeliveryLines(links), DeliveryLines(place)}
  BY <1>1, <1>2, <1>6 DEF PaidIsServedOrFlagged
<1>7. CASE modality \notin {"presencial", "virtual", "hibrido"}
  <2>1. Planned = Blocked("no_modality")
    BY <1>3, <1>7 DEF PlanDelivery
  <2> QED BY <1>7, <2>1, NothingIsNoFlag DEF Blocked, Plan
<1>8. CASE modality = "virtual"
  <2>1. Planned = PlanVirtual(links)
    BY <1>3, <1>8 DEF PlanDelivery
  <2>2. CASE ~access
    <3>1. Planned = Blocked("missing_link")
      BY <1>4, <2>1, <2>2 DEF PlanVirtual
    <3> QED BY <1>8, <3>1, NothingIsNoFlag DEF Blocked, Plan
  <2>3. CASE access
    <3>1. Planned = Plan(FALSE, DeliveryLines(links), Nothing, {})
      BY <1>4, <2>1, <2>3 DEF PlanVirtual
    <3> QED BY <1>8, <2>3, <3>1 DEF Plan
  <2> QED BY <2>2, <2>3
<1>9. CASE modality \in {"presencial", "hibrido"} /\ ~free
  <2>1. Planned = Blocked(gate) /\ gate # Nothing
    BY <1>3, <1>9
  <2> QED BY <1>9, <2>1 DEF Blocked, Plan
<1>10. CASE modality = "presencial" /\ free
  <2>1. Planned = PlanPresencial(place)
    BY <1>3, <1>10 DEF PlanDelivery
  <2> QED BY <1>10, <2>1 DEF PlanPresencial, Plan, MissingUnless
<1>11. CASE modality = "hibrido" /\ free
  <2>1. Planned = PlanHybrid(place)
    BY <1>3, <1>11 DEF PlanDelivery
  <2> QED BY <1>5, <1>11, <2>1 DEF PlanHybrid, Plan, MissingUnless
<1> QED BY <1>7, <1>8, <1>9, <1>10, <1>11


-----------------------------------------------------------------------------
(* Answers of the model. *)

\* What an answer that passes has, and what it is compared with.
LEMMA WhatPasses ==
    ASSUME NEW raw, NEW due, Passes(raw, due)
    PROVE  /\ due.amount # Null /\ due.currency = "BOB" /\ due.beneficiary # Null
           /\ ReadAmount(raw.amount) # Null /\ ReadAmount(raw.amount) = due.amount
           /\ ReadCurrency(raw.currency) \in {Null, "BOB"}
           /\ ReadDate(raw.paid_at) # Null
           /\ Today - ReadDate(raw.paid_at) \in 0 .. MaxReceiptAgeDays
           /\ TextField(raw.beneficiary) # Null /\ TextField(raw.reference) # Null
BY DEF Passes, Evaluate, ParseExtraction, CheckPriceIsComparable, CheckCurrency, CheckAmount,
       CheckBeneficiary, CheckDate, CheckReference

\* "1.8" is one boliviano and eighty cents.
LEMMA OnePointEight ==
    ParseAmount(Number(<<Digits(1, 1), Digits(1, 8)>>, <<".">>)) = 180
<1>0. PICK s \in Separators : s = "."
  <2>1. "." \in Separators
    BY Zenon DEF Separators
  <2> QED BY <2>1, Zenon
<1>1. PICK g, d : g = Digits(1, 1) /\ d = Digits(1, 8)
  OBVIOUS
<1>2. Sized(g) /\ g.val = 1 /\ Sized(d) /\ d.len = 1 /\ d.val = 8
  BY <1>1, DigitsAreSized
<1>3. ToDecimal([groups |-> <<g, d>>, seps |-> <<s>>]) = 1800
  BY <1>2, WithDecimals
<1>4. 180 <= UpToHere
  BY SMT DEF UpToHere
<1>5. PICK a \in Nat : a = 180
  OBVIOUS
<1>6. ParseAmount(Number(<<g, d>>, <<s>>)) = a
  BY <1>3, <1>4, <1>5, ReadAs
<1> QED BY <1>0, <1>1, <1>5, <1>6

\* An answer that passes fails as soon as one field is missing, is a marker or
\* says something else, and every answer fails when there is no price or nobody
\* to compare with: for any answer of the model (receipt_checks.py:7-10).
THEOREM DoubtIsForAHuman ==
    ASSUME NEW N, NEW C, NEW D, NEW B, NEW R,
           NEW raw \in [amount : [numbers : N, range : BOOLEAN] \cup {Null, Placeholder},
                       currency : C, paid_at : D, beneficiary : B, reference : R],
           \/ \E worse \in Worse(raw) : input = <<"worse", raw, worse>>
           \/ \E due \in Incomparable : input = <<"answer", raw, due>>
    PROVE  DoubtGoesToHuman
<1>1. ASSUME NEW worse \in Worse(raw), Passes(raw, Due) PROVE ~Passes(worse, Due)
  <2> SUFFICES ASSUME Passes(worse, Due) PROVE FALSE
    OBVIOUS
  <2>1. /\ ReadAmount(worse.amount) # Null /\ ReadAmount(worse.amount) = Due.amount
        /\ ReadCurrency(worse.currency) \in {Null, "BOB"}
        /\ ReadDate(worse.paid_at) # Null
        /\ Today - ReadDate(worse.paid_at) \in 0 .. MaxReceiptAgeDays
        /\ TextField(worse.beneficiary) # Null /\ TextField(worse.reference) # Null
    BY WhatPasses
  <2>2. ASSUME NEW v \in {Null, Placeholder}
        PROVE  ReadAmount(v) = Null /\ ReadDate(v) = Null /\ TextField(v) = Null
    BY NullIsNoNumber DEF ReadAmount, ReadDate, TextField
  <2>3. CASE \E v \in {Null, Placeholder} :
               \/ worse = [raw EXCEPT !.amount = v] \/ worse = [raw EXCEPT !.paid_at = v]
               \/ worse = [raw EXCEPT !.beneficiary = v] \/ worse = [raw EXCEPT !.reference = v]
    <3>1. PICK v \in {Null, Placeholder} :
               \/ worse = [raw EXCEPT !.amount = v] \/ worse = [raw EXCEPT !.paid_at = v]
               \/ worse = [raw EXCEPT !.beneficiary = v] \/ worse = [raw EXCEPT !.reference = v]
      BY <2>3
    <3>2. worse.amount = v \/ worse.paid_at = v \/ worse.beneficiary = v \/ worse.reference = v
      BY <3>1
    <3> QED BY <2>1, <2>2, <3>2
  <2>4. CASE worse = [raw EXCEPT !.currency = "USD"]
    <3>1. worse.currency = "USD"
      BY <2>4
    <3>2. ReadCurrency("USD") = "USD"
      BY DEF ReadCurrency
    <3> QED BY <2>1, <3>1, <3>2, NullIsNoNumber
  <2>5. CASE \E d \in {Today + 1, Today - 8} : worse = [raw EXCEPT !.paid_at = d]
    <3>1. PICK d \in {Today + 1, Today - 8} : worse = [raw EXCEPT !.paid_at = d]
      BY <2>5
    <3>2. worse.paid_at = d /\ d \in Int /\ ReadDate(d) = d
      BY <3>1, TodayIsADay DEF ReadDate
    <3>3. Today - d \notin 0 .. 7
      BY TodayIsADay
    <3> QED BY <2>1, <3>2, <3>3 DEF MaxReceiptAgeDays
  <2>6. CASE worse = [raw EXCEPT !.amount = [@ EXCEPT !.range = TRUE]]
    <3>1. worse.amount = [raw.amount EXCEPT !.range = TRUE]
      BY <2>6
    <3>2. raw.amount \notin {Null, Placeholder}
      BY <1>1, <2>2, WhatPasses
    <3>3. raw.amount \in [numbers : N, range : BOOLEAN]
      BY <3>2
    <3>4. worse.amount.range
      BY <3>1, <3>3
    <3> QED BY <2>1, <3>4 DEF ReadAmount, ParseAmount
  <2>7. CASE worse = [raw EXCEPT !.amount = Number(<<Digits(1, 1), Digits(1, 8)>>, <<".">>)]
    <3>1. PICK text : text = Number(<<Digits(1, 1), Digits(1, 8)>>, <<".">>)
      OBVIOUS
    <3>2. worse.amount = text
      BY <2>7, <3>1
    <3>3. ReadAmount(text) \in {Null, 180}
      BY <3>1, OnePointEight DEF ReadAmount
    <3>4. Due.amount # 180
      <4>1. Len(<<180000>>) = 1 /\ <<180000>>[1] = 180000 /\ 180000 # 180
        BY SMT
      <4> QED BY <4>1, SMT DEF Due, ExpectedPayment
    <3> QED BY <2>1, <3>2, <3>3, <3>4
  <2> QED BY <2>3, <2>4, <2>5, <2>6, <2>7 DEF Worse
<1>2. ASSUME NEW due \in Incomparable PROVE ~Passes(raw, due)
  <2>1. due.amount = Null \/ due.currency = "USD" \/ due.beneficiary = Null
    BY SMT DEF Incomparable, ExpectedPayment
  <2> QED BY <2>1, WhatPasses
<1>3. CASE \E worse \in Worse(raw) : input = <<"worse", raw, worse>>
  <2>1. PICK worse \in Worse(raw) : input = <<"worse", raw, worse>>
    BY <1>3
  <2>2. input[1] = "worse" /\ input[2] = raw /\ input[3] = worse
    BY <2>1
  <2> QED BY <1>1, <2>2 DEF DoubtGoesToHuman
<1>4. CASE \E due \in Incomparable : input = <<"answer", raw, due>>
  <2>1. PICK due \in Incomparable : input = <<"answer", raw, due>>
    BY <1>4
  <2>2. input[1] = "answer" /\ input[2] = raw /\ input[3] = due
    BY <2>1
  <2> QED BY <1>2, <2>2 DEF DoubtGoesToHuman
<1> QED BY <1>3, <1>4


-----------------------------------------------------------------------------
(* Names. *)

\* Words with the letters that can be read, some of them particles, some masked.
Lettered(L, masks) == [letters : L, noise : BOOLEAN, masked : masks]

\* The words of a name that count.
Counting(name) == {i \in DOMAIN name : ~name[i].noise}

Tokens(name) == {name[i].letters : i \in Counting(name)}

LEMMA WordsAreSelected ==
    ASSUME NEW W, NEW name \in Seq(W)
    PROVE  Words(name) \in Seq(W) /\ Selected(Words(name), name, Counting(name))
<1> DEFINE U == {w \in ToSet(name) : ~w.noise}
<1>1. Words(name) = Those(name, U)
  BY Zenon DEF Words, Those
<1>2. Wanted(name, U, Len(name)) = Counting(name)
  BY DEF Wanted, Counting, ToSet
<1> HIDE DEF U
<1> QED BY <1>1, <1>2, ThoseAreSelected

LEMMA NormalizedIs ==
    ASSUME NEW L, NEW masks, NEW name \in Seq(Lettered(L, masks))
    PROVE  /\ NormalizeName(name) \in Seq(L)
           /\ Len(NormalizeName(name)) = Len(Words(name))
           /\ \A i \in 1 .. Len(Words(name)) : NormalizeName(name)[i] = Words(name)[i].letters
           /\ ToSet(NormalizeName(name)) = Tokens(name)
           /\ NormalizeName(name) = <<>> <=> Tokens(name) = {}
<1>1. PICK words \in Seq(Lettered(L, masks)) :
         words = Words(name) /\ Selected(words, name, Counting(name))
  BY WordsAreSelected
<1>2. PICK p : SelectedBy(words, name, Counting(name), p)
  BY <1>1 DEF Selected
<1>3. PICK e : e = NormalizeName(name)
  OBVIOUS
<1>4. e = [i \in 1 .. Len(words) |-> words[i].letters]
  BY <1>1, <1>3 DEF NormalizeName
<1>5. /\ Len(words) \in Nat
      /\ \A i \in 1 .. Len(words) : words[i].letters \in L
  <2>1. \A i \in 1 .. Len(words) : words[i] \in Lettered(L, masks)
    OBVIOUS
  <2> QED BY <2>1 DEF Lettered
<1>6. e \in Seq(L) /\ Len(e) = Len(words) /\ \A i \in 1 .. Len(words) : e[i] = words[i].letters
  BY <1>4, <1>5
<1>7. /\ \A i \in 1 .. Len(words) : p[i] \in Counting(name) /\ words[i] = name[p[i]]
      /\ \A k \in Counting(name) : \E i \in 1 .. Len(words) : p[i] = k
  BY <1>2 DEF SelectedBy
<1>8. ToSet(e) = {words[i].letters : i \in 1 .. Len(words)}
  <2>1. ToSet(e) = {e[i] : i \in 1 .. Len(words)}
    BY <1>4 DEF ToSet
  <2> QED BY <1>6, <2>1
<1>9. Tokens(name) = {words[i].letters : i \in 1 .. Len(words)}
  <2>1. ASSUME NEW k \in Counting(name)
        PROVE  name[k].letters \in {words[i].letters : i \in 1 .. Len(words)}
    BY <1>7
  <2>2. ASSUME NEW i \in 1 .. Len(words) PROVE words[i].letters \in Tokens(name)
    BY <1>7 DEF Tokens
  <2> QED BY <2>1, <2>2 DEF Tokens
<1>10. e = <<>> <=> Tokens(name) = {}
  <2>1. e = <<>> <=> Len(words) = 0
    BY <1>6
  <2>2. Tokens(name) = {} <=> 1 .. Len(words) = {}
    BY <1>9
  <2> QED BY <1>5, <2>1, <2>2
<1> QED BY <1>1, <1>3, <1>6, <1>8, <1>9, <1>10

LEMMA TokensOfWords ==
    ASSUME NEW W, NEW name \in Seq(W)
    PROVE  /\ Tokens(Words(name)) = Tokens(name)
           /\ \A i \in 1 .. Len(Words(name)) : ~Words(name)[i].noise
<1>1. PICK words \in Seq(W) : words = Words(name) /\ Selected(words, name, Counting(name))
  BY WordsAreSelected
<1>2. PICK p : SelectedBy(words, name, Counting(name), p)
  BY <1>1 DEF Selected
<1>3. /\ \A i \in 1 .. Len(words) : p[i] \in Counting(name) /\ words[i] = name[p[i]]
      /\ \A k \in Counting(name) : \E i \in 1 .. Len(words) : p[i] = k
  BY <1>2 DEF SelectedBy
<1>4. \A i \in 1 .. Len(words) : ~words[i].noise
  BY <1>3 DEF Counting
<1>5. Counting(words) = 1 .. Len(words)
  BY <1>4 DEF Counting
<1>6. Tokens(words) = Tokens(name)
  <2>1. ASSUME NEW k \in Counting(name) PROVE name[k].letters \in Tokens(words)
    BY <1>3, <1>5 DEF Tokens
  <2>2. ASSUME NEW i \in Counting(words) PROVE words[i].letters \in Tokens(name)
    BY <1>3, <1>5 DEF Tokens
  <2> QED BY <2>1, <2>2 DEF Tokens
<1> QED BY <1>1, <1>4, <1>6

\* A name that the words of the owner can be found in is recognised.
LEMMA FoundInName ==
    ASSUME NEW L, NEW owner \in Seq(Lettered(L, {FALSE})), Tokens(owner) # {},
           NEW M, NEW found \in Seq(Lettered(M, {FALSE})),
           \A t \in Tokens(owner) : \E c \in Tokens(found) :
              t = c \/ (Len(t) >= 3 /\ Len(c) >= 3 /\ (IsPrefix(t, c) \/ IsPrefix(c, t)))
    PROVE  MatchesBeneficiary(owner, found)
<1>1. PICK e : /\ e = NormalizeName(owner) /\ ToSet(e) = Tokens(owner)
               /\ e = <<>> <=> Tokens(owner) = {}
  BY NormalizedIs
<1>2. PICK f : /\ f = NormalizeName(found) /\ ToSet(f) = Tokens(found)
               /\ f = <<>> <=> Tokens(found) = {}
  BY NormalizedIs
<1>3. ~IsMasked(found)
  <2>1. \A i \in DOMAIN found : found[i] \in Lettered(M, {FALSE})
    OBVIOUS
  <2>2. \A i \in DOMAIN found : found[i].masked = FALSE
    BY <2>1 DEF Lettered
  <2> QED BY <2>2 DEF IsMasked, ToSet
<1>4. Tokens(found) # {}
  OBVIOUS
<1>5. \A t \in ToSet(e) : TokenPresent(t, f)
  BY <1>1, <1>2 DEF TokenPresent, MinPrefix
<1> QED BY <1>1, <1>2, <1>3, <1>4, <1>5 DEF MatchesBeneficiary


\* Words of which one was cut begin alike.
LEMMA CutIsAlike ==
    ASSUME NEW X, NEW Y, NEW a \in Seq(X), NEW b \in Seq(Y), Len(a) >= 3, Len(b) >= 3, IsPrefix(a, b)
    PROVE  Alike(a, b) /\ Alike(b, a)
<1>1. Len(a) \in Nat /\ Len(b) \in Nat /\ Len(a) <= Len(b) /\ SubSeq(a, 1, Len(a)) = SubSeq(b, 1, Len(a))
  BY DEF IsPrefix
<1>2. ASSUME NEW i \in 1 .. 3 PROVE a[i] = b[i] /\ i <= Len(a) /\ i <= Len(b)
  <2>1. i \in 1 .. Len(a) /\ i \in 1 .. Len(b)
    BY <1>1
  <2>2. SubSeq(a, 1, Len(a))[i] = a[i]
    BY <1>1, <2>1
  <2>3. SubSeq(b, 1, Len(a))[i] = b[i]
    BY <1>1, <2>1
  <2> QED BY <1>1, <2>1, <2>2, <2>3
<1> QED BY <1>2 DEF Alike, MinPrefix

\* A name that is recognised has a word like each of the owner's.
LEMMA RecognisedIsAlike ==
    ASSUME NEW L, NEW owner \in Seq(Lettered(Seq(L), {FALSE})),
           NEW M, NEW found \in Seq(Lettered(Seq(M), {FALSE})), MatchesBeneficiary(owner, found)
    PROVE  \A a \in ToSet(NormalizeName(owner)) : \E b \in ToSet(NormalizeName(found)) : Alike(a, b)
<1>1. PICK e \in Seq(Seq(L)) : e = NormalizeName(owner)
  BY NormalizedIs
<1>2. PICK f \in Seq(Seq(M)) : f = NormalizeName(found)
  BY NormalizedIs
<1>3. ~IsMasked(found)
  <2>1. \A i \in DOMAIN found : found[i] \in Lettered(Seq(M), {FALSE})
    OBVIOUS
  <2>2. \A i \in DOMAIN found : found[i].masked = FALSE
    BY <2>1 DEF Lettered
  <2> QED BY <2>2 DEF IsMasked, ToSet
<1>4. \A t \in ToSet(e) : TokenPresent(t, f)
  BY <1>1, <1>2, <1>3 DEF MatchesBeneficiary
<1>5. ASSUME NEW a \in ToSet(e) PROVE \E b \in ToSet(f) : Alike(a, b)
  <2>1. PICK c \in ToSet(f) :
           a = c \/ (Len(a) >= 3 /\ Len(c) >= 3 /\ (IsPrefix(a, c) \/ IsPrefix(c, a)))
    BY <1>4 DEF TokenPresent, MinPrefix
  <2>2. a \in Seq(L)
    BY DEF ToSet
  <2>3. c \in Seq(M)
    BY DEF ToSet
  <2>4. CASE a = c
    BY <2>4 DEF Alike
  <2>5. CASE Len(a) >= 3 /\ Len(c) >= 3 /\ (IsPrefix(a, c) \/ IsPrefix(c, a))
    BY <2>2, <2>3, <2>5, CutIsAlike
  <2> QED BY <2>1, <2>4, <2>5
<1> QED BY <1>1, <1>2, <1>5

\* Whatever the order of its words, a name has the same ones.
LEMMA ReorderedHasTheSame ==
    ASSUME NEW W, NEW name \in Seq(W), NEW found \in Reordered(name)
    PROVE  /\ found \in Seq(W) /\ Len(found) = Len(name) /\ Tokens(found) = Tokens(name)
           /\ \E g \in Bijection(1 .. Len(name), 1 .. Len(name)) :
                \A i \in 1 .. Len(name) : found[i] = name[g[i]]
<1> DEFINE n == Len(name)
<1>1. PICK g \in Orders(n) : found = [i \in DOMAIN name |-> name[g[i]]]
  BY DEF Reordered
<1>2. n \in Nat /\ DOMAIN name = 1 .. n /\ \A i \in 1 .. n : name[i] \in W
  OBVIOUS
<1> HIDE DEF n
<1>3. g \in [1 .. n -> 1 .. n] /\ \A i, j \in 1 .. n : i # j => g[i] # g[j]
  BY DEF Orders
<1>4. g \in Injection(1 .. n, 1 .. n)
  BY <1>3, Fun_IsInj
<1>5. IsFiniteSet(1 .. n)
  BY <1>2, FS_Interval
<1>6. g \in Surjection(1 .. n, 1 .. n)
  BY <1>4, <1>5, FS_Injection
<1>7. g \in Bijection(1 .. n, 1 .. n)
  BY <1>4, <1>6 DEF Bijection
<1>8. \A j \in 1 .. n : \E i \in 1 .. n : g[i] = j
  BY <1>6 DEF Surjection
<1>9. /\ found \in Seq(W) /\ Len(found) = n /\ DOMAIN found = 1 .. n
      /\ \A i \in 1 .. n : g[i] \in 1 .. n /\ found[i] = name[g[i]]
  <2>1. \A i \in 1 .. n : g[i] \in 1 .. n /\ name[g[i]] \in W
    BY <1>2, <1>3
  <2>2. found = [i \in 1 .. n |-> name[g[i]]]
    BY <1>1, <1>2
  <2> QED BY <1>2, <2>1, <2>2
<1>10. Tokens(found) = Tokens(name)
  <2>1. ASSUME NEW i \in Counting(found) PROVE found[i].letters \in Tokens(name)
    BY <1>2, <1>9 DEF Counting, Tokens
  <2>2. ASSUME NEW j \in Counting(name) PROVE name[j].letters \in Tokens(found)
    <3>1. j \in 1 .. n /\ ~name[j].noise
      BY <1>2 DEF Counting
    <3>2. PICK i \in 1 .. n : g[i] = j
      BY <1>8, <3>1
    <3>3. i \in Counting(found) /\ found[i].letters = name[j].letters
      BY <1>9, <3>1, <3>2 DEF Counting
    <3> QED BY <3>3 DEF Tokens
  <2> QED BY <2>1, <2>2 DEF Tokens
<1> QED BY <1>7, <1>9, <1>10 DEF n


\* What a name lacks of the owner's words was cut.
Covers(found, owner) ==
    \A t \in Tokens(owner) : \E c \in Tokens(found) :
        t = c \/ (Len(t) >= 3 /\ Len(c) >= 3 /\ (IsPrefix(t, c) \/ IsPrefix(c, t)))

\* A function on the places up to N is a sequence.
LEMMA FunctionIsSeq == ASSUME NEW W, NEW N \in Nat, NEW c \in [1 .. N -> W] PROVE c \in Seq(W)
OBVIOUS

\* A name with one of its words cut to three or four letters covers it.
LEMMA CutCovers ==
    ASSUME NEW L, NEW words \in Seq(Lettered(Seq(L), {FALSE})),
           \A k \in DOMAIN words : ~words[k].noise /\ Len(words[k].letters) >= 4,
           NEW cut \in Cut(words)
    PROVE  cut \in Seq(Lettered(Seq(L), {FALSE})) /\ Covers(cut, words)
<1> DEFINE W == Lettered(Seq(L), {FALSE})
<1>1. PICK i \in DOMAIN words, n \in {3, 4} : cut = [words EXCEPT ![i].letters = SubSeq(@, 1, n)]
  BY DEF Cut
<1>2. PICK word : word = words[i]
  OBVIOUS
<1>3. word \in W /\ word.letters \in Seq(L) /\ Len(word.letters) >= 4 /\ ~word.noise
  <2>1. word \in W
    BY <1>1, <1>2
  <2> QED BY <1>1, <1>2, <2>1 DEF Lettered
<1>4. PICK c : c = SubSeq(word.letters, 1, n)
  OBVIOUS
<1>5. c \in Seq(L) /\ Len(c) = n /\ n \in Nat /\ n >= 3 /\ \A k \in 1 .. n : c[k] = word.letters[k]
  <2>1. 1 \in 1 .. Len(word.letters) + 1 /\ n \in 1 - 1 .. Len(word.letters) /\ Len(word.letters) \in Nat
    BY <1>1, <1>3
  <2> QED BY <1>1, <1>3, <1>4, <2>1, SubSeqProperties
<1>6. IsPrefix(c, word.letters)
  <2>1. SubSeq(c, 1, Len(c)) = c
    BY <1>5, SubSeqFull
  <2>2. Len(c) <= Len(word.letters)
    BY <1>1, <1>3, <1>5
  <2> QED BY <1>4, <1>5, <2>1, <2>2 DEF IsPrefix
<1>7. PICK other \in W : other = [word EXCEPT !.letters = c] /\ other.letters = c /\ ~other.noise
  <2>1. word \in [letters : Seq(L), noise : BOOLEAN, masked : {FALSE}]
    BY <1>3 DEF Lettered
  <2>2. [word EXCEPT !.letters = c] \in [letters : Seq(L), noise : BOOLEAN, masked : {FALSE}]
    BY <1>5, <2>1
  <2>3. [word EXCEPT !.letters = c].letters = c /\ [word EXCEPT !.letters = c].noise = word.noise
    BY <2>1
  <2> QED BY <1>3, <2>2, <2>3 DEF Lettered
<1>8. cut = [words EXCEPT ![i] = other]
  BY <1>1, <1>2, <1>4, <1>7
<1>9. /\ cut \in Seq(W) /\ DOMAIN cut = DOMAIN words /\ cut[i] = other
      /\ \A k \in DOMAIN words : k # i => cut[k] = words[k]
  <2>0. words \in Seq(W)
    OBVIOUS
  <2> HIDE DEF W
  <2>1. PICK N \in Nat : DOMAIN words = 1 .. N /\ \A k \in 1 .. N : words[k] \in W
    <3>1. Len(words) \in Nat /\ DOMAIN words = 1 .. Len(words)
          /\ \A k \in 1 .. Len(words) : words[k] \in W
      BY <2>0
    <3> QED BY <3>1
  <2>2. /\ DOMAIN cut = 1 .. N /\ cut[i] = other /\ \A k \in 1 .. N : k # i => cut[k] = words[k]
        /\ cut = [k \in 1 .. N |-> cut[k]]
    BY <1>1, <1>8, <2>1
  <2>3. \A k \in 1 .. N : cut[k] \in W
    BY <1>7, <2>1, <2>2
  <2>4. cut \in [1 .. N -> W]
    BY <2>2, <2>3
  <2>5. cut \in Seq(W)
    BY <2>4, FunctionIsSeq
  <2> QED BY <2>1, <2>2, <2>5
<1>10. \A k \in DOMAIN words : k \in Counting(cut) /\ cut[k].letters \in Tokens(cut)
  <2> SUFFICES ASSUME NEW k \in DOMAIN words PROVE k \in Counting(cut)
    BY DEF Tokens
  <2> QED BY <1>7, <1>9 DEF Counting
<1>11. ASSUME NEW k \in DOMAIN words
       PROVE  \E x \in Tokens(cut) : \/ words[k].letters = x
                                     \/ /\ Len(words[k].letters) >= 3 /\ Len(x) >= 3
                                        /\ IsPrefix(words[k].letters, x) \/ IsPrefix(x, words[k].letters)
  <2>1. CASE k # i
    BY <1>9, <1>10, <2>1
  <2>2. CASE k = i
    <3>1. c \in Tokens(cut)
      BY <1>1, <1>7, <1>9, <1>10
    <3>2. Len(words[k].letters) >= 3 /\ Len(c) >= 3 /\ IsPrefix(c, words[k].letters)
      <4>1. Len(word.letters) \in Nat
        BY <1>3
      <4> QED BY <1>2, <1>3, <1>5, <1>6, <2>2, <4>1
    <3> QED BY <3>1, <3>2
  <2> QED BY <2>1, <2>2
<1>12. Covers(cut, words)
  BY <1>11 DEF Covers, Tokens, Counting
<1> QED BY <1>9, <1>12


LEMMA CoversItself ==
    ASSUME NEW found, NEW owner, Tokens(owner) \subseteq Tokens(found)
    PROVE  Covers(found, owner)
BY DEF Covers

LEMMA MoreWordsCover ==
    ASSUME NEW W, NEW name \in Seq(W), NEW w \in W
    PROVE  Append(name, w) \in Seq(W) /\ Tokens(name) \subseteq Tokens(Append(name, w))
<1>1. PICK longer \in Seq(W) : longer = Append(name, w)
  BY AppendProperties
<1>2. Len(longer) = Len(name) + 1 /\ \A i \in 1 .. Len(name) : longer[i] = name[i]
  BY <1>1, AppendProperties
<1>3. ASSUME NEW i \in Counting(name) PROVE name[i].letters \in Tokens(longer)
  <2>1. i \in 1 .. Len(name) /\ i \in DOMAIN longer /\ longer[i] = name[i] /\ ~name[i].noise
    BY <1>2 DEF Counting
  <2> QED BY <2>1 DEF Counting, Tokens
<1> QED BY <1>1, <1>3 DEF Tokens

\* An owner has a word at least, and words of four letters at least.
ProperOwner(owner) ==
    /\ Counting(owner) # {}
    /\ \A i \in Counting(owner) : Len(owner[i].letters) >= 4

\* Each way a bank prints a name in full, cut or with a word more is recognised.
LEMMA PrintedInFull ==
    ASSUME NEW L, NEW owner \in Seq(Lettered(Seq(L), {FALSE})), ProperOwner(owner),
           NEW extra \in Lettered(Seq(L), {FALSE}),
           NEW n \in {Words(owner), owner} \cup Cut(Words(owner))
                     \cup {Append(m, extra) : m \in {Words(owner), owner}},
           NEW found \in Reordered(n)
    PROVE  MatchesBeneficiary(owner, found)
<1> DEFINE W == Lettered(Seq(L), {FALSE})
<1>1. PICK words \in Seq(W) : words = Words(owner) /\ Tokens(words) = Tokens(owner)
                              /\ \A i \in 1 .. Len(words) : ~words[i].noise
  BY WordsAreSelected, TokensOfWords
<1>2. \A k \in DOMAIN words : ~words[k].noise /\ Len(words[k].letters) >= 4
  <2>1. ASSUME NEW k \in DOMAIN words PROVE Len(words[k].letters) >= 4
    <3>1. k \in Counting(words)
      BY <1>1 DEF Counting
    <3>2. words[k].letters \in Tokens(owner)
      BY <1>1, <3>1 DEF Tokens
    <3> QED BY <3>2 DEF Tokens, ProperOwner
  <2> QED BY <1>1, <2>1
<1>3. n \in Seq(W) /\ Covers(n, owner)
  <2>1. CASE n \in {Words(owner), owner}
    <3>1. n \in Seq(W) /\ Tokens(n) = Tokens(owner)
      BY <1>1, <2>1
    <3> QED BY <3>1, CoversItself
  <2>2. CASE n \in Cut(Words(owner))
    <3>1. n \in Seq(W) /\ Covers(n, words)
      BY <1>1, <1>2, <2>2, CutCovers
    <3> QED BY <1>1, <3>1 DEF Covers
  <2>3. CASE n \in {Append(m, extra) : m \in {Words(owner), owner}}
    <3>1. PICK m \in Seq(W) : n = Append(m, extra) /\ Tokens(m) = Tokens(owner)
      BY <1>1, <2>3
    <3>2. n \in Seq(W) /\ Tokens(owner) \subseteq Tokens(n)
      BY <3>1, MoreWordsCover
    <3> QED BY <3>2, CoversItself
  <2> QED BY <2>1, <2>2, <2>3
<1>4. found \in Seq(W) /\ Covers(found, owner)
  <2>1. found \in Seq(W) /\ Tokens(found) = Tokens(n)
    BY <1>3, ReorderedHasTheSame
  <2> QED BY <1>3, <2>1 DEF Covers
<1>5. Tokens(owner) # {}
  BY DEF ProperOwner, Tokens
<1>6. \A t \in Tokens(owner) : \E c \in Tokens(found) :
         t = c \/ (Len(t) >= 3 /\ Len(c) >= 3 /\ (IsPrefix(t, c) \/ IsPrefix(c, t)))
  BY <1>4 DEF Covers
<1> QED BY <1>4, <1>5, <1>6, FoundInName


LEMMA BijectionCounts ==
    ASSUME NEW m \in Nat, NEW n \in Nat, NEW q \in Bijection(1 .. m, 1 .. n)
    PROVE  m = n
<1>1. ExistsBijection(1 .. m, 1 .. n)
  BY DEF ExistsBijection
<1>2. Cardinality(1 .. n) = m
  BY <1>1, FS_CountingElements
<1>3. Cardinality(1 .. n) = n
  <2>1. 1 > n => n = 0
    OBVIOUS
  <2> QED BY <2>1, FS_Interval
<1> QED BY <1>2, <1>3

\* The bijection q of the places up to n takes those of A to those of B.
Carries(q, n, A, B) ==
    /\ n \in Nat /\ q \in Bijection(1 .. n, 1 .. n)
    /\ A \subseteq 1 .. n /\ B \subseteq 1 .. n
    /\ \A j \in 1 .. n : j \in A <=> q[j] \in B

\* It takes as many as it leaves.
LEMMA AsManyPlaces ==
    ASSUME NEW q, NEW n, NEW A, NEW B, Carries(q, n, A, B)
    PROVE  Cardinality(B) = Cardinality(A)
<1> USE DEF Carries
<1> DEFINE r == [j \in A |-> q[j]]
<1>1. /\ q \in [1 .. n -> 1 .. n] /\ \A j, k \in 1 .. n : q[j] = q[k] => j = k
      /\ \A i \in 1 .. n : \E j \in 1 .. n : q[j] = i
  BY DEF Bijection, Injection, Surjection, IsInjective
<1>2. r \in [A -> B]
  BY <1>1
<1>3. \A j, k \in A : r[j] = r[k] => j = k
  BY <1>1
<1>4. \A i \in B : \E j \in A : r[j] = i
  BY <1>1
<1>5. r \in Bijection(A, B)
  <2> HIDE DEF r
  <2> QED BY <1>2, <1>3, <1>4, Fun_IsBij
<1>6. ExistsBijection(A, B)
  BY <1>5 DEF ExistsBijection
<1>7. IsFiniteSet(A)
  <2>1. n \in Int /\ 1 \in Int
    OBVIOUS
  <2>2. IsFiniteSet(1 .. n)
    BY <2>1, FS_Interval
  <2> QED BY <2>2, FS_Subset
<1> QED BY <1>6, <1>7, FS_Bijection

\* A name of which only the initials can be read is recognised.
LEMMA PrintedMasked ==
    ASSUME NEW L, NEW owner \in Seq(Lettered(Seq(L), {FALSE})), ProperOwner(owner),
           NEW found \in Reordered(Masks(owner))
    PROVE  MatchesBeneficiary(owner, found)
<1> DEFINE V == Lettered(Seq(L), {TRUE})
<1>1. PICK e \in Seq(Seq(L)) : /\ e = NormalizeName(owner) /\ e # <<>>
                               /\ ToSet(e) = Tokens(owner)
  <2>1. Tokens(owner) # {}
    BY DEF ProperOwner, Tokens
  <2> QED BY <2>1, NormalizedIs
<1> DEFINE n == Len(e)
<1>2. n \in Nat /\ n >= 1 /\ DOMAIN e = 1 .. n
  BY <1>1
<1>3. \A i \in 1 .. n : e[i] \in Seq(L) /\ e[i] # <<>> /\ Head(e[i]) \in L
  <2> SUFFICES ASSUME NEW i \in 1 .. n PROVE e[i] \in Seq(L) /\ e[i] # <<>>
    OBVIOUS
  <2>1. i \in DOMAIN e
    BY <1>2
  <2>3. e[i] \in ToSet(e)
    BY <2>1 DEF ToSet
  <2>4. e[i] \in Seq(L)
    <3> HIDE DEF n
    <3>1. i \in 1 .. Len(e)
      BY <1>2, <2>1
    <3> QED BY <1>1, <3>1
  <2>2. Len(e[i]) >= 4
    <3>1. e[i] \in Tokens(owner)
      BY <1>1, <2>3
    <3> QED BY <3>1 DEF Tokens, ProperOwner
  <2>5. e[i] # <<>>
    BY <2>2, <2>4
  <2> QED BY <2>4, <2>5
<1> HIDE DEF n
<1>4. PICK masks \in Seq(V) : /\ masks = Masks(owner) /\ Len(masks) = n
                              /\ \A i \in 1 .. n : masks[i] = Initial(Head(e[i]))
  <2> DEFINE masks == [i \in 1 .. n |-> Initial(Head(e[i]))]
  <2>1. Masks(owner) = masks
    BY <1>1, <1>2 DEF Masks
  <2>2. \A i \in 1 .. n : Initial(Head(e[i])) \in V
    BY <1>3 DEF Initial, Lettered
  <2>3. masks \in Seq(V)
    <3> HIDE DEF V
    <3> QED BY <1>2, <2>2
  <2>4. Len(masks) = n /\ \A i \in 1 .. n : masks[i] = Initial(Head(e[i]))
    BY <1>2, <2>3
  <2> HIDE DEF masks, V
  <2> QED BY <2>1, <2>3, <2>4
<1>5. /\ found \in Seq(V) /\ Len(found) = n
      /\ \E g \in Bijection(1 .. n, 1 .. n) : \A i \in 1 .. n : found[i] = masks[g[i]]
  <2> HIDE DEF V
  <2>1. masks \in Seq(V) /\ found \in Reordered(masks) /\ Len(masks) = n
    BY <1>4
  <2> QED BY <2>1, ReorderedHasTheSame
<1>6. PICK g \in Bijection(1 .. n, 1 .. n) : \A i \in 1 .. n : found[i] = masks[g[i]]
  BY <1>5
<1>7. \A i \in 1 .. n : g[i] \in 1 .. n
  BY DEF Bijection, Injection
<1>8. \A i \in 1 .. n : found[i] = Initial(Head(e[g[i]]))
  BY <1>4, <1>6, <1>7
<1>9. IsMasked(found) /\ Counting(found) = 1 .. n
  <2>0. \A x : Initial(x).masked = TRUE /\ Initial(x).noise = FALSE
    BY DEF Initial
  <2>1. \A i \in 1 .. n : found[i].masked /\ ~found[i].noise
    BY <1>8, <2>0
  <2>2. DOMAIN found = 1 .. n /\ 1 \in 1 .. n
    BY <1>2, <1>5
  <2> QED BY <2>1, <2>2 DEF IsMasked, ToSet, Counting
<1>10. PICK words \in Seq(V) : words = Words(found) /\ Selected(words, found, 1 .. n)
  <2> HIDE DEF V
  <2> QED BY <1>5, <1>9, WordsAreSelected
<1>11. PICK p : SelectedBy(words, found, 1 .. n, p)
  BY <1>10 DEF Selected
<1> DEFINE m == Len(words)
<1>12. PICK f : f = NormalizeName(found) /\ f \in Seq(Seq(L)) /\ Len(f) = m
                /\ \A j \in 1 .. m : f[j] = words[j].letters
  BY <1>5, <1>10, NormalizedIs
<1>13. m \in Nat /\ DOMAIN f = 1 .. m
  BY <1>12
<1> HIDE DEF m
<1>14. /\ p \in [1 .. m -> 1 .. n] /\ \A j, k \in 1 .. m : j < k => p[j] < p[k]
       /\ \A i \in 1 .. n : \E j \in 1 .. m : p[j] = i
       /\ \A j \in 1 .. m : words[j] = found[p[j]]
  BY <1>11 DEF SelectedBy, m
<1> DEFINE q == [j \in 1 .. m |-> g[p[j]]]
<1>15. q \in Bijection(1 .. m, 1 .. n)
  <2>1. /\ \A j, k \in 1 .. n : g[j] = g[k] => j = k
        /\ \A i \in 1 .. n : \E j \in 1 .. n : g[j] = i
    BY DEF Bijection, Injection, Surjection, IsInjective
  <2>2. \A j, k \in 1 .. m : p[j] = p[k] => j = k
    <3> SUFFICES ASSUME NEW j \in 1 .. m, NEW k \in 1 .. m, p[j] = p[k], j # k PROVE FALSE
      OBVIOUS
    <3>1. j < k \/ k < j
      BY <1>13
    <3>2. p[j] \in 1 .. n /\ p[k] \in 1 .. n
      BY <1>14
    <3> QED BY <1>14, <3>1, <3>2
  <2>3. \A j \in 1 .. m : p[j] \in 1 .. n /\ q[j] = g[p[j]] /\ q[j] \in 1 .. n
    BY <1>7, <1>14
  <2>4. q \in [1 .. m -> 1 .. n]
    BY <2>3
  <2> HIDE DEF q
  <2>5. \A j, k \in 1 .. m : q[j] = q[k] => j = k
    <3> SUFFICES ASSUME NEW j \in 1 .. m, NEW k \in 1 .. m, q[j] = q[k] PROVE j = k
      OBVIOUS
    <3>1. p[j] \in 1 .. n /\ p[k] \in 1 .. n /\ g[p[j]] = g[p[k]]
      BY <2>3
    <3>2. p[j] = p[k]
      BY <2>1, <3>1
    <3> QED BY <2>2, <3>2
  <2>6. \A i \in 1 .. n : \E j \in 1 .. m : q[j] = i
    <3> SUFFICES ASSUME NEW i \in 1 .. n PROVE \E j \in 1 .. m : q[j] = i
      OBVIOUS
    <3>1. PICK k \in 1 .. n : g[k] = i
      BY <2>1
    <3>2. PICK j \in 1 .. m : p[j] = k
      BY <1>14
    <3> QED BY <2>3, <3>1, <3>2
  <2> QED BY <2>4, <2>5, <2>6, Fun_IsBij
<1>16. m = n
  BY <1>2, <1>13, <1>15, BijectionCounts
<1>17. \A j \in 1 .. m : q[j] \in 1 .. n /\ Head(f[j]) = Head(e[q[j]])
  <2> SUFFICES ASSUME NEW j \in 1 .. m PROVE q[j] \in 1 .. n /\ Head(f[j]) = Head(e[q[j]])
    OBVIOUS
  <2>1. p[j] \in 1 .. n /\ q[j] = g[p[j]] /\ q[j] \in 1 .. n
    BY <1>7, <1>14
  <2>2. f[j] = Initial(Head(e[q[j]])).letters
    <3>1. f[j] = words[j].letters
      BY <1>12
    <3>2. words[j] = found[p[j]]
      BY <1>14
    <3>3. found[p[j]] = Initial(Head(e[g[p[j]]]))
      BY <1>8, <2>1
    <3> QED BY <2>1, <3>1, <3>2, <3>3
  <2>3. \A x : Initial(x).letters = <<x>> /\ Head(<<x>>) = x
    BY DEF Initial
  <2> QED BY <2>1, <2>2, <2>3
<1> HIDE DEF q
<1> DEFINE With(tokens, l) == {i \in DOMAIN tokens : Head(tokens[i]) = l}
<1>18. \A l : Cardinality(With(e, l)) = Cardinality(With(f, l))
  <2> SUFFICES ASSUME NEW l PROVE Cardinality(With(e, l)) = Cardinality(With(f, l))
    OBVIOUS
  <2>1. With(f, l) \subseteq 1 .. n /\ With(e, l) \subseteq 1 .. n
    BY <1>2, <1>13, <1>16
  <2>2. \A j \in 1 .. n : j \in With(f, l) <=> q[j] \in With(e, l)
    BY <1>2, <1>13, <1>16, <1>17
  <2> HIDE DEF With
  <2>3. q \in Bijection(1 .. n, 1 .. n)
    BY <1>15, <1>16
  <2>4. PICK A, B : A = With(f, l) /\ B = With(e, l)
    OBVIOUS
  <2>5. A \subseteq 1 .. n /\ B \subseteq 1 .. n /\ \A j \in 1 .. n : j \in A <=> q[j] \in B
    BY <2>1, <2>2, <2>4
  <2>6. Cardinality(B) = Cardinality(A)
    <3>1. Carries(q, n, A, B)
      BY <1>2, <2>3, <2>5 DEF Carries
    <3> QED BY <3>1, AsManyPlaces
  <2> QED BY <2>4, <2>6
<1>19. MatchesMasked(e, f)
  <2>1. Len(e) = Len(f)
    BY <1>12, <1>16 DEF n
  <2> QED BY <1>18, <2>1 DEF MatchesMasked
<1>20. f # <<>>
  BY <1>2, <1>12, <1>16
<1> QED BY <1>1, <1>9, <1>12, <1>19, <1>20 DEF MatchesBeneficiary


(***************************************************************************)
(* Names of any words, in letters of any alphabet: a printed name of the   *)
(* owner is recognised whatever its order, its cut or its mask, and        *)
(* another is not unless it has a word like each of the owner's.           *)
(***************************************************************************)
THEOREM OwnerIsRecognised ==
    ASSUME NEW L, {"o", "l", "i", "v", "a"} \subseteq L,
           NEW owner \in Seq(Lettered(Seq(L), {FALSE})),
           \/ /\ ProperOwner(owner)
              /\ \E found \in Printed(owner) : input = <<"own", owner, found>>
           \/ \E found \in Seq(Lettered(Seq(L), {FALSE})) : input = <<"other", owner, found>>
    PROVE  OnlyTheOwnerMatches
<1> DEFINE W == Lettered(Seq(L), {FALSE})
<1>1. Word(oliva) \in W
  <2>1. oliva \in Seq(L)
    BY DEF oliva
  <2> QED BY <2>1 DEF Word, Lettered
<1>2. ASSUME ProperOwner(owner), NEW found \in Printed(owner), input = <<"own", owner, found>>
      PROVE  OnlyTheOwnerMatches
  <2>1. CASE found \in Reordered(Masks(owner))
    <3>1. MatchesBeneficiary(owner, found)
      BY <1>2, <2>1, PrintedMasked
    <3> QED BY <1>2, <3>1 DEF OnlyTheOwnerMatches
  <2>2. CASE found \notin Reordered(Masks(owner))
    <3> DEFINE own == {Words(owner), owner}
    <3>1. PICK n \in own \cup Cut(Words(owner)) \cup {Append(m, Word(oliva)) : m \in own} :
             found \in Reordered(n)
      <4> DEFINE All    == own \cup Cut(Words(owner)) \cup {Append(m, Word(oliva)) : m \in own}
                 Ways   == {Reordered(m) : m \in All}
                 Masked == Reordered(Masks(owner))
                 Full   == UNION Ways
      <4>1. Printed(owner) = Masked \cup Full
        BY DEF Printed
      <4>2. found \notin Masked
        BY <2>2
      <4> HIDE DEF Ways, Masked, Full
      <4>3. found \in Full
        BY <4>1, <4>2
      <4>4. PICK way \in Ways : found \in way
        BY <4>3 DEF Full
      <4> HIDE DEF All
      <4>5. \E n \in All : found \in Reordered(n)
        BY <4>4 DEF Ways
      <4> QED BY <4>5 DEF All
    <3>2. PICK extra \in W : extra = Word(oliva)
      BY <1>1
    <3>3. n \in own \cup Cut(Words(owner)) \cup {Append(m, extra) : m \in own}
      BY <3>1, <3>2
    <3>4. MatchesBeneficiary(owner, found)
      BY <1>2, <3>1, <3>2, <3>3, PrintedInFull
    <3> QED BY <1>2, <3>4 DEF OnlyTheOwnerMatches
  <2> QED BY <2>1, <2>2
<1>3. ASSUME NEW found \in Seq(W), input = <<"other", owner, found>>
      PROVE  OnlyTheOwnerMatches
  <2>1. CASE MatchesBeneficiary(owner, found)
    <3>1. \A a \in ToSet(NormalizeName(owner)) :
             \E b \in ToSet(NormalizeName(found)) : Alike(a, b)
      BY <2>1, RecognisedIsAlike
    <3> QED BY <1>3, <3>1 DEF OnlyTheOwnerMatches
  <2>2. CASE ~MatchesBeneficiary(owner, found)
    BY <1>3, <2>2 DEF OnlyTheOwnerMatches
  <2> QED BY <2>1, <2>2
<1> QED BY <1>2, <1>3
=============================================================================
