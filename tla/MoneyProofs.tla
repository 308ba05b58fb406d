----------------------------- MODULE MoneyProofs -----------------------------
(***************************************************************************)
(* What rounding does to amounts, for all amounts, rates and scales.       *)
(***************************************************************************)
EXTENDS Money, TLAPS

LEMMA Quotient ==
    ASSUME NEW a \in Nat, NEW d \in Nat \ {0}
    PROVE  /\ a \div d \in Nat
           /\ (a \div d) * d <= a
           /\ a < ((a \div d) + 1) * d
  BY SMT

\* Only one multiple of d is the last below a, and smaller ones are below it.
LEMMA Between ==
    ASSUME NEW x \in Nat, NEW y \in Nat, NEW d \in Nat \ {0}, NEW a \in Nat,
           x * d <= a, a < (y + 1) * d
    PROVE  x <= y
  <1>1. SUFFICES ASSUME x > y PROVE FALSE
    OBVIOUS
  <1>2. (y + 1) * d <= x * d
    BY <1>1, SMT
  <1> QED BY <1>2, SMT

LEMMA RationalParts ==
    ASSUME NEW r \in Rational
    PROVE  r.num \in Nat /\ r.den \in Nat \ {0}
  BY DEF Rational

LEMMA Products ==
    ASSUME NEW a \in Nat, NEW b \in Nat
    PROVE  a * b \in Nat
  BY SMT

\* Format never gives more than the amount, and loses less than one unit.
THEOREM FormatRoundsDown ==
    ASSUME NEW r \in Rational, NEW scale \in Nat \ {0}
    PROVE  /\ Format(r, scale) \in Nat
           /\ Format(r, scale) * r.den <= r.num * scale
           /\ r.num * scale < (Format(r, scale) + 1) * r.den
  <1>1. r.num * scale \in Nat
    BY RationalParts, Products
  <1> QED BY <1>1, RationalParts, Quotient DEF Format

\* Strings of equal value are formatted alike: an amount written "10" by the
\* user, "10.0" by the wallet and "10.0000000" by SAP gives one quote.
THEOREM FormatOfEqual ==
    ASSUME NEW a \in Rational, NEW b \in Rational, NEW scale \in Nat \ {0},
           Equal(a, b)
    PROVE  Format(a, scale) = Format(b, scale)
  <1> DEFINE x == Format(a, scale)
             y == Format(b, scale)
  <1>1. /\ a.num \in Nat /\ a.den \in Nat \ {0} /\ b.num \in Nat
        /\ b.den \in Nat \ {0}
    BY RationalParts
  <1>2. ASSUME NEW c \in Rational, NEW d \in Rational, Equal(c, d)
        PROVE  Format(c, scale) <= Format(d, scale)
    <2> DEFINE u == Format(c, scale)
               v == Format(d, scale)
    <2>1. /\ c.num \in Nat /\ c.den \in Nat \ {0} /\ d.num \in Nat
          /\ d.den \in Nat \ {0}
      BY RationalParts
    <2>2. u \in Nat /\ v \in Nat
      BY FormatRoundsDown
    <2>3. u * c.den <= c.num * scale /\ d.num * scale < (v + 1) * d.den
      BY FormatRoundsDown
    <2> HIDE DEF u, v
    <2>4. (u * c.den) * d.den <= (c.num * scale) * d.den
      BY <2>1, <2>2, <2>3, SMT
    <2>5. (c.num * scale) * d.den = (d.num * scale) * c.den
      <3>1. c.num * d.den = d.num * c.den
        BY <1>2 DEF Equal
      <3>2. (c.num * scale) * d.den = (c.num * d.den) * scale
        BY <2>1, SMT
      <3>3. (d.num * scale) * c.den = (d.num * c.den) * scale
        BY <2>1, SMT
      <3> QED BY <3>1, <3>2, <3>3
    <2>6. (d.num * scale) * c.den < ((v + 1) * d.den) * c.den
      BY <2>1, <2>2, <2>3, SMT
    <2>7. u * (c.den * d.den) < (v + 1) * (c.den * d.den)
      <3>1. (u * c.den) * d.den = u * (c.den * d.den)
        BY <2>1, <2>2, SMT
      <3>2. ((v + 1) * d.den) * c.den = (v + 1) * (c.den * d.den)
        BY <2>1, <2>2, SMT
      <3>3. /\ (u * c.den) * d.den \in Int /\ (c.num * scale) * d.den \in Int
            /\ ((v + 1) * d.den) * c.den \in Int
        BY <2>1, <2>2, SMT
      <3> QED BY <2>4, <2>5, <2>6, <3>1, <3>2, <3>3, SMT
    <2>8. c.den * d.den \in Nat \ {0}
      BY <2>1, SMT
    <2>9. u * (c.den * d.den) \in Nat
      BY <2>2, <2>8, Products
    <2> QED BY <2>2, <2>7, <2>8, <2>9, Between, SMT DEF u, v
  <1>3. Equal(b, a)
    BY DEF Equal
  <1>4. x <= y /\ y <= x
    BY <1>2, <1>3
  <1> QED BY <1>4, FormatRoundsDown, SMT

\* The value of a string with no more decimals than the scale has.
Whole(r, scale) == \E n \in Nat : n * r.den = r.num * scale

\* Quote refuses an amount written with more decimals than the asset has
\* (service.go:95), so formatting does not change the ones it accepts: SAP is
\* asked for exactly what the user entered.
THEOREM FormatExact ==
    ASSUME NEW r \in Rational, NEW scale \in Nat \ {0}, Whole(r, scale)
    PROVE  Equal(Fixed(Format(r, scale), scale), r)
  <1>1. PICK n \in Nat : n * r.den = r.num * scale
    BY DEF Whole
  <1>2. r.num \in Nat /\ r.den \in Nat \ {0}
    BY RationalParts
  <1> DEFINE x == Format(r, scale)
  <1>3. x \in Nat /\ x * r.den <= r.num * scale /\ r.num * scale < (x + 1) * r.den
    BY FormatRoundsDown
  <1>4. x <= n
    <2>1. n * r.den < (n + 1) * r.den
      BY <1>2, SMT
    <2>2. r.num * scale \in Nat
      BY <1>2, Products
    <2> HIDE DEF x
    <2> QED BY <1>1, <1>2, <1>3, <2>1, <2>2, Between
  <1>5. n <= x
    <2>1. r.num * scale \in Nat
      BY <1>2, Products
    <2>2. n * r.den <= r.num * scale
      BY <1>1, <2>1, SMT
    <2> HIDE DEF x
    <2> QED BY <1>2, <1>3, <2>1, <2>2, Between
  <1>6. x = n
    BY <1>3, <1>4, <1>5, SMT
  <1> QED BY <1>1, <1>6 DEF Equal, Fixed

\* The minimum is compared before rounding (service.go:98); as it is a whole
\* number of kobo, what is paid out is never below it either.
THEOREM MinimumSurvives ==
    ASSUME NEW r \in Rational, NEW m \in Nat, NEW scale \in Nat \ {0},
           AtLeast(r, m, scale)
    PROVE  Format(r, scale) >= m
  <1>1. r.num \in Nat /\ r.den \in Nat \ {0} /\ r.num * scale \in Nat
    BY RationalParts, Products
  <1>2. Format(r, scale) \in Nat /\ r.num * scale < (Format(r, scale) + 1) * r.den
    BY FormatRoundsDown
  <1>3. m * r.den <= r.num * scale
    BY <1>1 DEF AtLeast
  <1>4. m <= Format(r, scale)
    BY <1>1, <1>2, <1>3, Between
  <1> QED BY <1>2, <1>4, SMT

\* "You will receive" on the page is rounded to the nearest kobo while the
\* quote is rounded down: the page may show one kobo more than is paid out,
\* never less and never more than one.
THEOREM ShownWithinOneUnit ==
    ASSUME NEW r \in Rational, NEW scale \in Nat \ {0}
    PROVE  Nearest(r, scale) - Format(r, scale) \in {0, 1}
  <1> DEFINE a == r.num * scale
             d == r.den
             x == Format(r, scale)
             y == Nearest(r, scale)
  <1>1. a \in Nat /\ d \in Nat \ {0}
    BY RationalParts, Products
  <1>2. x \in Nat /\ x * d <= a /\ a < (x + 1) * d
    BY FormatRoundsDown
  <1>3. /\ y \in Nat /\ y * (2 * d) <= 2 * a + d
        /\ 2 * a + d < (y + 1) * (2 * d)
    <2>1. 2 * a + d \in Nat /\ 2 * d \in Nat \ {0}
      BY <1>1, SMT
    <2>2. y = (2 * a + d) \div (2 * d)
      <3>1. 2 * r.num * scale = 2 * a
        BY RationalParts, SMT
      <3> QED BY <3>1 DEF Nearest
    <2> HIDE DEF a, d, y
    <2> QED BY <2>1, <2>2, Quotient
  <1> HIDE DEF a, d, x, y
  <1>4. x <= y
    <2>1. x * (2 * d) <= 2 * a + d
      BY <1>1, <1>2, SMT
    <2> QED BY <1>1, <1>2, <1>3, <2>1, Between, SMT
  <1>5. y <= x + 1
    <2>1. 2 * a + d < ((x + 1) + 1) * (2 * d)
      BY <1>1, <1>2, SMT
    <2>2. 2 * d \in Nat \ {0} /\ 2 * a + d \in Nat /\ x + 1 \in Nat
      BY <1>1, <1>2, SMT
    <2> QED BY <1>3, <2>1, <2>2, Between
  <1>6. y - x \in {0, 1}
    BY <1>2, <1>3, <1>4, <1>5, SMT
  <1> QED BY <1>6 DEF x, y
=============================================================================
