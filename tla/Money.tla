-------------------------------- MODULE Money --------------------------------
(***************************************************************************)
(* Amounts (internal/money/money.go).  A decimal string is the rational it *)
(* stands for (big.Rat), and a string with a fixed number of decimals is   *)
(* its value in units of the last one: with `scale` units to the whole,    *)
(* scale 10^2 for kobo and 10^7 for Stellar assets.                        *)
(***************************************************************************)
EXTENDS Integers

Rational == [num : Nat, den : Nat \ {0}]
Fixed(n, scale) == [num |-> n, den |-> scale]

\* Equal compares values, so "10" equals "10.0000000".
Equal(a, b) == a.num * b.den = b.num * a.den

\* Cmp with a whole number of units.
AtLeast(r, m, scale) == r.num * scale >= m * r.den

\* Format renders with so many decimals, rounding down.
Format(r, scale) == (r.num * scale) \div r.den

\* FloatString, and the page's own formatting (handler.go, receive, naira),
\* round to the nearest.
Nearest(r, scale) == (2 * r.num * scale + r.den) \div (2 * r.den)
=============================================================================
