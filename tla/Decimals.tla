------------------------------- MODULE Decimals -------------------------------
(***************************************************************************)
(* The decimals of decimal.js as generate.mjs uses them: the constructor   *)
(* and toFixed keep every digit, while plus, minus, times and div round    *)
(* their result to 20 significant digits, a half away from zero.  A        *)
(* decimal is an integer; fractions are in parts of Parts to the unit.     *)
(***************************************************************************)
EXTENDS Integers, Sequences

CONSTANTS
    Radix,          \* 10
    Precision,      \* significant digits that are kept: 20
    PartDigits      \* digits of a fraction, enough to lose none of those kept

ASSUME DecimalsAssumption ==
    /\ Radix \in Nat \ {0, 1}
    /\ Precision \in Nat \ {0}
    /\ PartDigits \in Nat
    /\ PartDigits >= Precision

Scale[k \in Nat] == IF k = 0 THEN 1 ELSE Radix * Scale[k - 1]

\* Integers below Exact are written in full.
Exact == Scale[Precision]
Parts == Scale[PartDigits]

\* The unit of the last digit that is kept of n.
Ulp[n \in Nat] == IF n < Exact THEN 1 ELSE Radix * Ulp[n \div Radix]

Rounded(n) ==
    LET u == Ulp[n] IN ((2 * n + u) \div (2 * u)) * u

Plus(a, b) == Rounded(a + b)
Times(a, b) == Rounded(a * b)
Minus(a, b) == IF a >= b THEN Rounded(a - b) ELSE -Rounded(b - a)

\* a / b, in parts.
Quotient(a, b) ==
    LET n == a * Parts
        u == Ulp[n \div b]
    IN  ((2 * n + b * u) \div (2 * b * u)) * u

\* The elements of list, added one after the other.
RoundedSum(list) ==
    LET sum[i \in 0..Len(list)] ==
            IF i = 0 THEN 0 ELSE Plus(sum[i - 1], list[i])
    IN  sum[Len(list)]

\* truncated: the units of what is in parts.
Truncated(parts) ==
    IF parts >= 0 THEN parts \div Parts ELSE -((-parts) \div Parts)

\* At most twice what is lost by rounding a result up to n.
LastDigit(n) == IF n < Exact THEN 0 ELSE Ulp[n]
==============================================================================
