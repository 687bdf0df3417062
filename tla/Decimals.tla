------------------------------ MODULE Decimals ------------------------------
(***************************************************************************)
(* Arithmetic of shopspring/decimal as the code uses it, on integers that  *)
(* count units of the smallest amount a property tells apart.              *)
(***************************************************************************)
EXTENDS Integers

CONSTANTS Unit,   \* units per 0.0001, the last digit of an amount sent to Livro
          Scale   \* Div rounds a quotient to multiples of 1/Scale

ASSUME UnitAssumption == Unit \in Nat \ {0}
ASSUME ScaleAssumption == Scale \in Nat \ {0}

\* A quotient rounded half away from zero.
RoundedDiv(a, b) == IF a >= 0 THEN (2 * a + b) \div (2 * b) ELSE -((b - 2 * a) \div (2 * b))

\* Fault: digits are cut off.
StringFixedDown(x) == IF x >= 0 THEN x \div Unit ELSE -((-x) \div Unit)

\* decimal.StringFixed(4), as a number of 0.0001.
StringFixed(x) == RoundedDiv(x, Unit)

\* Fault: the next multiple.
TruncateUp(qty, stepSize) == ((qty + stepSize - 1) \div stepSize) * stepSize

\* TruncateToStepSize: Div, then Floor.  A step size that is not positive leaves the quantity.
TruncateToStepSize(qty, stepSize) ==
    IF stepSize <= 0 THEN qty ELSE (RoundedDiv(qty * Scale, stepSize) \div Scale) * stepSize
=============================================================================
