--------------------------- MODULE TransferLimit ---------------------------
(***************************************************************************)
(* The limit of a single transfer (assertWithinPerTxnLimit).  Amounts are  *)
(* integers, in thousandths of their currency: finer than the cents the    *)
(* comparison rounds to.  The rates are the fractions the code writes; the *)
(* noise of its floating-point products is far below a cent and left out.  *)
(***************************************************************************)
EXTENDS Integers

Units == 1000
PerCent == Units \div 100

\* USD_REFERENCE_RATES, as numerator and denominator.
UsdReferenceRates ==
    [USD |-> <<1, 1>>, KRW |-> <<1, 1100>>, SGD |-> <<8, 10>>, IDR |-> <<1, 14000>>,
     VND |-> <<1, 22000>>, THB |-> <<32, 1000>>, GBP |-> <<14, 10>>, EUR |-> <<12, 10>>,
     CAD |-> <<8, 10>>]

\* Mutant: cents are cut off.
CentsCutOff(amount, rate) == (amount * rate[1]) \div (rate[2] * PerCent)

\* Math.round of the USD value in cents: halves go up.
Cents(amount, rate) ==
    (2 * amount * rate[1] + rate[2] * PerCent) \div (2 * rate[2] * PerCent)

\* assertWithinPerTxnLimit: what it throws, or "within".
Verdict(amount, currency, limitUsd) ==
    IF currency \notin DOMAIN UsdReferenceRates THEN "unsupported"
    ELSE IF Cents(amount, UsdReferenceRates[currency]) > limitUsd * 100 THEN "exceeded"
    ELSE "within"
=============================================================================
