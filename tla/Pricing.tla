------------------------------- MODULE Pricing -------------------------------
(***************************************************************************)
(* The arithmetic of prices.  Decimal amounts are integers of a unit: fares *)
(* as the provider sends them in mills (0.001 USD), amounts of money in    *)
(* cents of their currency, markups in per mille, the exchange rate in     *)
(* 0.0001 MMK.  A float that holds a rounded amount prints the same two    *)
(* decimals, so passing one to Decimal(str(...)) loses nothing.            *)
(***************************************************************************)
EXTENDS Integers

\* Mutant: ROUND_DOWN.
RoundedDown(n, d) == n \div d

\* quantize("0.01", ROUND_HALF_UP): n / d to the nearest integer.
Rounded(n, d) == (2 * n + d) \div (2 * d)

\* _quantize_money of a fare.
Cents(mills) == Rounded(mills, 10)

\* _get_markup_price.
MarkupPrice(mills, permille) == Rounded(mills * (1000 + permille), 10000)

\* The price per passenger is rounded before it is multiplied; the product of
\* cents needs no rounding.
TotalUsd(perPax, adults) == perPax * adults

TotalMmk(usd, rate) == Rounded(usd * rate, 10000)

EstimateMin(total) == Rounded(total * 9, 10)
EstimateMax(total) == Rounded(total * 11, 10)

\* One-way lists convert the rounded estimate, round-trip lists estimate the
\* converted total.
OneWayMinMmk(usd, rate) == TotalMmk(EstimateMin(usd), rate)

\* Mutant: the wrong estimate is converted.
MaxOfMinimum(usd, rate) == TotalMmk(EstimateMin(usd), rate)

OneWayMaxMmk(usd, rate) == TotalMmk(EstimateMax(usd), rate)
RoundTripMinMmk(usd, rate) == EstimateMin(TotalMmk(usd, rate))
RoundTripMaxMmk(usd, rate) == EstimateMax(TotalMmk(usd, rate))

\* What a customer is shown: the search marks up the fare itself.
Shown(mills, permille, adults) == TotalUsd(MarkupPrice(mills, permille), adults)

\* What a booking charges: its snapshot carries the fare rounded to cents.
Charged(mills, permille, adults) ==
  TotalUsd(MarkupPrice(10 * Cents(mills), permille), adults)
=============================================================================
