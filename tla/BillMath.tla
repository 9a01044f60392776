------------------------------- MODULE BillMath -------------------------------
(***************************************************************************)
(* The arithmetic of BillingEngine.generate_bill, on whole paise.  The     *)
(* engine quantizes every result to a paisa, half up.                      *)
(***************************************************************************)
EXTENDS Integers

\* round(n / d), half up, for n >= 0
RoundedQuotient(n, d) == (2 * n + d) \div (2 * d)

\* (previous_balance + charges / 2) * 0.36 / 365 * 30
Interest(previous, charges) ==
    RoundedQuotient(27 * (2 * previous + charges), 1825)

FivePercent(due) == RoundedQuotient(due, 20)

Larger(a, b) == IF a >= b THEN a ELSE b
Smaller(a, b) == IF a <= b THEN a ELSE b

MinimumPayment == 10000

\* max(100.00, 5% of the total, interest and fees), but not above the total
MinDue(due, feesAndInterest) ==
    Smaller(due, Larger(MinimumPayment, Larger(FivePercent(due), feesAndInterest)))

\* Mutation of InWindow: two cycles long.
InLongWindow(day, end) == end - 60 <= day /\ day < end

\* The day of a transaction is inside the cycle that ends on day "end":
\* created_at >= end - 30 days and <= end, both at midnight.
CycleDays == 30
InWindow(day, end) == end - CycleDays <= day /\ day < end
===============================================================================
