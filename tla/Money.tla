-------------------------------- MODULE Money --------------------------------
(***************************************************************************)
(* Amounts of the ledger.  Database columns are NUMERIC(15, 2), so a       *)
(* stored amount is a whole number of paise.  The engine computes with     *)
(* Decimal, and a 3% fee on whole paise has up to two more digits: what    *)
(* Python holds is counted in hundredths of a paisa.                       *)
(***************************************************************************)
EXTENDS Integers

\* A stored amount as the Decimal the engine reads.
Exact(paise) == 100 * paise

\* Mutation of Stored: digits below a paisa are cut off.
StoredCutOff(exact) == exact \div 100

\* PostgreSQL rounds a non-negative value half away from zero when it is
\* stored in a NUMERIC(15, 2) column.
Stored(exact) == (exact + 50) \div 100

\* A response model accepts a Decimal with at most two digits after the point.
WholePaise(exact) == exact % 100 = 0

\* The foreign-transaction fee, 3% of the amount.
ForeignFee(amount, foreign) == IF foreign THEN 3 * amount ELSE 0

\* hold_amount = amount + foreign_fee
HoldAmount(amount, foreign) == Exact(amount) + ForeignFee(amount, foreign)
==============================================================================
