---------------------------- MODULE AtomicAccount ----------------------------
(***************************************************************************)
(* What the administration of a credit account promises: a change of the   *)
(* limit or of the status reads the account and writes it in one step, and *)
(* the ledger has an entry for every change.                               *)
(***************************************************************************)
EXTENDS Money

CONSTANTS
    OpeningLimit,      \* credit_limit of a new account, in paise
    LimitRequests,     \* limits administrators may ask for, in Money's exact unit
    ValidTransitions   \* ValidTransitions[s]: the statuses that may follow s

VARIABLES account, ledger

\* The columns of ccm_credit_accounts that administrators and cards change.
NewAccount == [status |-> "ACTIVE", limit |-> OpeningLimit, available |-> OpeningLimit]

\* PostgreSQL rounds half away from zero on both sides of it.
Rounded(exact) == IF exact >= 0 THEN Stored(exact) ELSE -Stored(-exact)

\* The row after update_limit(new) on an account read as "row".
WithLimit(row, new) ==
    [row EXCEPT !.limit = Rounded(new),
                !.available = Rounded(Exact(row.available) + new - Exact(row.limit))]

\* What update_limit(new) writes into the ledger.
LimitChange(row, new) == Rounded(new - Exact(row.limit))

\* The ledger as its number of entries and the sum of their amounts.
Entered(amount) == [entries |-> ledger.entries + 1, total |-> ledger.total + amount]

Init ==
    /\ account = NewAccount
    /\ ledger = [entries |-> 0, total |-> 0]

SetLimit(new) ==
    /\ account' = WithLimit(account, new)
    /\ ledger' = Entered(LimitChange(account, new))

SetStatus(new) ==
    /\ new \in ValidTransitions[account.status]
    /\ account' = [account EXCEPT !.status = new]
    /\ ledger' = Entered(0)

Next ==
    \/ \E new \in LimitRequests : SetLimit(new)
    \/ \E new \in DOMAIN ValidTransitions : SetStatus(new)

Spec == Init /\ [][Next]_<<account, ledger>>
==============================================================================
