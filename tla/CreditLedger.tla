----------------------------- MODULE CreditLedger -----------------------------
(***************************************************************************)
(* What authorization promises its clients, with no coroutines, locks or   *)
(* sessions: a charge happens at most once per idempotency key, and in one *)
(* step it is checked against the available credit and reserved from it.   *)
(***************************************************************************)
EXTENDS Money

CONSTANTS
    Accounts, CreditLimit, Keys,
    Holds  \* the amounts clients may ask to reserve

VARIABLES available, outstanding, charged

Init ==
    /\ available = CreditLimit
    /\ outstanding = [a \in Accounts |-> 0]
    /\ charged = {}

\* Reserve "hold" of account a under key k.
Charge(k, a, hold) ==
    /\ k \notin charged
    /\ hold <= Exact(available[a])
    /\ charged' = charged \cup {k}
    /\ available' = [available EXCEPT ![a] = Stored(Exact(@) - hold)]
    /\ outstanding' = [outstanding EXCEPT ![a] = Stored(Exact(@) + hold)]

Next == \E k \in Keys, a \in Accounts, hold \in Holds : Charge(k, a, hold)

Spec == Init /\ [][Next]_<<available, outstanding, charged>>
===============================================================================
