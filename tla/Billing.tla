------------------------------- MODULE Billing -------------------------------
(***************************************************************************)
(* BillingEngine.generate_bill: coroutines that compute the bill of an     *)
(* account for a month.  Each reads the existing bills, the transactions   *)
(* of the cards one card after the other, and commits a new row of the     *)
(* table bills; no row is locked and no constraint ties a bill to its      *)
(* cycle.  Days are numbered; a transaction is made after midnight of its  *)
(* day.                                                                    *)
(*                                                                         *)
(* The tables fees and payments are empty: every insertion the code makes  *)
(* into them fails (FeeEvaluator and PaymentEngine pass columns the models *)
(* do not have), so the parts of a bill that come from them are zero, as   *)
(* are credits: no transaction has the type REFUND.                        *)
(***************************************************************************)
EXTENDS BillMath, FiniteSets, FiniteSetsExt

CONSTANTS
    Accounts, Cards, Txns,
    AccountOf,     \* Card.credit_account_id
    CardOf,        \* Transaction.card_id
    DayOf,         \* day of Transaction.created_at
    Amount, Fee,   \* Transaction.amount and foreign_fee, in paise
    MonthEnds,     \* the last days of the months
    Dates,         \* the dates bills are asked for
    Generations,   \* requests to generate a bill
    MaxRunning     \* bound: generations between their check and their COMMIT

ASSUME BillingAssumption ==
    /\ IsFiniteSet(Cards) /\ IsFiniteSet(Txns) /\ IsFiniteSet(Generations)
    /\ "unknown account" \notin Accounts
    /\ AccountOf \in [Cards -> Accounts] /\ CardOf \in [Txns -> Cards]
    /\ DayOf \in [Txns -> Nat]
    /\ Amount \in [Txns -> Nat] /\ Fee \in [Txns -> Nat]
    /\ MonthEnds \subseteq Nat /\ Dates \subseteq Nat
    /\ \A d \in Dates : \E e \in MonthEnds : d <= e
    /\ \A d, e \in MonthEnds : d < e => d + 28 <= e
    /\ MaxRunning \in Nat

VARIABLES
    today,     \* the current day
    settled,   \* transactions whose status is SETTLED
    request,   \* request[g]: the account and the date g asks for
    pc,        \* pc[g]: where the coroutine of g is
    answer,    \* answer[g]: how g was answered
    previous,  \* previous[g]: previous_balance of the bill of g
    read,      \* read[g]: the cards whose transactions g has read
    counted,   \* counted[g]: the transactions g has added up
    met,       \* history, met[g]: the generations that ran together with g
    carries    \* history, carries[g]: the bills that are in previous[g]

history == <<met, carries>>
generation == <<previous, read, counted, carries>>
vars == <<today, settled, request, pc, answer, previous, read, counted, history>>

Request == [account : Accounts \cup {"unknown account"}, date : Dates]

\* "Default rigidly to last day of specified month"
CycleEnd(g) ==
    CHOOSE e \in MonthEnds : /\ request[g].date <= e
                             /\ \A f \in MonthEnds : request[g].date <= f => e <= f
Account(g) == request[g].account
CardsOf(a) == {c \in Cards : AccountOf[c] = a}

Running == {g \in Generations : pc[g] \in {"checked", "reading"}}

\* The committed bills, by the generation that made them.
Bills == {g \in Generations : pc[g] = "billed"}
BillsOf(a) == {b \in Bills : Account(b) = a}
BillsFor(a, end) == {b \in BillsOf(a) : CycleEnd(b) = end}

\* The values of f added up over the members of S.
Total(f, S) == MapThenSumSet(LAMBDA x : f[x], S)

ChargesOn(g, c) == Total(Amount, {t \in counted[g] : CardOf[t] = c})
Charges(g) == Total(Amount, counted[g])
ForeignFees(g) == Total(Fee, counted[g])

\* Every card of the account is charged interest on the whole balance.
InterestOf(g) ==
    LET cards == CardsOf(Account(g))
    IN  Total([c \in cards |-> Interest(previous[g], ChargesOn(g, c))], cards)

\* Bill.total_due and Bill.min_payment_due.
TotalDue(g) == previous[g] + Charges(g) + ForeignFees(g) + InterestOf(g)
MinPaymentDue(g) == MinDue(TotalDue(g), InterestOf(g) + ForeignFees(g))
------------------------------------------------------------------------------

Init ==
    /\ today = 0
    /\ settled = {}
    /\ request \in [Generations -> Request]
    /\ pc = [g \in Generations |-> "idle"]
    /\ answer = [g \in Generations |-> "none"]
    /\ previous = [g \in Generations |-> 0]
    /\ read = [g \in Generations |-> {}]
    /\ counted = [g \in Generations |-> {}]
    /\ met = [g \in Generations |-> {}]
    /\ carries = [g \in Generations |-> {}]

\* Time passes, to the end of a month.
Advance(d) ==
    /\ d > today
    /\ today' = d
    /\ UNCHANGED <<settled, request, pc, answer, generation, met>>

\* The settlement job commits a transaction.
Settle(t) ==
    /\ t \notin settled /\ DayOf[t] <= today
    /\ settled' = settled \cup {t}
    /\ UNCHANGED <<today, request, pc, answer, generation, met>>

\* The engine raises an AppError: the request is answered with its code.
Refuse(g, code) ==
    /\ pc' = [pc EXCEPT ![g] = "done"]
    /\ answer' = [answer EXCEPT ![g] = code]
    /\ UNCHANGED met

\* The checks have passed.
Begin(g) ==
    /\ pc' = [pc EXCEPT ![g] = "checked"]
    /\ met' = [h \in Generations |-> IF h = g THEN Running
                                    ELSE IF h \in Running THEN met[h] \cup {g}
                                    ELSE met[h]]
    /\ UNCHANGED answer

Arrives(g) ==
    /\ pc[g] = "idle"
    /\ Cardinality(Running) < MaxRunning
    /\ UNCHANGED <<today, settled, request, generation>>

\* Mutation of Check: the existing bills are not looked at.
CheckNoDuplicate(g) ==
    /\ Arrives(g)
    /\ \/ CycleEnd(g) > today /\ Refuse(g, "INVALID_CYCLE_DATE")
       \/ CycleEnd(g) <= today /\ Account(g) \notin Accounts /\ Refuse(g, "ACCOUNT_NOT_FOUND")
       \/ CycleEnd(g) <= today /\ Account(g) \in Accounts /\ Begin(g)

\* The checks on the date, the account and the bills of the cycle; the query
\* for one bill fails when there are two.
Check(g) ==
    /\ Arrives(g)
    /\ LET same == BillsFor(Account(g), CycleEnd(g)) IN
       \/ /\ CycleEnd(g) > today
          /\ Refuse(g, "INVALID_CYCLE_DATE")
       \/ /\ CycleEnd(g) <= today /\ Account(g) \notin Accounts
          /\ Refuse(g, "ACCOUNT_NOT_FOUND")
       \/ /\ CycleEnd(g) <= today /\ Account(g) \in Accounts /\ same # {}
          /\ Refuse(g, IF Cardinality(same) = 1
                       THEN "BILL_ALREADY_GENERATED" ELSE "INTERNAL_ERROR")
       \/ /\ CycleEnd(g) <= today /\ Account(g) \in Accounts /\ same = {}
          /\ Begin(g)

\* The bills ORDER BY billing_cycle_end DESC LIMIT 1 may return.
Latest(a) ==
    {b \in BillsOf(a) : \A c \in BillsOf(a) : CycleEnd(c) <= CycleEnd(b)}

\* The balance of bill b is carried forward.
Carry(g, b) ==
    /\ previous' = [previous EXCEPT ![g] = TotalDue(b)]
    /\ carries' = [carries EXCEPT ![g] = carries[b] \cup {b}]

\* Mutation of ReadPrevious: the oldest bill instead of the latest.
ReadOldest(g) ==
    /\ pc[g] = "checked"
    /\ \/ BillsOf(Account(g)) = {} /\ UNCHANGED <<previous, carries>>
       \/ \E b \in BillsOf(Account(g)) :
            /\ \A c \in BillsOf(Account(g)) : CycleEnd(b) <= CycleEnd(c)
            /\ Carry(g, b)
    /\ pc' = [pc EXCEPT ![g] = "reading"]
    /\ UNCHANGED <<today, settled, request, answer, read, counted, met>>

\* Read the latest bill, whatever its cycle, and flush the new row.
ReadPrevious(g) ==
    /\ pc[g] = "checked"
    /\ \/ /\ BillsOf(Account(g)) = {}
          /\ UNCHANGED <<previous, carries>>
       \/ \E b \in Latest(Account(g)) : Carry(g, b)
    /\ pc' = [pc EXCEPT ![g] = "reading"]
    /\ UNCHANGED <<today, settled, request, answer, read, counted, met>>

\* The transactions of one card that are SETTLED now and in the window.
ReadCard(g, c) ==
    /\ pc[g] = "reading"
    /\ c \in CardsOf(Account(g)) \ read[g]
    /\ read' = [read EXCEPT ![g] = @ \cup {c}]
    /\ counted' = [counted EXCEPT ![g] =
                      @ \cup {t \in settled : /\ CardOf[t] = c
                                              /\ InWindow(DayOf[t], CycleEnd(g))}]
    /\ UNCHANGED <<today, settled, request, pc, answer, previous, history>>

\* Total and minimum due are set and the bill is committed.
Commit(g) ==
    /\ pc[g] = "reading"
    /\ read[g] = CardsOf(Account(g))
    /\ pc' = [pc EXCEPT ![g] = "billed"]
    /\ answer' = [answer EXCEPT ![g] = "GENERATED"]
    /\ UNCHANGED <<today, settled, request, generation, met>>

\* The process stops: the rows of running generations are rolled back.
Restart ==
    /\ Running # {}
    /\ pc' = [g \in Generations |-> IF g \in Running THEN "done" ELSE pc[g]]
    /\ answer' = [g \in Generations |->
                     IF g \in Running THEN "NO_RESPONSE" ELSE answer[g]]
    /\ UNCHANGED <<today, settled, request, generation, met>>

\* Every request is answered (no deadlock).
Finished ==
    /\ \A g \in Generations : pc[g] \in {"billed", "done"}
    /\ UNCHANGED vars

Generate(g) ==
    Check(g) \/ ReadPrevious(g) \/ (\E c \in Cards : ReadCard(g, c)) \/ Commit(g)

Next ==
    \/ \E d \in MonthEnds : Advance(d)
    \/ \E t \in Txns : Settle(t)
    \/ \E g \in Generations : Generate(g)
    \/ Restart
    \/ Finished

Spec == Init /\ [][Next]_vars
------------------------------------------------------------------------------
(* Properties *)
\* Every request is at a known place of generate_bill, with a known answer,
\* and has read and counted rows that exist.
TypeOK ==
    /\ today \in Nat /\ settled \subseteq Txns
    /\ request \in [Generations -> Request]
    /\ pc \in [Generations -> {"idle", "checked", "reading", "billed", "done"}]
    /\ answer \in [Generations ->
                     {"none", "GENERATED", "INVALID_CYCLE_DATE", "ACCOUNT_NOT_FOUND",
                      "BILL_ALREADY_GENERATED", "INTERNAL_ERROR", "NO_RESPONSE"}]
    /\ previous \in [Generations -> Int]
    /\ read \in [Generations -> SUBSET Cards]
    /\ counted \in [Generations -> SUBSET Txns]
    /\ met \in [Generations -> SUBSET Generations]
    /\ carries \in [Generations -> SUBSET Generations]

\* "Enforces single generation per cycle": two bills of an account for one
\* cycle were generated by requests that ran together, each of which found no
\* bill; any other order of checks, COMMITs and restarts makes one.
OneBillUnlessTogether ==
    \A b, c \in Bills :
        Account(b) = Account(c) /\ CycleEnd(b) = CycleEnd(c) /\ b # c => c \in met[b]

\* Whatever the order in which transactions settle and bills are generated, a
\* transaction is billed in at most two cycles: windows of 30 days on months of
\* 28 to 31 days overlap, but no three of them do.
BilledInTwoCycles ==
    \A t \in Txns : Cardinality({CycleEnd(b) : b \in {g \in Bills : t \in counted[g]}}) <= 2

\* What a bill adds to the balance it carries, and the bills it is due for.
NewDue == [g \in Generations |-> Charges(g) + ForeignFees(g) + InterestOf(g)]
Chain(b) == carries[b] \cup {b}

\* Bill c is left out of the balance of bill b: it ran together with b or with
\* a bill of that balance, or a bill of that balance is for a later cycle and
\* was generated without it.
LeftOut(c, b) ==
    \/ c \in met[b]
    \/ \E e \in carries[b] : c \in met[e] \/ (CycleEnd(c) < CycleEnd(e) /\ c \notin carries[e])

\* The balance is compounded once: a bill is due for what it and the bills in
\* its balance charged, each of them once and all of its account, and of two
\* bills of an account the one is in the balance of the other, except for a
\* bill that was generated together with one of the chain or out of order.
BalanceCarried ==
    \A b \in Bills :
        /\ b \notin carries[b] /\ carries[b] \subseteq BillsOf(Account(b))
        /\ TotalDue(b) = Total(NewDue, Chain(b))
        /\ \A c \in BillsOf(Account(b)) \ {b} :
              b \in carries[c] \/ c \in carries[b] \/ LeftOut(c, b) \/ LeftOut(b, c)
==============================================================================
