---------------------------- MODULE Authorization ----------------------------
(***************************************************************************)
(* Real-time authorization of card transactions: the coroutines of         *)
(* TransactionEngine.authorize, running concurrently on the event loop of  *)
(* one process, with the row locks of PostgreSQL, the in-memory velocity   *)
(* store, and the card lifecycle handlers that write the same card rows.   *)
(*                                                                         *)
(* A coroutine is interrupted only where it awaits the database, so one    *)
(* action is the code between two awaits at which another actor can change *)
(* what the coroutine depends on.  A row lock is held by whoever is        *)
(* between the SELECT ... FOR UPDATE and the end of the transaction; it is *)
(* read off the program counters.                                          *)
(***************************************************************************)
EXTENDS Money, FiniteSets, FiniteSetsExt

CONSTANTS
    Requests,            \* calls of the endpoint, each with its own session
    Cards, Accounts,     \* rows of the tables card and credit_account
    Keys,                \* values of the Idempotency-Key header
    Countries,           \* country codes
    HomeCountry,         \* CreditAccount.home_country
    ProhibitedCountries, \* rows of ProhibitedCountry, restriction PROHIBITED
    AccountOf,           \* Card.credit_account_id
    CreditLimit,         \* CreditAccount.credit_limit, in paise
    MaxTxnCount,         \* MAX_TXN_COUNT
    MaxTxnAmount,        \* MAX_TXN_AMOUNT, in paise
    HighAmount,          \* the threshold of fraud rule 1, in paise
    Inputs,              \* the requests clients may send
    LifecycleStatuses,   \* statuses the lifecycle handlers write
    ExpiringCards,       \* cards whose expiry month may end
    MaxInFlight,         \* bound: requests being served at one time
    MaxRestarts          \* bound: restarts of the process

\* What a client sends.  "card" may name a card that does not exist;
\* "unusualHour" says that it is between midnight and 5 AM IST.
Payload == [card : Cards \cup {"unknown card"}, key : Keys, amount : Nat \ {0},
            country : Countries, unusualHour : BOOLEAN]

CardStatuses == {"INACTIVE", "ACTIVE", "BLOCKED", "EXPIRED"}

ASSUME AuthorizationAssumption ==
    /\ IsFiniteSet(Requests)
    /\ "unknown card" \notin Cards
    /\ AccountOf \in [Cards -> Accounts]
    /\ CreditLimit \in [Accounts -> Nat]
    /\ MaxTxnCount \in Nat /\ MaxTxnAmount \in Nat /\ HighAmount \in Nat
    /\ MaxTxnAmount <= HighAmount
    /\ HomeCountry \in Countries /\ ProhibitedCountries \subseteq Countries
    /\ Inputs \subseteq Payload
    /\ LifecycleStatuses \subseteq CardStatuses
    /\ ExpiringCards \subseteq Cards
    /\ MaxInFlight \in Nat /\ MaxRestarts \in Nat

VARIABLES
    input,        \* input[r]: what the client of r sends
    pc,           \* pc[r]: the await at which the coroutine of r is
    outcome,      \* outcome[r]: how r was answered
    cardStatus,   \* Card.card_status
    expired,      \* cards whose expiry_date has passed
    available,    \* CreditAccount.available_limit
    outstanding,  \* CreditAccount.outstanding_amount
    posted,       \* requests with committed Transaction and CreditHold rows
    loggedKeys,   \* keys with an IdempotencyLog row younger than 24 hours
    recent,       \* posted requests of the last five minutes
    velocity,     \* requests with an entry in velocity_store
    loopBlocked,  \* a lifecycle handler waits for a card row on the loop
    restarts      \* restarts so far

ledger == <<available, outstanding, posted, loggedKeys>>
cards == <<cardStatus, expired>>
window == <<recent, velocity>>
process == <<loopBlocked, restarts>>
vars == <<input, pc, outcome, cards, ledger, window, process>>

PCs == {"idle", "card", "account", "insert", "commit", "record", "done"}
Declined == {"CARD_NOT_FOUND", "CARD_BLOCKED", "FORBIDDEN", "INSUFFICIENT_CREDIT",
             "VELOCITY_EXCEEDED", "FRAUD_DETECTED"}
Conflicts == {"DUPLICATE_IDEMPOTENCY_KEY", "INTEGRITY_ERROR"}
Outcomes == {"none", "AUTHORIZED", "INTERNAL_ERROR", "NO_RESPONSE"}
                \cup Declined \cup Conflicts

------------------------------------------------------------------------------

InFlight == {r \in Requests : pc[r] \notin {"idle", "done"}}

Account(r) == AccountOf[input[r].card]
Hold(r) == HoldAmount(input[r].amount, input[r].country # HomeCountry)

HoldsCardLock(r) == pc[r] \in {"account", "insert", "commit"}
HoldsAccountLock(r) == pc[r] \in {"insert", "commit"}

\* Mutations: SELECT without FOR UPDATE.
CardNotLocked(c) == FALSE
AccountNotLocked(a) == FALSE

CardLocked(c) == \E r \in Requests : HoldsCardLock(r) /\ input[r].card = c
AccountLocked(a) == \E r \in Requests : HoldsAccountLock(r) /\ Account(r) = a

\* The entries of velocity_store for an account that are still in the window.
Entries(a) == {r \in velocity : Account(r) = a}
HoldTotal(S) == MapThenSumSet(Hold, S)

\* VelocityService.check_velocity raises.
OverVelocity(a, amount) ==
    \/ Cardinality(Entries(a)) >= MaxTxnCount
    \/ HoldTotal(Entries(a)) + amount > Exact(MaxTxnAmount)

------------------------------------------------------------------------------

Init ==
    /\ input \in [Requests -> Inputs]
    /\ pc = [r \in Requests |-> "idle"]
    /\ outcome = [r \in Requests |-> "none"]
    /\ cardStatus = [c \in Cards |-> "ACTIVE"]
    /\ expired = {}
    /\ available = CreditLimit
    /\ outstanding = [a \in Accounts |-> 0]
    /\ posted = {} /\ loggedKeys = {}
    /\ recent = {} /\ velocity = {}
    /\ loopBlocked = FALSE
    /\ restarts = 0

Goto(r, l) == pc' = [pc EXCEPT ![r] = l] /\ UNCHANGED outcome

\* Answer r; an open transaction is rolled back and its locks released.
Finish(r, answer) ==
    /\ pc' = [pc EXCEPT ![r] = "done"]
    /\ outcome' = [outcome EXCEPT ![r] = answer]

\* The first transaction: is there a logged response for the key?
CheckIdempotency(r) ==
    /\ ~loopBlocked /\ pc[r] = "idle"
    /\ Cardinality(InFlight) < MaxInFlight
    /\ \/ /\ input[r].key \in loggedKeys
          /\ Finish(r, "DUPLICATE_IDEMPOTENCY_KEY")
       \/ /\ input[r].key \notin loggedKeys
          /\ Goto(r, "card")
    /\ UNCHANGED <<input, cards, ledger, window, process>>

\* SELECT card FOR UPDATE, the checks on the card and on the country.  The
\* exception of the expiry check is caught by the clause around it, so an
\* expired card takes the same path as a valid one.
LockCard(r) ==
    /\ ~loopBlocked /\ pc[r] = "card"
    /\ ~CardLocked(input[r].card)
    /\ LET p == input[r] IN
       \/ /\ p.card \notin Cards
          /\ Finish(r, "CARD_NOT_FOUND")
       \/ /\ p.card \in Cards /\ cardStatus[p.card] # "ACTIVE"
          /\ Finish(r, "CARD_BLOCKED")
       \/ /\ p.card \in Cards /\ cardStatus[p.card] = "ACTIVE"
          /\ p.country \in ProhibitedCountries
          /\ Finish(r, "FORBIDDEN")
       \/ /\ p.card \in Cards /\ cardStatus[p.card] = "ACTIVE"
          /\ p.country \notin ProhibitedCountries
          /\ Goto(r, "account")
    /\ UNCHANGED <<input, cards, ledger, window, process>>

ShortOfCredit(r) == Exact(available[Account(r)]) < Hold(r)
TooFast(r) == OverVelocity(Account(r), Hold(r))

\* SELECT credit_account FOR UPDATE, then the limit, velocity and fraud
\* checks in the code's order, with no await between them.  Fraud rule 1
\* queries through a session that authorize passes as None.
LockAccount(r) ==
    /\ ~loopBlocked /\ pc[r] = "account"
    /\ ~AccountLocked(Account(r))
    /\ \/ /\ ShortOfCredit(r)
          /\ Finish(r, "INSUFFICIENT_CREDIT")
       \/ /\ ~ShortOfCredit(r) /\ TooFast(r)
          /\ Finish(r, "VELOCITY_EXCEEDED")
       \/ /\ ~ShortOfCredit(r) /\ ~TooFast(r)
          /\ input[r].amount > HighAmount
          /\ Finish(r, "INTERNAL_ERROR")
       \/ /\ ~ShortOfCredit(r) /\ ~TooFast(r)
          /\ input[r].amount <= HighAmount /\ input[r].unusualHour
          /\ Finish(r, "FRAUD_DETECTED")
       \/ /\ ~ShortOfCredit(r) /\ ~TooFast(r)
          /\ input[r].amount <= HighAmount /\ ~input[r].unusualHour
          /\ Goto(r, "insert")
    /\ UNCHANGED <<input, cards, ledger, window, process>>

SameKey(r, s) == input[r].key = input[s].key

\* Mutations of Insert: no unique index; a conflict is retried.
InsertNotUnique(r) ==
    /\ ~loopBlocked /\ pc[r] = "insert"
    /\ Goto(r, "commit")
    /\ UNCHANGED <<input, cards, ledger, window, process>>
InsertRetried(r) ==
    /\ ~loopBlocked /\ pc[r] = "insert"
    /\ ~ \E s \in Requests : pc[s] = "commit" /\ SameKey(r, s)
    /\ Goto(r, IF \E s \in posted : SameKey(r, s) THEN "card" ELSE "commit")
    /\ UNCHANGED <<input, cards, ledger, window, process>>

\* Flush the INSERT of the Transaction row.  The unique index on
\* idempotency_key makes it wait for an uncommitted row with the same key,
\* and fail on a committed one.
Insert(r) ==
    /\ ~loopBlocked /\ pc[r] = "insert"
    /\ ~ \E s \in Requests : pc[s] = "commit" /\ SameKey(r, s)
    /\ \/ /\ \E s \in posted : SameKey(r, s)
          /\ Finish(r, "INTEGRITY_ERROR")
       \/ /\ ~ \E s \in posted : SameKey(r, s)
          /\ Goto(r, "commit")
    /\ UNCHANGED <<input, cards, ledger, window, process>>

\* The hold, the account update and the idempotency log, and the COMMIT,
\* which releases both row locks.
Commit(r) ==
    /\ ~loopBlocked /\ pc[r] = "commit"
    /\ LET a == Account(r) IN
       /\ available' = [available EXCEPT ![a] = Stored(Exact(@) - Hold(r))]
       /\ outstanding' = [outstanding EXCEPT ![a] = Stored(Exact(@) + Hold(r))]
    /\ posted' = posted \cup {r}
    /\ loggedKeys' = loggedKeys \cup {input[r].key}
    /\ recent' = recent \cup {r}
    /\ Goto(r, "record")
    /\ UNCHANGED <<input, cards, velocity, process>>

\* Mutation of Record: the limits are checked again after recording.
RecordThenCheck(r) ==
    /\ ~loopBlocked /\ pc[r] = "record"
    /\ velocity' = velocity \cup {r}
    /\ UNCHANGED <<input, cards, ledger, recent, process>>
    /\ Finish(r, IF OverVelocity(Account(r), Hold(r))'
                 THEN "VELOCITY_EXCEEDED" ELSE "AUTHORIZED")

\* VelocityService.record_transaction runs when the coroutine resumes after
\* the COMMIT, with no lock held.  Then the answer is validated against
\* AuthorizeTransactionResp: a hold with a fraction of a paisa fails, and the
\* client of a committed charge gets the answer of the general handler.
Record(r) ==
    /\ ~loopBlocked /\ pc[r] = "record"
    /\ velocity' = velocity \cup {r}
    /\ \/ /\ WholePaise(Hold(r))
          /\ Finish(r, "AUTHORIZED")
       \/ /\ ~WholePaise(Hold(r))
          /\ Finish(r, "INTERNAL_ERROR")
    /\ UNCHANGED <<input, cards, ledger, recent, process>>

------------------------------------------------------------------------------

\* Mutation of LifecycleWrite: a status of the card management tables is
\* written to the card row.
LifecycleWriteForeignStatus(c, s) ==
    /\ ~loopBlocked /\ ~CardLocked(c)
    /\ cardStatus' = [cardStatus EXCEPT ![c] = "BLOCKED_TEMP"]
    /\ UNCHANGED <<input, pc, outcome, expired, ledger, window, process>>

\* A card lifecycle handler writes the status of the card row.  It is an
\* async endpoint with a synchronous session: its UPDATE blocks the event
\* loop, and if a coroutine holds the row lock neither moves again.
LifecycleWrite(c, s) ==
    /\ ~loopBlocked /\ cardStatus[c] # s
    /\ \/ /\ ~CardLocked(c)
          /\ cardStatus' = [cardStatus EXCEPT ![c] = s]
          /\ UNCHANGED loopBlocked
       \/ /\ CardLocked(c)
          /\ loopBlocked' = TRUE
          /\ UNCHANGED cardStatus
    /\ UNCHANGED <<input, pc, outcome, expired, ledger, window, restarts>>

\* The last day of a card's expiry month passes.
CardExpires(c) ==
    /\ c \notin expired
    /\ expired' = expired \cup {c}
    /\ UNCHANGED <<input, pc, outcome, cardStatus, ledger, window, process>>

\* Five minutes after a transaction its velocity entry leaves the window.
LeaveWindow(r) ==
    /\ r \in recent /\ pc[r] = "done"
    /\ recent' = recent \ {r}
    /\ velocity' = velocity \ {r}
    /\ UNCHANGED <<input, pc, outcome, cards, ledger, process>>

\* 24 hours after a transaction its idempotency log is no longer consulted.
ForgetKey(k) ==
    /\ k \in loggedKeys
    /\ \A r \in recent : input[r].key # k
    /\ loggedKeys' = loggedKeys \ {k}
    /\ UNCHANGED <<input, pc, outcome, cards, available, outstanding, posted,
                   window, process>>

\* The process stops and starts: coroutines and the velocity store are gone,
\* the database rolls open transactions back.
Restart ==
    /\ restarts < MaxRestarts
    /\ restarts' = restarts + 1
    /\ loopBlocked' = FALSE
    /\ pc' = [r \in Requests |-> IF r \in InFlight THEN "done" ELSE pc[r]]
    /\ outcome' = [r \in Requests |->
                      IF r \in InFlight THEN "NO_RESPONSE" ELSE outcome[r]]
    /\ velocity' = {}
    /\ UNCHANGED <<input, cards, ledger, recent>>

\* All requests are answered (no deadlock).
Quiescent ==
    /\ \A r \in Requests : pc[r] = "done"
    /\ UNCHANGED vars

\* The steps of a coroutine once its request has arrived.
Serve(r) ==
    LockCard(r) \/ LockAccount(r) \/ Insert(r) \/ Commit(r) \/ Record(r)

Next ==
    \/ \E r \in Requests : CheckIdempotency(r) \/ Serve(r) \/ LeaveWindow(r)
    \/ \E c \in ExpiringCards : CardExpires(c)
    \/ \E c \in Cards, s \in LifecycleStatuses : LifecycleWrite(c, s)
    \/ \E k \in Keys : ForgetKey(k)
    \/ Restart
    \/ Quiescent

Spec == Init /\ [][Next]_vars

\* The event loop resumes every ready coroutine and PostgreSQL grants a
\* released row lock to a waiter.  Clients owe nothing.
FairSpec == Spec /\ \A r \in Requests : WF_vars(Serve(r))
------------------------------------------------------------------------------
(* Properties *)

\* The types of the variables.
TypeOK ==
    /\ input \in [Requests -> Inputs]
    /\ pc \in [Requests -> PCs]
    /\ outcome \in [Requests -> Outcomes]
    /\ cardStatus \in [Cards -> CardStatuses]
    /\ expired \subseteq Cards
    /\ available \in [Accounts -> Int]
    /\ outstanding \in [Accounts -> Int]
    /\ posted \subseteq Requests /\ recent \subseteq Requests
    /\ loggedKeys \subseteq Keys /\ velocity \subseteq Requests
    /\ loopBlocked \in BOOLEAN
    /\ restarts \in 0 .. MaxRestarts

Posted(a) == {r \in posted : Account(r) = a}
Foreign(r) == input[r].country # HomeCountry

\* Retries, concurrent duplicates and keys older than 24 hours never charge
\* an idempotency key twice: the log, the locks and the unique index together.
OneTransactionPerKey ==
    \A r, s \in posted : SameKey(r, s) => r = s

\* Concurrent authorizations on one account, through one card or several,
\* never reserve more than the limit: check and update share one row lock.
NoOverdraft == \A a \in Accounts : available[a] >= 0

\* available_limit + outstanding_amount never falls below the credit limit,
\* and exceeds it by at most a paisa for each foreign transaction.
LedgerBounds ==
    \A a \in Accounts :
        available[a] + outstanding[a] \in
            CreditLimit[a] ..
            CreditLimit[a] + Cardinality({r \in Posted(a) : Foreign(r)})

\* An answer tells the client the truth: AUTHORIZED was charged, a decline
\* was not, and a conflict means another request with the key was.  Only 500
\* leaves the client in doubt: it follows a charge exactly when the amount is
\* within the threshold of fraud rule 1, and then it is a foreign purchase
\* whose hold the response model refuses.
AnswersMatchLedger ==
    \A r \in Requests :
        /\ outcome[r] = "AUTHORIZED" => r \in posted
        /\ outcome[r] \in Declined => r \notin posted
        /\ outcome[r] = "INTERNAL_ERROR" =>
               (r \in posted <=> input[r].amount <= HighAmount)
        /\ outcome[r] = "INTERNAL_ERROR" /\ r \in posted =>
               Foreign(r) /\ ~WholePaise(Hold(r))
        /\ outcome[r] \in Conflicts =>
               \E s \in posted \ {r} : SameKey(r, s) /\ r \notin posted

\* No transaction is committed on a card that is not ACTIVE at that moment,
\* though the status was read several awaits earlier.
ChargesOnlyActiveCards ==
    [][\A r \in posted' \ posted : cardStatus[input[r].card] = "ACTIVE"]_vars

\* "5-minute window: max 5 transactions per account", "max 10,000 cumulative
\* amount per account", counted on committed transactions.
VelocityCapped ==
    \A a \in Accounts :
        LET window5 == {r \in recent : Account(r) = a} IN
        /\ Cardinality(window5) <= MaxTxnCount
        /\ HoldTotal(window5) <= Exact(MaxTxnAmount)

\* A request that arrived is eventually answered: what it waits for, two row
\* locks and an uncommitted key, is always given back.  The only thing that
\* stops it is a lifecycle handler that blocks the loop on a locked card row.
EveryRequestAnswered ==
    \A r \in Requests :
        pc[r] # "idle" ~> (pc[r] = "done" \/ loopBlocked)

\* Authorization implements the ledger with atomic charges.
ChargedKeys == {input[r].key : r \in posted}
PossibleHolds == {HoldAmount(p.amount, p.country # HomeCountry) : p \in Inputs}
Ledger == INSTANCE CreditLedger WITH charged <- ChargedKeys, Holds <- PossibleHolds
ImplementsLedger == Ledger!Spec

\* Between the lock of the card row and the COMMIT, one coroutine at a time
\* holds a card or an account, its card stays ACTIVE, its hold stays covered,
\* and no other request inserts or has committed its key.  A committed
\* request has no await left at which it could touch the ledger.
CardLockExclusive ==
    \A r, s \in Requests :
        HoldsCardLock(r) /\ HoldsCardLock(s) /\ input[r].card = input[s].card
            => r = s
AccountLockExclusive ==
    \A r, s \in Requests :
        HoldsAccountLock(r) /\ HoldsAccountLock(s) /\ Account(r) = Account(s)
            => r = s
LockedCardActive ==
    \A r \in Requests : HoldsCardLock(r) =>
        input[r].card \in Cards /\ cardStatus[input[r].card] = "ACTIVE"
HoldCovered ==
    \A r \in Requests : HoldsAccountLock(r) =>
        Hold(r) <= Exact(available[Account(r)])
KeyReserved ==
    \A r, s \in Requests :
        pc[r] = "commit" /\ SameKey(r, s) =>
            s \notin posted /\ (pc[s] = "commit" => r = s)
PostedOver ==
    \A r \in posted : pc[r] \in {"record", "done"} /\ input[r].card \in Cards
LockDiscipline ==
    /\ CardLockExclusive /\ AccountLockExclusive /\ LockedCardActive
    /\ HoldCovered /\ KeyReserved /\ PostedOver

==============================================================================
