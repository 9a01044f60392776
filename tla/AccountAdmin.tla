---------------------------- MODULE AccountAdmin -----------------------------
(***************************************************************************)
(* Administration of one credit account through PATCH /credit-accounts.    *)
(* The endpoint runs in the thread pool: a thread reads the row, computes  *)
(* new values from what it read, and commits.  The UPDATE names the        *)
(* columns the thread changed; nothing locks the row between the two, and  *)
(* the version column is never compared.                                   *)
(***************************************************************************)
EXTENDS Money, FiniteSets

CONSTANTS
    Threads,         \* worker threads
    OpeningLimit,    \* credit_limit of the new account, in paise
    LimitRequests,   \* limits asked for, in Money's exact unit
    StatusRequests,  \* statuses asked for
    MaxOpen,         \* bound: threads between their SELECT and their COMMIT
    MaxEntries       \* bound: no request is read once the ledger has so many

\* The schema admits limits above zero with three decimals.
ASSUME AccountAdminAssumption ==
    /\ IsFiniteSet(Threads)
    /\ OpeningLimit \in Nat
    /\ \A new \in LimitRequests : new \in Nat \ {0} /\ new % 10 = 0
    /\ MaxOpen \in Nat
    /\ MaxEntries \in Nat

VARIABLES
    account,  \* the row: status, limit and available
    ledger,   \* ccm_credit_account_ledger: entries and their total
    request,  \* request[t]: what thread t is about to commit
    row,      \* row[t]: the account as t read it, while it has a request
    undone    \* history: what COMMITs took back of limits they had not read

adminVars == <<account, ledger, request, row, undone>>

AccountStatuses ==
    {"PENDING", "ACTIVE", "SUSPENDED", "FROZEN", "DELINQUENT", "CLOSED", "CHARGED_OFF"}

\* valid_transitions of update_status.
ValidTransitions ==
    [PENDING     |-> {"ACTIVE", "CLOSED"},
     ACTIVE      |-> {"SUSPENDED", "FROZEN", "DELINQUENT", "CLOSED"},
     SUSPENDED   |-> {"ACTIVE", "FROZEN", "CLOSED"},
     FROZEN      |-> {"ACTIVE", "SUSPENDED", "CLOSED"},
     DELINQUENT  |-> {"ACTIVE", "SUSPENDED", "CHARGED_OFF", "CLOSED"},
     CHARGED_OFF |-> {"CLOSED"},
     CLOSED      |-> {}]

\* The same administration in atomic steps; its operators compute the rows.
Atomic == INSTANCE AtomicAccount

AccountRow == [status : AccountStatuses, limit : Nat, available : Int]
NoRequest == [command |-> "none"]
Request ==
    {NoRequest} \cup [command : {"limit"}, limit : LimitRequests]
                \cup [command : {"status"}, status : AccountStatuses]

Open == {t \in Threads : request[t] # NoRequest}

Init ==
    /\ account = Atomic!NewAccount
    /\ ledger = [entries |-> 0, total |-> 0]
    /\ request = [t \in Threads |-> NoRequest]
    /\ row = [t \in Threads |-> Atomic!NewAccount]
    /\ undone = 0

\* Thread t has read the account and goes on with req.
Read(t, req) ==
    /\ request[t] = NoRequest
    /\ Cardinality(Open) < MaxOpen
    /\ ledger.entries < MaxEntries
    /\ request' = [request EXCEPT ![t] = req]
    /\ row' = [row EXCEPT ![t] = account]
    /\ UNCHANGED <<account, ledger, undone>>

ReadForLimit(t, new) == Read(t, [command |-> "limit", limit |-> new])

\* Anything but a valid transition is answered INVALID_TRANSITION.
ReadForStatus(t, new) ==
    /\ new \in ValidTransitions[account.status]
    /\ Read(t, [command |-> "status", status |-> new])

\* freeze answers at once when there is nothing to do, and is a change of
\* the status otherwise.
ReadForFreeze(t, freeze) ==
    /\ freeze <=> account.status # "FROZEN"
    /\ ReadForStatus(t, IF freeze THEN "FROZEN" ELSE "ACTIVE")

\* The session ends, and with it the objects it read.
Done(t) ==
    /\ request' = [request EXCEPT ![t] = NoRequest]
    /\ row' = [row EXCEPT ![t] = Atomic!NewAccount]

\* Mutation of CommitLimit: the ledger gets the new limit instead of the
\* difference.
CommitLimitBooksNew(t) ==
    /\ request[t].command = "limit"
    /\ account' = Atomic!WithLimit(account, request[t].limit)
    /\ ledger' = Atomic!Entered(Atomic!Rounded(request[t].limit))
    /\ Done(t)
    /\ UNCHANGED undone

\* COMMIT of update_limit: both columns are computed from the row as read,
\* and neither is written when the limit is the one read.
CommitLimit(t) ==
    /\ request[t].command = "limit"
    /\ LET new == request[t].limit
           written == Atomic!WithLimit(row[t], new)
       IN /\ \/ new = Exact(row[t].limit) /\ UNCHANGED <<account, undone>>
             \/ /\ new # Exact(row[t].limit)
                /\ account' = [account EXCEPT !.limit = written.limit,
                                              !.available = written.available]
                /\ undone' = undone + row[t].limit - account.limit
          /\ ledger' = Atomic!Entered(Atomic!LimitChange(row[t], new))
    /\ Done(t)

\* Mutation of CommitStatus: the UPDATE names all columns of the row.
CommitStatusWholeRow(t) ==
    /\ request[t].command = "status"
    /\ account' = [row[t] EXCEPT !.status = request[t].status]
    /\ ledger' = Atomic!Entered(0)
    /\ Done(t)
    /\ UNCHANGED undone

\* COMMIT of update_status; the status differs from the one read.
CommitStatus(t) ==
    /\ request[t].command = "status"
    /\ account' = [account EXCEPT !.status = request[t].status]
    /\ ledger' = Atomic!Entered(0)
    /\ Done(t)
    /\ UNCHANGED undone

\* The process stops: what is not committed is rolled back.
Restart ==
    /\ Open # {}
    /\ request' = [t \in Threads |-> NoRequest]
    /\ row' = [t \in Threads |-> Atomic!NewAccount]
    /\ UNCHANGED <<account, ledger, undone>>

\* The bound is reached (no deadlock).
Finished ==
    /\ Open = {}
    /\ ledger.entries >= MaxEntries
    /\ UNCHANGED adminVars

Next ==
    \/ \E t \in Threads :
         \/ \E new \in LimitRequests : ReadForLimit(t, new)
         \/ \E new \in StatusRequests : ReadForStatus(t, new)
         \/ \E freeze \in BOOLEAN : ReadForFreeze(t, freeze)
         \/ CommitLimit(t)
         \/ CommitStatus(t)
    \/ Restart
    \/ Finished

Spec == Init /\ [][Next]_adminVars
------------------------------------------------------------------------------
(* Properties *)

\* The row keeps the types of its columns, and a thread a request of the API.
TypeOK ==
    /\ account \in AccountRow
    /\ ledger \in [entries : Nat, total : Int]
    /\ request \in [Threads -> Request]
    /\ row \in [Threads -> AccountRow]
    /\ undone \in Int

\* The two columns update_limit computes never part: no purchase draws on
\* this table, so what is available is the limit, whatever threads overwrite.
AvailableFollowsLimit == account.available = account.limit

\* The ledger accounts for the limit, however threads overlap: opening limit
\* and LIMIT_CHANGE entries add up to it, but for the changes that a thread
\* overwrote because it had read the limit before them.  A reduction to half a
\* paisa is rounded up in the row and away from zero in the entry, so each
\* entry may miss one paisa.
LedgerExplainsLimit ==
    account.limit - (OpeningLimit + ledger.total + undone) \in 0 .. ledger.entries

\* Thread t commits over a change of the same column that it has not read.
Overwrites(t) ==
    \/ /\ request[t].command = "limit" /\ row[t].limit # account.limit
       /\ account'.status = account.status
    \/ /\ request[t].command = "status" /\ row[t].status # account.status
       /\ account' = [account EXCEPT !.status = request[t].status]

\* A COMMIT changes the account in one atomic step, from the limit or the
\* status it read, though other threads may have committed in between: a limit
\* and a status that are changed together do not undo each other.  Only of two
\* that change the same column the one may overwrite the other, and it leaves
\* the other column alone.
AtomicUnlessStale ==
    Atomic!Init /\ [][Atomic!Next \/ \E t \in Threads : Overwrites(t)]_<<account, ledger>>
==============================================================================
