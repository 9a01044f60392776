# ZBANQUe in TLA+

A TLA+ model of the credit-card system in this repository (FastAPI, SQLAlchemy,
PostgreSQL), checked by TLC on small instances and proved in part with TLAPS.
`PROJECT.json` lists components, runs, mutants, the lines each definition
models, divergences found, hazards and theorems.

## The system

One process (`uvicorn app.main:app`) serves HTTP requests. How two requests
interleave depends on how the endpoint is written:

- `async def` with an `AsyncSession` (authorization, billing, jobs, payments,
  fees): a coroutine that other coroutines may overtake wherever it awaits the
  database.
- `async def` with a synchronous `Session` (card lifecycle and activation, the
  OTP dispatcher, processing of an application, upload of a document): runs to
  its end on the event loop, but for an await of the request's body, and blocks
  the loop whenever the database makes it wait.
- `def` (registration, login, sections of a customer file, credit accounts,
  submission of an application, products): runs in the thread pool and
  interleaves anywhere.

PostgreSQL runs at READ COMMITTED. Locks are taken by `SELECT ... FOR UPDATE`
(authorization only), by an `UPDATE` until its COMMIT, and by unique indexes.
Sessions neither retry nor use version counters.

| Component | State | Operations | Hard behaviour | What makes it correct |
|---|---|---|---|---|
| Authorization engine (`transaction_engine.py`, `velocity_service.py`) | card and account rows, transactions, holds, idempotency log, velocity store in memory | authorize, query | interleaved coroutines, row locks, duplicate requests, restarts | a key is charged once, no overdraft, balances add up, answers are true, every request is answered |
| Clearing and settlement (`batch_processing.py`) | transaction status | clear a day, settle | overlapping jobs without locks, stop between SELECT and COMMIT, error after COMMIT | status only advances, every transaction is reported once |
| Billing engine (`billing_engine.py`) | bills | generate, list, detail | check-then-insert without lock or constraint, settlement during generation, 30-day windows | one bill per cycle, every charge billed once, balance carried once |
| Card management (`card_management_service.py`) | CCM card and account status, mirrored to the admin card row; OTP sessions | issue, activate, block, unblock, freeze, replace, renew, terminate | two tables kept in step by hand, blocking of the event loop, error after COMMIT | both tables agree, terminated is final, one successor per card, the account follows its card |
| Account administration (`credit_account_admin_svc.py`) | limits, status, ledger of changes | limit, status, freeze, cycle, risk, interest, overlimit | threads that read, compute and write the same row | no update is lost, CLOSED is final |
| Application and issuance (`application.py`, `issuance_svc.py`, `engines/`) | applications with their assessment, accounts, cards | submit, evaluate, reject, approve with an account, issue a card | concurrent submissions, steps repeated or out of order, products that change meanwhile | one account per application, an evaluation agrees with the assessment, a bounded number of applications |
| Registration, login, OTP (`routers/auth.py`, `core/`) | users, administrators, credentials, OTP rows, token blacklist | register, add an administrator, generate and verify an OTP, login, logout, reset the password | identifiers computed as maximum plus one by threads, order of text, expiry and late answers of OTPs | identifiers are sequential and unique, a session or a new password follows a code read in time, every call is answered |
| Customers (`api/customer.py`) | personal details, four sections, documents in the database and the file system | enter, submit, upload, block by country | check-then-insert by threads, two stores without a common COMMIT | stages in order, declarations made, a document for every submission |
| Products (`credit_product_svc.py`, `card_product_svc.py`) | products with creator, approver and status | create, approve, reject, suspend, delete | decisions on rows read before, deletion of what is being referred to | two administrators behind every product on offer, no dangling reference |
| Migrations (`alembic/`) | schema, enumerated types, version | upgrade, downgrade | scripts that fail half-way, two operators, downgrades that forget something | the schema is that of the version, rows are not lost by surprise |
| Payments, fees (`payment_engine.py`, `fee_evaluator.py`) | payment and fee rows | record, assess | every valid request fails on a column the model does not have | the row of a confirmed payment exists |
| Scheduler (`billing_jobs.py`) | none | daily statements, late fees | the daily job fails on an import every day | a statement is eventually generated |
| HTTP layer, sessions, schemas | none of their own | error mapping, rollback, validation | | |

Components interact through rows: authorization writes transactions that
clearing advances, settlement advances further and billing adds up; card
management writes the card row that authorization locks; a completed customer
file admits applications, which refer to products and become the accounts that
account administration and cards work on; the token blacklist stands before
every endpoint; the exception handlers of `main.py` turn what escapes an engine
into the client's answer.

## Modules

| Module | Models |
|---|---|
| `Money` | amounts as whole paise in the database and hundredths of a paisa in Python; rounding on storage |
| `CreditLedger` | abstract specification: charges that are atomic and happen once per key |
| `Authorization` | `TransactionEngine.authorize`, the velocity store, the writes of the card handlers |
| `AuthorizationProofs` | theorems of `Authorization` |
| `BatchJobs` | clearing and settlement |
| `BatchJobsProofs` | theorems of `BatchJobs` |
| `BillMath` | interest, minimum due, cycle window |
| `Billing` | `BillingEngine.generate_bill` |
| `BillingProofs` | theorems of `BillMath` and `Billing` |
| `AtomicAccount` | abstract specification: administration of an account in atomic steps |
| `AccountAdmin` | `CreditAccountAdminService`: limit, status, freeze, by threads |
| `CardLifecycle` | `CardManagementService`, the OTP rows it uses, and `AccountAdmin` on the same account |
| `CardLifecycleProofs` | theorems of `AccountAdmin` and `CardLifecycle` |
| `Access` | roles and permissions (`require`, `ROLE_PERMISSIONS`) |
| `Identity` | registration, administrators, one-time passwords, sessions |
| `IdentityProofs` | theorems of `Identity` |
| `CustomerFile` | the customer file (CIF) and the identity document (KYC) |
| `CustomerFileProofs` | theorems of `CustomerFile` |
| `Scoring` | bureau score, fraud flags, risk band and the two decisions (`app/services/engines`) |
| `Products` | governance of credit products and card products |
| `Issuance` | applications and accounts, composed with `Products` |
| `IssuanceProofs` | theorems of `Products` and `Issuance` |
| `Migrations` | the Alembic revisions and the runs that apply them |
| `MigrationsProofs` | theorems of `Migrations` |
| `MC...` | instances for TLC of the module each is named after |

A definition whose comment begins with "Mutation" is a plausible bug; it is
not part of any specification and shows that a property is able to fail.

### Authorization

A request is a coroutine; `pc[r]` names the await at which it is suspended, and
an action is the code from there to the next await at which another actor can
matter: `CheckIdempotency` (a transaction of its own), `LockCard`, `LockAccount`
(with the limit, velocity and fraud checks in the code's order), `Insert` (the
flush that meets the unique index), `Commit` (hold, balances, log) and `Record`
(the velocity store and the answer, after the COMMIT). The answer passes a
response model with two decimals (`WholePaise`): a foreign purchase of 0.50 has
a fee of 0.015 and a hold of 0.515, so it is charged and answered 500, and
`AnswersMatchLedger` says for which requests a 500 leaves the client in doubt.
Row locks are not variables: a coroutine between its `SELECT ... FOR UPDATE` and
its COMMIT holds the lock, so `CardLocked` and `AccountLocked` are read off
`pc`.

`LifecycleWrite` is a card handler. Its UPDATE of a locked row stops the whole
event loop (`loopBlocked`), after which no coroutine moves until a restart.
`LeaveWindow` is the passing of five minutes; it takes a committed transaction
out of the window the property counts (`recent`) and out of the store
(`velocity`) at the same step, which ignores the moment between the COMMIT and
`Record`. `ForgetKey` is the passing of 24 hours, `CardExpires` the end of the
expiry month, `Restart` the end of the process: open transactions are rolled
back and the velocity store is empty.

Limits of the model: an amount is a natural number of paise; authorization
codes do not collide; a malformed expiry date and a card without an account do
not occur (the issuing code writes both); the response body is never empty.

### BatchJobs

A job is a SELECT, a COMMIT and an answer, with awaits between them. The rows
are not locked, so `Commit` overwrites what was committed in between. Clearing
parses its date before the SELECT (`Refuse`). Settlement parses it when it
builds its answer, whose net obligation, 98% of the total, must be whole paise
for the response model (`Reportable`): `Answer` may be a 500 although `Commit`
moved every row. A stop of the process between SELECT and COMMIT rolls back,
one between COMMIT and answer does not. `Authorize` stands for the
authorization engine. `MaxRunning` bounds the jobs being served.

Jobs may overlap, and then statuses go back and totals count twice. `met` is a
history variable, the jobs that were between SELECT and COMMIT with a job, and
the properties say exactly which overlaps do it: the reader of a property named
`...UnlessTogether` learns that every other order of jobs, failures and stops
is harmless.

### Billing

A generation runs `Check`, `ReadPrevious` (with the flush of the new row),
`ReadCard` once per card and `Commit`, with settlements (`Settle`), the
calendar (`Advance`), other generations and restarts between them. A bill is
the request that made it; its amounts are functions of what it read. Days are
numbered, and a transaction is made after midnight of its day. Fees and
payments are zero because no insertion into their tables succeeds; credits are
zero because no transaction is a REFUND. COMMIT and answer are one step: a bill
whose answer is lost makes no false claim, and the next request for its cycle
is answered BILL_ALREADY_GENERATED.

`met` are the generations that ran together with one, and `carries` the bills
that are in its previous balance; both are history variables. Generations may
overlap and may be asked for in any order of cycles, and the properties say what
that leads to: a second bill of a cycle (`OneBillUnlessTogether`), a balance
that leaves out a bill (`BalanceCarried`, `LeftOut`), never one that has a bill
twice, and never a third cycle for a transaction (`BilledInTwoCycles`).

### AccountAdmin

`PATCH /credit-accounts/{id}` is a `def` endpoint, so each request is a thread.
It reads the row (`ReadForLimit`, `ReadForStatus`, `ReadForFreeze`, with the
answers that need no COMMIT left out because they change nothing) and commits
values computed from what it read (`CommitLimit`, `CommitStatus`). SQLAlchemy's
UPDATE names the columns whose value changed; it has no version in its WHERE
clause, although the column `version` is commented "Optimistic Locking". A
COMMIT therefore overwrites `limit` and `available` as a pair and leaves
`status` alone, or the other way round. `MaxOpen` bounds the threads between
SELECT and COMMIT; `MaxEntries` ends a behaviour after so many ledger entries.

`AtomicAccount` is the same administration with read and write in one step. A
COMMIT that finds the column it writes as the thread had read it is one of its
steps, whatever else was committed in between; a COMMIT over a newer value of
that column (`Overwrites`) undoes the change it had not read and keeps its
entry in the ledger. `undone` is a history variable that adds up what limits
lost that way, and `LedgerExplainsLimit` counts it. That limit and available
credit agree needs neither, since both are written from one read.

A limit has three decimals in the API and two in the column, and PostgreSQL
rounds half away from zero, so the row and the entry for a reduction may be
rounded differently; `LedgerExplainsLimit` states by how much.

### CardLifecycle

One account, its cards, and the threads of `AccountAdmin` (`Administer`). The
lifecycle endpoints are `async def` without an `await`, so at most one command
is executing: `Load` is everything up to the last SELECT, the action named
after the command (`Activate`, `Block`, `ConfirmUnblock`, `Replace`,
`Terminate`, `Freeze`, `Unfreeze`) is its COMMIT, `Abandon` a COMMIT that fails
or a stop of the process. Between the two, threads may administer the account
(`Administer`) and issue another card for it (`IssueCard`), which is why a
command carries what it read (`running.linked`, `running.status`). An UPDATE of
`account.status` is only sent if the value differs from the one read
(`SetAccount`).

A card is its row in `ccm_credit_cards`, the `card_status` of its row in the
administrative table, and `reissue_reference`. `Mirrored` says whether the
account exists under the same id in the administrative table.
`configure_and_create_account` passes `account.id` before the flush has set it,
so accounts it makes are not mirrored; `TRUE` is the case the dual inserts are
written for and in which the second table matters. The statuses CREATED,
INACTIVE and EXPIRED of a CCM card are never written and left out, renewing is
replacing with another reason, and `outstanding_balance` of the CCM account is
zero because no code changes it.

`session` holds OTP rows by `linkage_id`: activation ids, which are handed out
without being stored and get a row when a password is generated, and unblock
ids, whose row is verified from the start and has the purpose LOGIN. A password
generated for LOGIN uses up every unblock session, as in the code. Expiry of
passwords and wrong passwords are attempts that change nothing. One customer
owns all the sessions.

`writer` is a history variable: who wrote `account.status` last. The properties
say what the statuses of cards and account owe each other: `AccountFollowsCard`
relates the account to the linked card as long as no administrator intervened.

### Access and Identity

`Access` has the roles named for the permissions that modelled endpoints ask
for; a SUPERADMIN has all.

A registration (`POST /auth/registrations`) and the creation of an
administrator are the same three queries: `Register` looks whether the address
is free, `TakeNumber` reads the last identifier, `Insert` flushes and meets the
unique indexes, waiting for rows of other transactions (`Waits`), and `Commit`
confirms. An identifier is its number; `TextOrder` is where its text stands
among the others, which is the order of numbers as long as they are padded to
one width. Six digits give 999 999 numbers; `MaxPadded` is that bound, and the
run makes it 9 with 8 numbers in use, so that registrations reach its end: the
identifier after the last padded one sorts before it, and every registration
from then on computes a number in use and is answered 500.

The OTP dispatcher is one step per command: `Generate`, `Verify`. A session is a
token: of a login (`code = 0`), or the one that an accepted PASSWORD_RESET code
brings (`Accept`). The latter is signed like the former and carries the user's
id, and `require()` (`Valid`) looks at neither purpose nor status, so for 15
minutes it opens what a login opens, also to a user who never verified the
address; `verify_password_reset` in turn does not look at the blacklist.
`ExpireCode` and `ExpireSession` are the passing of 10 minutes, and of one hour,
eight hours or 15 minutes. A code has no attempts counter, so a wrong code is an
attempt that changes nothing. A password is the code it was reset with, which is
what `PasswordsFollowCodes` compares. `Logout` and `Revoke` are the check and
the insert of a token; `Valid` is `require()`. The number 0 is the
administrator whom `db/seeder.py` makes; only that one may add others. The
purposes LOGIN and ACTIVATION are in `CardLifecycle`. Codes for administrators
break a foreign key of `otp_codes` and are not stored. `Watched` names the users
that ask for codes and log in: one that the run is going to register.

### CustomerFile

One customer. An `Enter...`, `Submit`, `Upload` or `Logout` is what a request
reads, up to the answers that change nothing, and its second step is its COMMIT
(`Block`, `SavePersonal`, `SaveSection`, `Complete`, `StoreDocument`,
`Revoke`). Rows of the file are only added, so the several queries of a check
may be taken at the instant of the last one. `count[s]` counts the rows of a
section, which only the declaration limits to one. `Upload` is a coroutine: it
opens the file, which empties it, awaits the document, and then writes file and
row without another await (`WriteDocument`, `StoreDocument`, with a stop of the
process possible between them). A path is the type of a document and a second,
so two uploads may share one. `overlapped` is a history variable: properties
that hold only for a customer who waits for answers name it.

### Scoring, Products and Issuance

`Scoring` translates the engines to functions; the callers pass a completed KYC
and India for both countries, which fixes some of their arguments.
`IncomePoints` names the three incomes for which the quotient in floating point
falls below its last point.

`Products` has one thread per call: `DecideCredit`, `DecideCard`, `AddCard`,
`DeleteCredit` and `DeleteCard` read and decide, the `Commit...` actions write
the columns whose value changed. Foreign keys are the conditions of the COMMITs.
`referenced` are the card products that other tables refer to, and `Refer` is
what those tables may do; `Issuance` replaces it by submissions, accounts and
cards, and implements `ProductsSpec`.

`Issuance` has the applications of one customer. `Submit` counts accounts,
`Assess` reads applications and accounts and runs the engines, `Store` is the
COMMIT. `Evaluate`, `Reject`, `Approve` and `IssueCard` are coroutines without
an await in the way, one step each. The rules of a product and what was declared
are stored with the application, because evaluation computes from them.
`together` says that submissions have overlapped.

### Migrations

Revisions 1 to 31 in the order of `down_revision`, each as the objects its
upgrade makes and drops and the types it creates, and the same for its
downgrade. `Begin` reads the version of the database and fixes the target, and
`Commit` runs the scripts from there on the schema as it is then, with the
version, in one transaction; when a script does not apply, or the version is no
longer the one read, only `Fail` is left. `Fill` puts rows into a table.
Indexes, types of columns and nullability are left out except where they make a
statement fail.

Revision 31 (`a29f7d3ffc7e`) drops an index and a column that no revision
creates. `alembic upgrade head` (`README.md:77`) therefore fails on an empty
database, the 22 revisions after it cannot be reached, and the run shows that
nothing of a failed upgrade remains. Downgrades that fail always (of revisions
`eb362f80130a`, `f50f53ff89d5` and `89f11f69a390`), and enumerated types that
downgrades of the first three leave behind, so that the next upgrade fails, are
in the model as scripts without an outcome.

## Runs

| Run | Question | Bounds |
|---|---|---|
| `AuthorizationSafety` | Do all interleavings keep the ledger, the locks and the answers right, and implement `CreditLedger`? | 3 requests, 7 payloads that take every branch, 3 cards on 2 accounts, 2 keys, one restart |
| `AuthorizationLiveness` | Is every request answered, unless a lifecycle handler blocks the event loop? | 3 requests on one account with shared keys and cards, two statuses written by handlers, one card that expires |
| `BatchJobsSafety` | Which overlaps of jobs move a status back or count twice, and are all rows accounted for after failures and stops? | 4 jobs of any kind and date, 2 at a time, 2 transactions on 2 days, one of which settles at a fraction of a paisa |
| `BillingSafety` | Which overlaps and orders of generations bill a cycle twice or leave a balance out? | 3 generations, 2 at a time, 2 accounts, 3 cards, 3 months, 3 transactions on days inside two windows, one and none |
| `AccountAdminSafety` | Is administration atomic but for overwriting one column, and does the ledger explain the limit? | 2 threads at a time, 4 limits on both sides of the opening one and of half a paisa, all 7 statuses, 4 ledger entries |
| `CardLifecycleSafety` | Does any sequence of commands keep both card tables, the succession of cards and the account in agreement? | 3 cards, 2 sessions, 1 thread that may set 3 statuses or a limit once |
| `IdentitySafety` | Do registrations that race keep number and address, do tokens and passwords follow codes, is every call answered? | 2 threads, 2 addresses of users and one of an administrator, 9 padded numbers of which 8 are in use, 2 codes, 1 login, then the tokens of reset codes, restarts |
| `CustomerFileSafety` | Are the stages in order, declarations made, documents stored, when requests overlap and the process stops? | 2 requests, 2 tokens, 2 file names, 2 documents, 3 countries |
| `ProductsSafety` | Do overlapping decisions, additions and deletions keep four eyes and references? | 2 threads, an administrator of each role, 1 credit product, 2 card products |
| `IssuanceSafety` | One account per application, assessments confirmed, applications bounded, and the part of `Products` implemented? | 2 submitters, 1 thread, 2 administrators, 1 credit product and 1 card product, 2 applicants, caps of 1 |
| `MigrationsSafety` | Do upgrades and downgrades of two operators leave the schema of the version, and lose rows only where a revision says so? | 2 operators, all 31 revisions, steps and runs to 0, 30 and 31, rows in 5 tables |
| `AuthorizationVelocityRace` | Do concurrent requests respect the velocity caps? No: see below. | 3 requests of one client on one card, with keys of their own |

Two cards on one account and one on another are enough for the lock order to
matter; three requests for a holder, a waiter and a late comer; two keys for a
request to share one and differ in one. The credit limit of 1.55 admits one
charge of 1.00 and one foreign charge of 0.50, whose fee of 1.5 paise is
rounded, but not two of 1.00. The velocity caps are scaled to 2 transactions
and 2.00, keeping `MAX_TXN_AMOUNT` equal to the threshold of fraud rule 1 as in
the code. Months end on days 31, 59 and 90, so that the three lengths of a
month that matter for a 30-day window occur. Three cards allow two
replacements in a row, or one of an old card beside a newer one, and two
sessions an activation beside an unblocking; the statuses ACTIVE, FROZEN and
CLOSED are those that cards write too.

Two jobs, generations or threads at a time show every pair that can meet; a
fourth job settles again what two clearings put back, and a third generation
carries the bills of two that overlapped, or comes out of order.

Two threads show every race of a check with a COMMIT between them; a third
registration would meet the same indexes. `Watched` is the number 10, the one
after the last padded number, which the run can only reach by two registrations;
a login is made while no token is there, so it is followed by tokens of resets,
which the codes bound, but does not follow one. Two codes are one superseded by
another, or one of each purpose. Two requests for a customer are all the races
of pairs, and restarts between them all the points at which one may stop; two
names and two documents let uploads share a name and differ. One credit product
with two card products, and three administrators of whom two may create and two
decide, give a creator who decides, one who does not, and a decision beside a
deletion. In `IssuanceSafety`, a cap of 1 with 2 submitters is reached with and
without overlap; one applicant raises a flag and has the lower score, the other
an income below the product's. With a single card product `IssueCard` only
refers to it again. The five watched tables of `MigrationsSafety` are those that
a revision drops, empties or replaces, and two that none does.

`AuthorizationSafety` and `AuthorizationLiveness` do not check deadlock: a
blocked event loop really stops the system there.

Fairness (`FairSpec` of `Authorization`) is weak fairness of each coroutine's
steps: the event loop resumes a coroutine whose query has returned, and
PostgreSQL grants a released row lock to a waiter. In `Identity` it is weak
fairness of each thread's steps, for the same reasons. Clients, lifecycle
handlers and restarts owe nothing.

### What the code does otherwise than it says

`AuthorizationVelocityRace` ends in a counterexample: requests in flight do not
count each other, so more transactions than the cap are committed in a window
(`PROJECT.json` quotes the lines).

Divergences read off the code, which the models contain and no run singles out.

Authorization and billing:

- the error that declines an expired card is swallowed by the `except` around it
  (`transaction_engine.py:76`; `tests/test_transactions.py` expects it);
- a card handler waits on the event loop for a row lock whose holder needs the
  event loop, and everything stops (`routers/cards.py:112`; `loopBlocked`);
- a foreign purchase whose hold is not whole paise is charged and answered 500,
  since the response model has two decimals (`routers/transactions.py:21`,
  `schemas/engine_schemas.py:39-54`, `main.py:179`);
- a duplicate that arrives during the first request is answered 500 by the
  unique index, where `tests/test_transactions.py:141-150` expect 409;
- a flagged transaction is declined although `velocity_service.py:125,142` says
  it is not blocked;
- `available_limit` drifts from limit minus holds by the rounding of foreign
  fees (`LedgerBounds` bounds the drift), and clearing releases no hold although
  `routers/jobs.py:23` says so;
- settlement settles every CLEARED transaction (`batch_processing.py:45`), where
  `routers/jobs.py:62` speaks of a target date, and most settlements are
  answered 500 after the COMMIT: 98% of the total seldom is whole paise, which
  the response model asks for (`batch_processing.py:55,62`,
  `schemas/engine_schemas.py:201`), and a malformed date is noticed only then
  (`:59`);
- jobs that overlap move a SETTLED transaction back to CLEARED
  (`batch_processing.py:27`) and report its amount again;
- generations that overlap bill a cycle twice (`billing_engine.py:49`), where
  `routers/billing.py:42` says "Enforces single generation per cycle";
- the documented formulas of a bill are others: `routers/billing.py:38` has a
  total of new charges, interest and fees less credits, the code adds the
  previous balance and takes payments off (`billing_engine.py:153-155`);
  `BalanceCarried` states what the code does. `:35` counts CLEARED transactions,
  the code SETTLED ones (`:87`); `:37` has interest by the days of the cycle, the
  code by 30 days, on half the charges as well and once per card (`:109-112`);
  `:39` has a minimum of 25.00 or 2% and what is past due, the code one of
  100.00, 5% or interest and fees, and not more than the total (`:159-163`);
- a transaction of January 30 is on the bills of January and of February,
  because the start of a cycle is 30 days before its end
  (`billing_engine.py:52`).

Cards and accounts:

- a CLOSED account gets another status by a command on a card that is not
  terminated (`card_management_service.py:260`);
- `replace_card` fails on an undefined name after its COMMIT, so the client is
  answered 500 although the card was replaced (`OneSuccessor` says that a retry
  does no harm);
- an unblock id is accepted for any card and after its 15 minutes;
- overlapping changes of a limit lose one of them in spite of the column
  `version`, which is commented "Optimistic Locking".

Customers and identity:

- the token of a PASSWORD_RESET code works as an access token for 15 minutes,
  also for an UNVERIFIED user (`core/rbac.py:158-170,184-226`,
  `routers/auth.py:546-553`), where `routers/auth.py:197` answers "Account must
  be verified with OTP before login"; it resets passwords after a logout too
  (`routers/auth.py:319-320` looks at the purpose only);
- a file is completed without personal details, which `api/customer.py:105-110`
  puts first; a BLOCKED customer may log in again (`unified_login` looks at the
  user's status, the block writes the profile's) and becomes ACTIVE on
  submission;
- the seeder passes `department=`, which `Admin` does not have; `main.py:71-77`
  logs the TypeError, so a fresh database has no SUPERADMIN.

Products and applications:

- an application is accepted for a product that is a DRAFT or SUSPENDED; the
  limits of age and the like of a product are not looked at;
- submissions that overlap may end in two accounts for one card product, and in
  more applications than the velocity rule allows (`ApplicationsBounded` says
  how many); `fraud_engine.py` says "last 24h" and counts all applications;
- an APPROVED application without an account is answered "already been verified
  as REJECTED" (`issuance_svc.py:263-267`); one that has its account may be
  evaluated and rejected again; approving one that was rejected after it got its
  account is answered as done, and nothing is committed (`:405-409`);
- customers are told of a deletion that then fails;
- the mirrored row of an account has another identifier than the account.

Migrations: as described above. `README.md` of the repository also names Redis,
APScheduler, disputes and a payment waterfall, which do not exist.

## Proofs

`AuthorizationProofs`, for any number of requests, cards, accounts, keys,
restarts and any limits: the type invariant; `LockDiscipline`;
`OneTransactionPerKey`; `NoOverdraft`; `LedgerBounds`; `ChargesOnlyActiveCards`;
`AnswersMatchLedger`; and that `Authorization` implements `CreditLedger`.
`NoOverdraft` is not inductive: that a COMMIT leaves the balance covered follows
from a comparison made three steps earlier. The invariant `IInv` therefore
states what a coroutine has established and still relies on between lock and
COMMIT (`LockDiscipline`): locks are exclusive, the locked card is ACTIVE, the
hold is covered, the key is reserved. `Releases` and `Takes` prove it for the
steps that free and acquire, `CommitIInv` for the COMMIT that spends the
reservation. `BalancesAddUp` carries the balances with the number of foreign
transactions, by the fact that storing both balances adds at most a paisa to
their sum. `VelocityOverrunBounded` says what is left of the velocity cap, whose
claim a run refutes: with n requests in flight at a time and a cap of m, a
window has at most m + n - 1 transactions of an account, and as many again for
each restart. The invariant (`VelocityInv`) counts with the recorded
transactions those that passed the check and have not recorded yet (`Known`),
and bounds those that a restart made the process forget (`Forgotten`).
`AnswersTrue` adds that an answer is a request's last step, that a coroutine
about to record is posted, that the log only knows charged keys, and which
requests a 500 leaves in doubt (`AInv`); that a request has no row before its
COMMIT comes from `IInv`, and that only a foreign hold has a fraction of a paisa
from `FractionIsForeign`.

`BatchJobsProofs`, for any jobs, transactions and days and any number of jobs at
a time: the three properties of the run `BatchJobsSafety`, failures and stops
included. The invariant `IInv` says that jobs open at the same time have met
(`OpenMet`), what an open job may still rely on of the rows it read
(`OpenReads`), that of two jobs that read what one of them committed each met
the other, or the later settles what two clearings put back
(`RepeatsExplained`), and which batch every row is in (`RowsOfBatches`). Steps
that commit nothing, answers and stops among them, leave all of it alone
(`Quiet`).

`BillingProofs`, for any accounts, cards, transactions, generations at a time
and cycles whose ends are 28 days or more apart, as ends of months are (the
second part of `BillingAssumption`). Its first half counts what overlapping
generations can do: a cycle has at most `MaxRunning` bills (`RaceIsBounded`),
because the generations that found none are all still running when the first
commits; a day is in the windows of at most two cycles (`TwoWindows`), so a
transaction is billed in two (`TwoCycles`), on at most `2 * MaxRunning` bills
(`BilledByRunning`); no bill demands less than its interest and fees or more
than its total (`MinimumIsFair`); and what a request is told of the bills of its
cycle is true (`AnswersAreTrue`).

Its second half says which generations do it. `TwoBillsRanTogether` rests on
`MetInv`: generations that run have met, and so have those of one bill.
`BalanceAddsUp` is the equality of two sums over bills, for any overlap and
order of cycles. Its invariant `CInv` says that the bills in a balance are a
chain, each carrying the one before (`Chained`), and that of two generations of
an account that have read their previous balance one is in the balance of the
other or was left out for one of the two reasons of `LeftOut` (`Linked`). Sums
are `MapThenSumSet`, whose definition is a recursion over the set; `SumsExist`
and `TotalStep` derive its equations from the definition by taking, of the sets
at which they fail, one all of whose proper subsets satisfy them (`Minimal`).

`CardLifecycleProofs` begins with `AccountAdmin`, for any threads, limits and
overlaps: `AvailableFollowsLimit`, `LedgerExplainsLimit` and
`AtomicUnlessStale`. The invariant is that limit and available credit agree in
the row and in what every thread has read, and that a requested status is a
valid successor of the one read (`AInv`). A COMMIT of the status whose thread
read the current one is then an atomic step; so is one of the limit whose thread
read the current limit (`SameLimit`), and the rest overwrite. That row and entry
are rounded apart by a paisa at most is the lemma `RoundedDifference`.

Its second part is `CardLifecycle`, for any number of cards, sessions, threads
and overlaps: every property of the run `CardLifecycleSafety`. All rest on
`CommandsCurrent`: what a command has read of its card still holds at its
COMMIT, because only the event loop changes a card that exists. The invariant
`LInv` adds that the command knows the status of the account unless a thread has
written it since (`LoopCurrent`), that a linked card exists, and that cards not
yet issued are blank. `Commits` states each command as "move one card to a
status, set the account"; the theorems then differ in one case per command.
`AccountFollows` needs one fact more (`NewLinkIdle`): a card linked by a thread
while a command executes is still as issued, so the command's write of the
account harms nothing.

`IdentityProofs`, for any threads, addresses, existing rows and bounds: every
safety property of the run `IdentitySafety`. `IInv` has three parts. `Registry`:
a number that a thread has taken follows one in use (`Numbered`), and a row that
is inserted and not committed has its number and its address for itself
(`Exclusive`); so a COMMIT never leaves a gap and never takes over a row.
`NextNumbers` shows that the last identifier in the order of text is one whose
successor is at most one past the padded numbers. `Verification`: a code that
was accepted is used, and only the last code of a user and purpose may be unused
(`Codes`), so an answer that comes late finds its code used; an account becomes
ACTIVE only with an accepted code (`ActiveConfirmed`), and a token of a reset
comes from an accepted code of its own (`TokensBrought`), which `TokensFollow`
and `PasswordsFollow` rest on. `Typed` adds to the types that a logout names a
token handed out.

`CustomerFileProofs`, for any requests, tokens, paths and documents:
every property of the run `CustomerFileSafety`, and `EnteredOnce`. Two requests
may both have found a section missing, so nothing about counts follows from the
rows alone. The invariant `FInv` says what an open request still relies on: the
sections it found are there, because rows are only added (`Lasting`); a file
that an open upload has written is not emptied, because the loop is held
(`OneWritten`); and without overlap a single request is open, so that what it
found missing is still missing (`Alone`).

`IssuanceProofs`, for any threads, submitters, administrators, products, rules
and applicants: every property of the runs `ProductsSafety` and
`IssuanceSafety`, and `RejectedUnlessStale`, `ProductsKept`. `FourEyes` is not
inductive: a decision writes columns into a row that another decision has
changed. The invariant `PInv` says of every row, and of every row about to be
written, that its approver is not its creator and that there is one if it is on
offer (`AllGoverned`, `Decided`), and that the creator never changes; so any
mixture of their columns is governed too. `LaunchesStand` adds `Offered`: the
parent of a product on offer, or about to be, has been on offer itself
(`Backed`), and `UnderDecided`: it exists and another decided on it, whatever
happens to it meanwhile. `RejectionsFinal` has no premise about overlap: a row
that stops being rejected does so by a COMMIT whose thread had read another
status. For `Issuance`, that an assessment is confirmed rests on arithmetic: the
points of the bureau cannot be fewer than those of the band HIGH, so no score is
in VERY_HIGH without a CRITICAL flag, which the assessment excludes
(`AllConfirmed`). That an application has one account needs accounts to name
existing applications (`Orderly`). `ApplicationsLimited` counts, without a
premise about overlap: applications beyond the cap, and those in progress for
one card product, are paid for by submissions still open (`Crowd`, `Bounded`,
`Filed`). `ImplementsProducts` maps every step of `Issuance` to one of
`Products` or a stutter.

`MigrationsProofs`, for any operators, watched tables and targets: both
properties of the run `MigrationsSafety`, and what a database cannot come back
from. One COMMIT passes any number of revisions, so a fact about a run is proved
along the databases it passes (`Ascent`, `Descent`), each from the one before
it, and a first database at which it failed is impossible (`LeastNumber`).
`SoundScripts` says of each of the 31 pairs of scripts what the rest needs: it
makes and drops the tables that tell its version apart, it fails under certain
types, it leaves others behind. From there `SchemaIsOfVersion`; `RowsAreKept`;
that nothing reaches revision 31 (`LastIsOutOfReach`); that revisions 7, 18 and
23 cannot be undone (`SomeRevisionsAreFinal`); and that a database taken below a
revision that creates an enumerated type does not pass it again
(`TypesBarTheWayUp`).

Assumed are the named assumptions on the constants, which TLC evaluates.

Only theorems state `LockDiscipline`, `AvailableFollowsLimit`,
`LinkedIsNotReplaced`, `EnteredOnce`, `RejectedUnlessStale`, `ProductsKept`, the
bounds of `VelocityOverrunBounded`, `RaceIsBounded`, `BilledByRunning` and
`MinimumIsFair`, `AnswersTrue` of bills, `NeverAtLast`, `NoReturn` and
`StaysBelow` of migrations, and the type invariants of modules whose runs do not
name them.

Only model-checked are `EveryRequestAnswered` and `EveryCallAnswered`: liveness
under fairness is out of reach of the prover. Every other property of a passing
run is also a theorem. `VelocityCapped` fails.

## Not modelled

- Payments and fees: every valid request fails on a column the model does not
  have; the daily statement job fails on an import; neither changes state.
- Revisions 32 to 53: no database that the scripts build reaches them.
- Code no endpoint calls: `cif_service.py`, `review_kyc` (which also names a
  missing member of an enumeration), `submit_for_approval`, the review and the
  activation of cards in `issuance_svc.py`.
- Of account administration, the commands `billing_cycle` and `risk` write
  columns no modelled code reads. The PIN of a card is stored and never read.
- Endpoints that only read, audit rows and notifications.
- Formats, wording of responses, logging, encryption and hashing.

## Plan

Done: authorization with its ledger; batch jobs; billing; account
administration with its atomic specification; the lifecycle of cards; identity;
customer files; products and issuance; migrations. Left, in this order:

1. Cards composed with authorization: `LifecycleWrite` of `Authorization`
   replaced by the commands, for cards terminated while the other table has an
   outstanding balance.
2. `BackOffice`: clearing, settlement and billing composed over one table.
