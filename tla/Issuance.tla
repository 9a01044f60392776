------------------------------ MODULE Issuance -------------------------------
(***************************************************************************)
(* The applications of one customer, whose file is complete, for the card  *)
(* products that Products governs, and the accounts made from them.  A     *)
(* submission runs in the thread pool: it checks, and inserts in a COMMIT  *)
(* of its own.  The endpoint that evaluates and configures is a coroutine  *)
(* whose only await is for a body that has arrived: each of its commands   *)
(* has the event loop for itself and is one step.                          *)
(***************************************************************************)
EXTENDS Integers, Sequences, Products, Scoring

CONSTANTS
    Submitters,   \* threads that submit
    Applicants,   \* what the customer may declare: age, income, ...
    Rules,        \* Rules[p]: minimum score and income of a credit product
    MaxVelocity,  \* applications above which fraud is suspected (3)
    MaxAccounts   \* accounts from which a customer gets no more (3)

ASSUME IssuanceAssumption ==
    /\ Applicants \subseteq [age : Nat, income : Nat, verified : Nat, employment : Employments]
    /\ Rules \in [CreditProducts -> [score : Int, income : Nat]]
    /\ {MaxVelocity, MaxAccounts} \subseteq Nat
    /\ IsFiniteSet(Submitters)

VARIABLES
    application,  \* rows of credit_card_application, with the assessment
    account,      \* rows of credit_account
    submission,   \* submission[s]: what s has found so far
    together      \* two submissions have been in flight at a time

issuanceVars == <<application, account, submission, together>>
vars == <<productVars, issuanceVars>>

\* The statuses that are ever stored.
ApplicationStatuses == {"SUBMITTED", "APPROVED", "REJECTED", "ACCOUNT_CREATED"}

Application ==
    [card : CardProducts, status : ApplicationStatuses, rules : {Rules[p] : p \in CreditProducts},
     income : Nat, score : Int, flags : SUBSET Severities]
Account == [application : Nat, card : CardProducts]

NoSubmission == [at |-> "none"]
Submission ==
    {NoSubmission}
    \cup [at : {"counted"}, card : CardProducts, parent : CreditProducts]
    \cup [at : {"assessed"}, row : Application]

Init ==
    /\ ProductsInit
    /\ application = <<>>
    /\ account = <<>>
    /\ submission = [s \in Submitters |-> NoSubmission]
    /\ together = FALSE
------------------------------------------------------------------------------
(* Submission *)

\* submit_application finds the products, of any status, and takes any card
\* product of the credit product; the customer may have another account.
Submit(s, c) ==
    /\ submission[s] = NoSubmission
    /\ Exists(cardProduct[c])
    /\ Exists(creditProduct[cardProduct[c].parent])
    /\ Len(account) < MaxAccounts
    /\ submission' = [submission EXCEPT ![s] =
                        [at |-> "counted", card |-> c, parent |-> cardProduct[c].parent]]
    /\ together' = (together \/ \E u \in Submitters : submission[u] # NoSubmission)
    /\ UNCHANGED <<productVars, application, account>>

InProgress(c) == {a \in DOMAIN application : application[a].card = c
                                             /\ application[a].status = "SUBMITTED"}
AccountsOf(c) == {n \in DOMAIN account : account[n].card = c}

\* What the engines make of an application with what the applicant declares.
Assessed(card, parent, applicant) ==
    [card   |-> card,
     status |-> "SUBMITTED",
     rules  |-> Rules[parent],
     income |-> applicant.income,
     score  |-> BureauScore(applicant.age, applicant.income, applicant.employment),
     flags  |-> FraudFlags(applicant.income, applicant.verified, Len(application), MaxVelocity)]

Answer(s) == submission' = [submission EXCEPT ![s] = NoSubmission]

\* Mutation of Assess: velocity does not matter.
AssessAnyVelocity(s, applicant) ==
    /\ submission[s].at = "counted"
    /\ LET row == Assessed(submission[s].card, submission[s].parent, applicant)
       IN IF /\ InProgress(row.card) = {} /\ AccountsOf(row.card) = {}
             /\ Eligible(row.score, row.income, {}, row.rules)
          THEN submission' = [submission EXCEPT ![s] = [at |-> "assessed", row |-> row]]
          ELSE Answer(s)
    /\ UNCHANGED <<productVars, application, account, together>>

\* No application in progress and no account for the card product, and the
\* assessment is favourable; otherwise the call is answered here, and
\* nothing is stored.
Assess(s, applicant) ==
    /\ submission[s].at = "counted"
    /\ LET row == Assessed(submission[s].card, submission[s].parent, applicant)
       IN IF /\ InProgress(row.card) = {} /\ AccountsOf(row.card) = {}
             /\ Eligible(row.score, row.income, row.flags, row.rules)
          THEN submission' = [submission EXCEPT ![s] = [at |-> "assessed", row |-> row]]
          ELSE Answer(s)
    /\ UNCHANGED <<productVars, application, account, together>>

\* Mutation of Store: the row is stored whether its card product is there
\* or not.
StoreUnreferenced(s) ==
    /\ submission[s].at = "assessed"
    /\ LET row == submission[s].row
       IN /\ application' = Append(application, row)
          /\ referenced' = referenced \cup {row.card}
          /\ UNCHANGED <<creditProduct, cardProduct, request, approved>>
    /\ Answer(s)
    /\ UNCHANGED <<account, together>>

\* COMMIT of the application with its report, flags and risk.  The foreign
\* key fails when the card product is gone.
Store(s) ==
    /\ submission[s].at = "assessed"
    /\ LET row == submission[s].row
       IN IF Exists(cardProduct[row.card])
          THEN application' = Append(application, row) /\ Refer(row.card)
          ELSE UNCHANGED <<application, productVars>>
    /\ Answer(s)
    /\ UNCHANGED <<account, together>>
------------------------------------------------------------------------------
(* Evaluation and configuration *)

IsManager(permission) == \E by \in Admins : May(RoleOf[by], permission)
SetStatus(a, status) == application' = [application EXCEPT ![a].status = status]

\* command=evaluate.  An application that is APPROVED or REJECTED stays as it
\* is; any other is decided from its stored assessment, also one that has
\* its account.
Evaluate(a) ==
    /\ IsManager("application_evaluate")
    /\ application[a].status \notin {"APPROVED", "REJECTED"}
    /\ LET row == application[a]
       IN SetStatus(a, Decision(row.score, row.income, row.flags, row.rules))
    /\ UNCHANGED <<productVars, account, submission, together>>

\* command=configure, Reject: whatever the status.
Reject(a) ==
    /\ IsManager("application_configure")
    /\ SetStatus(a, "REJECTED")
    /\ UNCHANGED <<productVars, account, submission, together>>

\* Mutation of Approve: no look for an account.
ApproveAgain(a) ==
    /\ IsManager("application_configure")
    /\ Len(account) < 3 * MaxAccounts
    /\ account' = Append(account, [application |-> a, card |-> application[a].card])
    /\ SetStatus(a, "ACCOUNT_CREATED")
    /\ UNCHANGED <<productVars, submission, together>>

\* command=configure, Approve: whatever the status.  An application has one
\* account; when it is there nothing is committed.
Approve(a) ==
    /\ IsManager("application_configure")
    /\ \A n \in DOMAIN account : account[n].application # a
    /\ account' = Append(account, [application |-> a, card |-> application[a].card])
    /\ SetStatus(a, "ACCOUNT_CREATED")
    /\ UNCHANGED <<productVars, submission, together>>

\* issue_card_manual: a card of any card product of the account's credit
\* product (CardLifecycle has the cards).
IssueCard(n, c) ==
    /\ Exists(cardProduct[c])
    /\ cardProduct[c].parent = cardProduct[account[n].card].parent
    /\ Refer(c)
    /\ UNCHANGED issuanceVars

\* The process stops: what is not committed is rolled back.
Restart ==
    /\ Stop
    /\ submission' = [s \in Submitters |-> NoSubmission]
    /\ UNCHANGED <<application, account, together>>

\* Nothing is in flight; the customer may stop here (no deadlock).
Finished ==
    /\ \A t \in Threads : request[t] = Idle
    /\ \A s \in Submitters : submission[s] = NoSubmission
    /\ UNCHANGED vars

Next ==
    \/ Govern /\ UNCHANGED issuanceVars
    \/ \E s \in Submitters :
         \/ \E c \in CardProducts : Submit(s, c)
         \/ \E applicant \in Applicants : Assess(s, applicant)
         \/ Store(s)
    \/ \E a \in DOMAIN application : Evaluate(a) \/ Reject(a) \/ Approve(a)
    \/ \E n \in DOMAIN account, c \in CardProducts : IssueCard(n, c)
    \/ Restart
    \/ Finished

Spec == Init /\ [][Next]_vars
------------------------------------------------------------------------------
(* Properties *)

\* Products, applications, accounts and submissions have the values of their
\* columns.
TypeOK ==
    /\ ProductsTypeOK
    /\ application \in Seq(Application)
    /\ account \in Seq(Account)
    /\ submission \in [Submitters -> Submission]
    /\ together \in BOOLEAN

\* An application that was stored is one that evaluate approves: what was
\* found before it was stored is never overruled by the same rules later.
EvaluationConfirms ==
    \A a \in DOMAIN application :
       LET row == application[a]
       IN Decision(row.score, row.income, row.flags, row.rules) = "APPROVED"

\* An application has one account at most, however often it is evaluated,
\* rejected and approved, and ACCOUNT_CREATED says that there is one.
OneAccountEach ==
    \A a \in DOMAIN application :
       LET accounts == {n \in DOMAIN account : account[n].application = a}
       IN /\ Cardinality(accounts) <= 1
          /\ application[a].status = "ACCOUNT_CREATED" => accounts # {}

\* The product of an application or an account is never deleted, neither
\* before its COMMIT nor afterwards.
ProductsKept ==
    /\ \A a \in DOMAIN application : Exists(cardProduct[application[a].card])
    /\ \A n \in DOMAIN account : Exists(cardProduct[account[n].card])

\* The checks of the velocity and of an application in progress ("You have
\* an existing application in progress") bound the applications of a customer
\* for good, although nothing relates them to the insert: submissions exceed
\* them by what was in flight at a time.
ApplicationsBounded ==
    LET crowd == IF together THEN Cardinality(Submitters) ELSE 1
    IN  /\ Len(application) <= MaxVelocity + crowd
        /\ \A c \in CardProducts : Cardinality(InProgress(c)) <= crowd
==============================================================================
