------------------------------ MODULE Products -------------------------------
(***************************************************************************)
(* Governance of credit products and of the card products under them: made *)
(* by one administrator as a DRAFT, approved or rejected by another,       *)
(* suspended, deleted.  A call runs in the thread pool: it reads the rows  *)
(* and decides, and in its COMMIT updates the columns that differ from     *)
(* what it read.  Rows are not locked and carry no version.                *)
(***************************************************************************)
EXTENDS FiniteSets, Access

CONSTANTS
    Threads,         \* worker threads
    Admins,          \* administrators
    RoleOf,          \* RoleOf[admin]
    CreditProducts,  \* identifiers, each used once
    CardProducts,
    None

ASSUME ProductsAssumption ==
    /\ RoleOf \in [Admins -> Staff]
    /\ None \notin Admins \cup CreditProducts

VARIABLES
    creditProduct,   \* creditProduct[p]: row with its governance
    cardProduct,     \* cardProduct[c]
    referenced,      \* card products that applications, accounts or cards refer to
    request,         \* request[t]: what t has read and is about to commit
    approved         \* history: credit products that were ACTIVE at some time

productVars == <<creditProduct, cardProduct, referenced, request, approved>>

\* CLOSED is a status that no code sets.
ProductStatuses == {"DRAFT", "ACTIVE", "SUSPENDED", "REJECTED"}
NoRows == {"none", "deleted"}

CreditRow ==
    [status : ProductStatuses \cup NoRows, creator : Admins \cup {None},
     approver : Admins \cup {None}]
CardRow ==
    [status : ProductStatuses \cup NoRows, parent : CreditProducts \cup {None},
     creator : Admins \cup {None}, approver : Admins \cup {None}]

NoCredit(status) == [status |-> status, creator |-> None, approver |-> None]
NoCard(status) == [status |-> status, parent |-> None, creator |-> None, approver |-> None]

Exists(row) == row.status \notin NoRows

Decisions == {"approve", "reject", "suspend"}
Idle == [command |-> "none"]
Request ==
    {Idle}
    \cup [command : {"decide credit"}, product : CreditProducts, read : CreditRow, new : CreditRow]
    \cup [command : {"decide card"}, product : CardProducts, read : CardRow, new : CardRow]
    \cup [command : {"add card"}, product : CardProducts, parent : CreditProducts, by : Admins]
    \cup [command : {"delete credit"}, product : CreditProducts]
    \cup [command : {"delete card"}, product : CardProducts]

ProductsInit ==
    /\ creditProduct = [p \in CreditProducts |-> NoCredit("none")]
    /\ cardProduct = [c \in CardProducts |-> NoCard("none")]
    /\ referenced = {}
    /\ request = [t \in Threads |-> Idle]
    /\ approved = {}
------------------------------------------------------------------------------
(* What a call reads *)

Begin(t, new) ==
    /\ request[t] = Idle
    /\ request' = [request EXCEPT ![t] = new]
    /\ UNCHANGED <<creditProduct, cardProduct, referenced, approved>>

\* Mutation of CreditDecided: the checker need not be another.
CreditDecidedAlone(command, by, row) ==
    CASE command = "approve" -> {[row EXCEPT !.status = "ACTIVE", !.approver = by]}
      [] command = "reject"  -> {[row EXCEPT !.status = "REJECTED", !.approver = by]}
      [] command = "suspend" ->
           IF row.status = "ACTIVE" THEN {[row EXCEPT !.status = "SUSPENDED"]} ELSE {}

\* The row a decision makes of a credit product, if it is allowed:
\* approve_product and reject_product look at the creator only, whatever
\* the status.
CreditDecided(command, by, row) ==
    CASE command = "approve" ->
           IF row.creator # by THEN {[row EXCEPT !.status = "ACTIVE", !.approver = by]} ELSE {}
      [] command = "reject" ->
           IF row.creator # by THEN {[row EXCEPT !.status = "REJECTED", !.approver = by]} ELSE {}
      [] command = "suspend" ->
           IF row.status = "ACTIVE" THEN {[row EXCEPT !.status = "SUSPENDED"]} ELSE {}

\* Mutation of CardDecided: any parent will do.
CardDecidedAnyParent(command, by, row) ==
    CASE command = "approve" ->
           IF row.status = "DRAFT" /\ row.creator # by
           THEN {[row EXCEPT !.status = "ACTIVE", !.approver = by]} ELSE {}
      [] command = "reject" ->
           IF row.status = "DRAFT" THEN {[row EXCEPT !.status = "REJECTED"]} ELSE {}
      [] command = "suspend" ->
           IF row.status = "ACTIVE" THEN {[row EXCEPT !.status = "SUSPENDED"]} ELSE {}

\* The same for a card product: a DRAFT is approved by another than its
\* creator under an ACTIVE credit product, or rejected by anyone.  (An
\* ACTIVE one is returned to whoever approves it again.)
CardDecided(command, by, row) ==
    CASE command = "approve" ->
           IF /\ row.status = "DRAFT" /\ row.creator # by
              /\ creditProduct[row.parent].status = "ACTIVE"
           THEN {[row EXCEPT !.status = "ACTIVE", !.approver = by]} ELSE {}
      [] command = "reject" ->
           IF row.status = "DRAFT" THEN {[row EXCEPT !.status = "REJECTED"]} ELSE {}
      [] command = "suspend" ->
           IF row.status = "ACTIVE" THEN {[row EXCEPT !.status = "SUSPENDED"]} ELSE {}

DecideCredit(t, by, p, command) ==
    /\ May(RoleOf[by], "product_status")
    /\ Exists(creditProduct[p])
    /\ \E new \in CreditDecided(command, by, creditProduct[p]) :
          Begin(t, [command |-> "decide credit", product |-> p,
                    read |-> creditProduct[p], new |-> new])

DecideCard(t, by, c, command) ==
    /\ May(RoleOf[by], "product_status")
    /\ Exists(cardProduct[c])
    /\ \E new \in CardDecided(command, by, cardProduct[c]) :
          Begin(t, [command |-> "decide card", product |-> c,
                    read |-> cardProduct[c], new |-> new])

\* create_card_product looks for its credit product, of any status.
AddCard(t, by, c, p) ==
    /\ May(RoleOf[by], "product_create")
    /\ Exists(creditProduct[p])
    /\ cardProduct[c].status = "none"
    /\ \A u \in Threads : request[u].command = "add card" => request[u].product # c
    /\ Begin(t, [command |-> "add card", product |-> c, parent |-> p, by |-> by])

\* delete_product, delete_card_product: the customers with an account are
\* told before the COMMIT is tried.
DeleteCredit(t, by, p) ==
    /\ May(RoleOf[by], "product_delete")
    /\ Exists(creditProduct[p])
    /\ Begin(t, [command |-> "delete credit", product |-> p])

DeleteCard(t, by, c) ==
    /\ May(RoleOf[by], "product_delete")
    /\ Exists(cardProduct[c])
    /\ Begin(t, [command |-> "delete card", product |-> c])
------------------------------------------------------------------------------
(* What a call commits *)

Done(t) == request' = [request EXCEPT ![t] = Idle]

\* A credit product depends on nothing that is read: one INSERT.
CreateCredit(by, p) ==
    /\ May(RoleOf[by], "product_create")
    /\ creditProduct[p].status = "none"
    /\ creditProduct' = [creditProduct EXCEPT ![p] = [NoCredit("DRAFT") EXCEPT !.creator = by]]
    /\ UNCHANGED <<cardProduct, referenced, request, approved>>

\* UPDATE of the columns that changed; none if the row is gone (500).
Updated(row, read, new) ==
    IF Exists(row)
    THEN [column \in DOMAIN row |-> IF new[column] = read[column] THEN row[column] ELSE new[column]]
    ELSE row

CommitCreditDecision(t) ==
    /\ request[t].command = "decide credit"
    /\ creditProduct' = [creditProduct EXCEPT ![request[t].product] =
                            Updated(@, request[t].read, request[t].new)]
    /\ approved' = approved \cup {p \in {request[t].product} : creditProduct'[p].status = "ACTIVE"}
    /\ Done(t)
    /\ UNCHANGED <<cardProduct, referenced>>

CommitCardDecision(t) ==
    /\ request[t].command = "decide card"
    /\ cardProduct' = [cardProduct EXCEPT ![request[t].product] =
                          Updated(@, request[t].read, request[t].new)]
    /\ Done(t)
    /\ UNCHANGED <<creditProduct, referenced, approved>>

\* The foreign key fails when the credit product is gone.
CommitCard(t) ==
    /\ request[t].command = "add card"
    /\ cardProduct' =
          IF Exists(creditProduct[request[t].parent])
          THEN [cardProduct EXCEPT ![request[t].product] =
                   [status |-> "DRAFT", parent |-> request[t].parent,
                    creator |-> request[t].by, approver |-> None]]
          ELSE cardProduct
    /\ Done(t)
    /\ UNCHANGED <<creditProduct, referenced, approved>>

\* The rows that refer to a product have no cascade: the COMMIT fails.
CommitCreditDeletion(t) ==
    /\ request[t].command = "delete credit"
    /\ creditProduct' =
          IF \E c \in CardProducts : cardProduct[c].parent = request[t].product
          THEN creditProduct
          ELSE [creditProduct EXCEPT ![request[t].product] = NoCredit("deleted")]
    /\ Done(t)
    /\ UNCHANGED <<cardProduct, referenced, approved>>

\* Mutation of CommitCardDeletion: rows that refer to it do not matter.
CommitCardDeletionAnyway(t) ==
    /\ request[t].command = "delete card"
    /\ cardProduct' = [cardProduct EXCEPT ![request[t].product] = NoCard("deleted")]
    /\ Done(t)
    /\ UNCHANGED <<creditProduct, referenced, approved>>

CommitCardDeletion(t) ==
    /\ request[t].command = "delete card"
    /\ cardProduct' = IF request[t].product \in referenced THEN cardProduct
                      ELSE [cardProduct EXCEPT ![request[t].product] = NoCard("deleted")]
    /\ Done(t)
    /\ UNCHANGED <<creditProduct, referenced, approved>>

\* Another table refers to the card product: its foreign key was met.
Refer(c) ==
    /\ Exists(cardProduct[c])
    /\ referenced' = referenced \cup {c}
    /\ UNCHANGED <<creditProduct, cardProduct, request, approved>>

\* The process stops: what is not committed is rolled back.
Stop ==
    /\ request' = [t \in Threads |-> Idle]
    /\ UNCHANGED <<creditProduct, cardProduct, referenced, approved>>

Govern ==
    \/ \E by \in Admins, p \in CreditProducts : CreateCredit(by, p)
    \/ \E t \in Threads :
         \/ \E by \in Admins, p \in CreditProducts :
              \/ \E command \in Decisions : DecideCredit(t, by, p, command)
              \/ \E c \in CardProducts : AddCard(t, by, c, p)
              \/ DeleteCredit(t, by, p)
         \/ \E by \in Admins, c \in CardProducts :
              \/ \E command \in Decisions : DecideCard(t, by, c, command)
              \/ DeleteCard(t, by, c)
         \/ CommitCreditDecision(t)
         \/ CommitCardDecision(t)
         \/ CommitCard(t)
         \/ CommitCreditDeletion(t)
         \/ CommitCardDeletion(t)

\* Nothing is in flight; the products may stay as they are (no deadlock).
Settled ==
    /\ \A t \in Threads : request[t] = Idle
    /\ UNCHANGED productVars

ProductsNext ==
    \/ Govern
    \/ \E c \in CardProducts : Refer(c)
    \/ Stop
    \/ Settled

\* Governance, and what the tables that refer to a product do to it.
ProductsSpec == ProductsInit /\ [][ProductsNext]_productVars
------------------------------------------------------------------------------
(* Properties *)

\* Products and requests have the values of their columns.
ProductsTypeOK ==
    /\ creditProduct \in [CreditProducts -> CreditRow]
    /\ cardProduct \in [CardProducts -> CardRow]
    /\ referenced \subseteq CardProducts
    /\ request \in [Threads -> Request]
    /\ approved \subseteq CreditProducts

\* Whatever is or was on offer was approved by another administrator than
\* its creator, also when decisions race ("Maker-Checker violation").
FourEyes ==
    \A row \in {creditProduct[p] : p \in CreditProducts}
              \cup {cardProduct[c] : c \in CardProducts} :
       row.status \in {"ACTIVE", "SUSPENDED"} => row.approver \notin {None, row.creator}

\* A card product on offer stands under a credit product that exists, was on
\* offer itself, and was last decided on by another than its creator, although
\* it may be suspended, rejected or deleted while the card product is approved.
LaunchedUnderApproved ==
    \A c \in CardProducts :
       cardProduct[c].status \in {"ACTIVE", "SUSPENDED"} =>
          LET parent == creditProduct[cardProduct[c].parent]
          IN  /\ cardProduct[c].parent \in approved
              /\ Exists(parent) /\ parent.approver \notin {None, parent.creator}

\* c is rejected no more, by a decision that had read another status.
StaleRevival(c) ==
    \E t \in Threads :
       /\ request[t].command = "decide card" /\ request[t].product = c
       /\ request[t].read.status # "REJECTED"
       /\ request'[t] = Idle

Revived(c) ==
    cardProduct[c].status = "REJECTED" /\ cardProduct'[c].status \notin {"REJECTED", "deleted"}

\* A rejected card product comes back only with a decision in flight that had
\* read its row before the rejection.
RejectedUnlessStale ==
    [][\A c \in CardProducts : Revived(c) => StaleRevival(c)]_productVars

\* What applications, accounts and cards refer to exists, and so does its
\* credit product, whatever is being deleted meanwhile.
NoOrphans ==
    /\ \A c \in referenced : Exists(cardProduct[c])
    /\ \A c \in CardProducts :
          Exists(cardProduct[c]) => Exists(creditProduct[cardProduct[c].parent])
==============================================================================
