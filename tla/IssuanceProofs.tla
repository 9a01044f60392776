--------------------------- MODULE IssuanceProofs ----------------------------
(***************************************************************************)
(* Governance of products and issuance of accounts, for any number of      *)
(* products, administrators, threads and applications, and for any rules   *)
(* and applicants.  The theorems about products are of ProductsSpec; that  *)
(* issuance implements it makes them theorems about the whole.             *)
(***************************************************************************)
EXTENDS Issuance, FiniteSetTheorems, SequenceTheorems, TLAPS

Launched == {"ACTIVE", "SUSPENDED"}

\* A row has a creator, who is not its approver; on offer, it has an approver.
Governed(row) ==
    Exists(row) =>
       /\ row.creator \in Admins
       /\ row.approver # row.creator
       /\ row.status \in Launched => row.approver # None

AllGoverned ==
    /\ \A p \in CreditProducts : Governed(creditProduct[p])
    /\ \A c \in CardProducts :
          /\ Governed(cardProduct[c])
          /\ Exists(cardProduct[c]) => cardProduct[c].parent \in CreditProducts
          /\ ~Exists(cardProduct[c]) => cardProduct[c].parent = None

\* A decision on a row: what it writes is what was read but for status and
\* approver; and while the row exists, it has its creator, and an approver if
\* one was read.
Sound(row, read, new) ==
    /\ Exists(read) /\ Exists(new)
    /\ Governed(new)
    /\ new.creator = read.creator
    /\ new.approver = None => read.approver = None
    /\ row.status # "none"
    /\ Exists(row) => /\ row.creator = read.creator
                      /\ read.approver # None => row.approver # None

Decided ==
    \A t \in Threads :
       /\ request[t].command = "decide credit" =>
             Sound(creditProduct[request[t].product], request[t].read, request[t].new)
       /\ request[t].command = "decide card" =>
             /\ Sound(cardProduct[request[t].product], request[t].read, request[t].new)
             /\ request[t].read.status \in {"DRAFT", "ACTIVE"}
             /\ request[t].new.parent = request[t].read.parent
             /\ /\ Exists(cardProduct[request[t].product])
                /\ request[t].new.status \in Launched
                => creditProduct[cardProduct[request[t].product].parent].approver # None

\* The identifier of a card product that is being added is new.
Added ==
    \A t \in Threads :
       request[t].command = "add card" =>
          /\ cardProduct[request[t].product].status = "none"
          /\ \A u \in Threads \ {t} :
                request[u].command = "add card" => request[u].product # request[t].product

\* What is being deleted was added.
Deleting ==
    \A t \in Threads :
       request[t].command = "delete card" => cardProduct[request[t].product].status # "none"

\* A card product on offer is of a credit product that exists and that another
\* than its creator has decided on.
UnderDecided ==
    \A c \in CardProducts :
       cardProduct[c].status \in {"ACTIVE", "SUSPENDED"} =>
          LET parent == creditProduct[cardProduct[c].parent]
          IN  Exists(parent) /\ parent.approver \notin {None, parent.creator}

PInv == ProductsTypeOK /\ AllGoverned /\ Decided /\ Added /\ Deleting
                       /\ UnderDecided /\ NoOrphans

\* An UPDATE, column by column.
Column(row, read, new) == IF new = read THEN row ELSE new

LEMMA UpdatedCredit ==
    ASSUME NEW row \in CreditRow, NEW read \in CreditRow, NEW new \in CreditRow, Exists(row)
    PROVE  LET result == Updated(row, read, new)
           IN  /\ result \in CreditRow
               /\ result.status = Column(row.status, read.status, new.status)
               /\ result.creator = Column(row.creator, read.creator, new.creator)
               /\ result.approver = Column(row.approver, read.approver, new.approver)
<1>1. DOMAIN row = {"status", "creator", "approver"}
  BY DEF CreditRow
<1>2. Updated(row, read, new) =
        [column \in {"status", "creator", "approver"} |->
            IF new[column] = read[column] THEN row[column] ELSE new[column]]
  BY <1>1 DEF Updated
<1>3. Updated(row, read, new) =
        [status |-> Column(row.status, read.status, new.status),
         creator |-> Column(row.creator, read.creator, new.creator),
         approver |-> Column(row.approver, read.approver, new.approver)]
  BY <1>2 DEF Column
<1>4. QED
  BY <1>3 DEF CreditRow, Column

LEMMA UpdatedCard ==
    ASSUME NEW row \in CardRow, NEW read \in CardRow, NEW new \in CardRow, Exists(row)
    PROVE  LET result == Updated(row, read, new)
           IN  /\ result \in CardRow
               /\ result.status = Column(row.status, read.status, new.status)
               /\ result.parent = Column(row.parent, read.parent, new.parent)
               /\ result.creator = Column(row.creator, read.creator, new.creator)
               /\ result.approver = Column(row.approver, read.approver, new.approver)
<1>1. DOMAIN row = {"status", "parent", "creator", "approver"}
  BY DEF CardRow
<1>2. Updated(row, read, new) =
        [column \in {"status", "parent", "creator", "approver"} |->
            IF new[column] = read[column] THEN row[column] ELSE new[column]]
  BY <1>1 DEF Updated
<1>3. Updated(row, read, new) =
        [status |-> Column(row.status, read.status, new.status),
         parent |-> Column(row.parent, read.parent, new.parent),
         creator |-> Column(row.creator, read.creator, new.creator),
         approver |-> Column(row.approver, read.approver, new.approver)]
  BY <1>2 DEF Column
<1>4. QED
  BY <1>3 DEF CardRow, Column

\* What a sound decision writes is governed, and keeps what others rely on.
LEMMA UpdateGoverned ==
    ASSUME NEW row, NEW read, NEW new, NEW result,
           Governed(row), Exists(row), Sound(row, read, new),
           result.status = Column(row.status, read.status, new.status),
           result.creator = Column(row.creator, read.creator, new.creator),
           result.approver = Column(row.approver, read.approver, new.approver)
    PROVE  /\ Governed(result) /\ Exists(result)
           /\ result.creator = row.creator
           /\ row.approver # None => result.approver # None
           /\ result.status \in {row.status, new.status}
  BY DEF Governed, Exists, Sound, Column, Launched, NoRows
------------------------------------------------------------------------------
(* What a governance call finds *)

CreditCalls(t) ==
    \E by \in Admins, p \in CreditProducts :
       (\E command \in Decisions : DecideCredit(t, by, p, command)) \/ DeleteCredit(t, by, p)

CardCalls(t) ==
    \E by \in Admins, c \in CardProducts :
       \/ \E command \in Decisions : DecideCard(t, by, c, command)
       \/ \E p \in CreditProducts : AddCard(t, by, c, p)
       \/ DeleteCard(t, by, c)

GovernCommits(t) ==
    CommitCreditDecision(t) \/ CommitCardDecision(t) \/ CommitCard(t)
    \/ CommitCreditDeletion(t) \/ CommitCardDeletion(t)

LEMMA GovernSteps ==
    ASSUME ProductsNext
    PROVE  \/ \E by \in Admins, p \in CreditProducts : CreateCredit(by, p)
           \/ \E t \in Threads : CreditCalls(t) \/ CardCalls(t) \/ GovernCommits(t)
           \/ \E c \in CardProducts : Refer(c)
           \/ Stop
           \/ Settled
  BY DEF ProductsNext, Govern, CreditCalls, CardCalls, GovernCommits

LEMMA CreditDecisions ==
    ASSUME NEW row \in CreditRow, Exists(row), Governed(row), NEW by \in Admins,
           NEW command \in Decisions, NEW new \in CreditDecided(command, by, row)
    PROVE  new \in CreditRow /\ Sound(row, row, new)
<1> USE DEF Exists, Governed, Launched, NoRows, ProductStatuses, Sound
<1>1. CASE command = "approve"
  <2>1. row.creator # by /\ new = [row EXCEPT !.status = "ACTIVE", !.approver = by]
    BY <1>1 DEF CreditDecided
  <2>2. QED
    BY <2>1, ProductsAssumption DEF CreditRow
<1>2. CASE command = "reject"
  <2>1. row.creator # by /\ new = [row EXCEPT !.status = "REJECTED", !.approver = by]
    BY <1>2 DEF CreditDecided
  <2>2. QED
    BY <2>1, ProductsAssumption DEF CreditRow
<1>3. CASE command = "suspend"
  <2>1. row.status = "ACTIVE" /\ new = [row EXCEPT !.status = "SUSPENDED"]
    BY <1>3 DEF CreditDecided
  <2>2. QED
    BY <2>1, ProductsAssumption DEF CreditRow
<1>4. QED
  BY <1>1, <1>2, <1>3 DEF Decisions

LEMMA CardDecisions ==
    ASSUME AllGoverned, UnderDecided,
           NEW c \in CardProducts, cardProduct[c] \in CardRow, Exists(cardProduct[c]),
           NEW by \in Admins, NEW command \in Decisions,
           NEW new \in CardDecided(command, by, cardProduct[c])
    PROVE  /\ new \in CardRow /\ Sound(cardProduct[c], cardProduct[c], new)
           /\ cardProduct[c].status \in {"DRAFT", "ACTIVE"}
           /\ new.parent = cardProduct[c].parent
           /\ new.status \in Launched =>
                 creditProduct[cardProduct[c].parent].approver # None
<1> DEFINE row == cardProduct[c]
<1>1. Governed(row) /\ row.parent \in CreditProducts
  BY DEF AllGoverned
<1> HIDE DEF row
<1> USE DEF Exists, Governed, Launched, NoRows, ProductStatuses, Sound
<1>2. CASE command = "approve"
  <2>1. /\ row.status = "DRAFT" /\ row.creator # by
        /\ creditProduct[row.parent].status = "ACTIVE"
        /\ new = [row EXCEPT !.status = "ACTIVE", !.approver = by]
    BY <1>2 DEF CardDecided, row
  <2>2. creditProduct[row.parent].approver # None
    BY <1>1, <2>1 DEF AllGoverned
  <2>3. QED
    BY <1>1, <2>1, <2>2, ProductsAssumption DEF CardRow, row
<1>3. CASE command = "reject"
  <2>1. row.status = "DRAFT" /\ new = [row EXCEPT !.status = "REJECTED"]
    BY <1>3 DEF CardDecided, row
  <2>2. QED
    BY <1>1, <2>1, ProductsAssumption DEF CardRow, row
<1>4. CASE command = "suspend"
  <2>1. row.status = "ACTIVE" /\ new = [row EXCEPT !.status = "SUSPENDED"]
    BY <1>4 DEF CardDecided, row
  <2>2. creditProduct[row.parent].approver # None
    BY <2>1 DEF UnderDecided, row
  <2>3. QED
    BY <1>1, <2>1, <2>2, ProductsAssumption DEF CardRow, row
<1>5. QED
  BY <1>2, <1>3, <1>4 DEF Decisions

\* What is new in the invariant for a call that begins.
Found(new) ==
    /\ new \in Request \ {Idle}
    /\ new.command = "decide credit" => Sound(creditProduct[new.product], new.read, new.new)
    /\ new.command = "decide card" =>
          /\ Sound(cardProduct[new.product], new.read, new.new)
          /\ new.read.status \in {"DRAFT", "ACTIVE"}
          /\ new.new.parent = new.read.parent
          /\ new.new.status \in Launched =>
                creditProduct[cardProduct[new.product].parent].approver # None
          /\ new.read = cardProduct[new.product]
    /\ new.command = "add card" =>
          /\ cardProduct[new.product].status = "none"
          /\ \A u \in Threads :
                request[u].command = "add card" => request[u].product # new.product
    /\ new.command = "delete card" => cardProduct[new.product].status # "none"

LEMMA CallsFind ==
    ASSUME PInv, NEW t \in Threads, CreditCalls(t) \/ CardCalls(t)
    PROVE  \E new : Found(new) /\ Begin(t, new)
<1> USE DEF PInv, ProductsTypeOK
<1>1. ASSUME NEW by \in Admins, NEW p \in CreditProducts, NEW command \in Decisions,
             DecideCredit(t, by, p, command)
      PROVE  \E new : Found(new) /\ Begin(t, new)
  <2>1. PICK new \in CreditDecided(command, by, creditProduct[p]) :
           Begin(t, [command |-> "decide credit", product |-> p,
                     read |-> creditProduct[p], new |-> new])
    BY <1>1 DEF DecideCredit
  <2>2. new \in CreditRow /\ Sound(creditProduct[p], creditProduct[p], new)
    BY <1>1, CreditDecisions DEF DecideCredit, AllGoverned
  <2>3. Found([command |-> "decide credit", product |-> p,
               read |-> creditProduct[p], new |-> new])
    BY <2>2 DEF Found, Request, Idle
  <2>4. QED
    BY <2>1, <2>3
<1>2. ASSUME NEW by \in Admins, NEW p \in CreditProducts, DeleteCredit(t, by, p)
      PROVE  \E new : Found(new) /\ Begin(t, new)
  <2>1. Found([command |-> "delete credit", product |-> p])
    BY DEF Found, Request, Idle
  <2>2. QED
    BY <1>2, <2>1 DEF DeleteCredit
<1>3. ASSUME NEW by \in Admins, NEW c \in CardProducts, NEW command \in Decisions,
             DecideCard(t, by, c, command)
      PROVE  \E new : Found(new) /\ Begin(t, new)
  <2>1. PICK new \in CardDecided(command, by, cardProduct[c]) :
           Begin(t, [command |-> "decide card", product |-> c,
                     read |-> cardProduct[c], new |-> new])
    BY <1>3 DEF DecideCard
  <2>2. Exists(cardProduct[c])
    BY <1>3 DEF DecideCard
  <2>3. /\ new \in CardRow /\ Sound(cardProduct[c], cardProduct[c], new)
        /\ cardProduct[c].status \in {"DRAFT", "ACTIVE"}
        /\ new.parent = cardProduct[c].parent
        /\ new.status \in Launched =>
              creditProduct[cardProduct[c].parent].approver # None
    BY <2>1, <2>2, CardDecisions
  <2>4. Found([command |-> "decide card", product |-> c,
               read |-> cardProduct[c], new |-> new])
    BY <2>3 DEF Found, Request, Idle
  <2>5. QED
    BY <2>1, <2>4
<1>4. ASSUME NEW by \in Admins, NEW c \in CardProducts, NEW p \in CreditProducts,
             AddCard(t, by, c, p)
      PROVE  \E new : Found(new) /\ Begin(t, new)
  <2>1. Found([command |-> "add card", product |-> c, parent |-> p, by |-> by])
    BY <1>4 DEF AddCard, Found, Request, Idle
  <2>2. QED
    BY <1>4, <2>1 DEF AddCard
<1>5. ASSUME NEW by \in Admins, NEW c \in CardProducts, DeleteCard(t, by, c)
      PROVE  \E new : Found(new) /\ Begin(t, new)
  <2>1. Found([command |-> "delete card", product |-> c])
    BY <1>5 DEF DeleteCard, Exists, NoRows, Found, Request, Idle
  <2>2. QED
    BY <1>5, <2>1 DEF DeleteCard
<1>6. QED
  BY <1>1, <1>2, <1>3, <1>4, <1>5 DEF CreditCalls, CardCalls

LEMMA CallsKeep ==
    ASSUME PInv, NEW t \in Threads, CreditCalls(t) \/ CardCalls(t)
    PROVE  PInv'
<1>1. PICK new : Found(new) /\ Begin(t, new)
  BY CallsFind
<1>2. /\ request[t] = Idle /\ request' = [request EXCEPT ![t] = new]
      /\ UNCHANGED <<creditProduct, cardProduct, referenced, approved>>
      /\ new \in Request /\ new # Idle
  BY <1>1 DEF Begin, Found
<1>3. request'[t] = new /\ \A u \in Threads \ {t} : request'[u] = request[u]
  BY <1>2 DEF PInv, ProductsTypeOK
<1>4. ProductsTypeOK'
  BY <1>2 DEF PInv, ProductsTypeOK
<1>5. AllGoverned' /\ UnderDecided' /\ NoOrphans'
  BY <1>2 DEF PInv, AllGoverned, Governed, Exists, UnderDecided, NoOrphans
<1>6. Decided'
  <2> SUFFICES ASSUME NEW u \in Threads
               PROVE  /\ request'[u].command = "decide credit" =>
                            Sound(creditProduct[request'[u].product], request'[u].read,
                                  request'[u].new)
                      /\ request'[u].command = "decide card" =>
                            /\ Sound(cardProduct[request'[u].product], request'[u].read,
                                     request'[u].new)
                            /\ request'[u].read.status \in {"DRAFT", "ACTIVE"}
                            /\ request'[u].new.parent = request'[u].read.parent
                            /\ /\ Exists(cardProduct[request'[u].product])
                               /\ request'[u].new.status \in Launched
                               => creditProduct[cardProduct[request'[u].product].parent].approver
                                     # None
    BY <1>2 DEF Decided, Sound, Governed, Exists
  <2>1. CASE u = t
    BY <2>1, <1>1, <1>3 DEF Found
  <2>2. CASE u # t
    BY <2>2, <1>3 DEF PInv, Decided
  <2>3. QED
    BY <2>1, <2>2
<1>7. Added'
  <2>1. ASSUME NEW u \in Threads, request'[u].command = "add card"
        PROVE  cardProduct[request'[u].product].status = "none"
    BY <2>1, <1>1, <1>3 DEF PInv, Added, Found
  <2>2. ASSUME NEW u \in Threads, request'[u].command = "add card",
               NEW v \in Threads \ {u}, request'[v].command = "add card"
        PROVE  request'[v].product # request'[u].product
    <3>1. CASE u = t
      BY <2>2, <3>1, <1>1, <1>3 DEF Found
    <3>2. CASE v = t
      BY <2>2, <3>2, <1>1, <1>3 DEF Found
    <3>3. CASE u # t /\ v # t
      BY <2>2, <3>3, <1>3 DEF PInv, Added
    <3>4. QED
      BY <3>1, <3>2, <3>3
  <2>3. QED
    BY <2>1, <2>2, <1>2 DEF Added
<1>8. Deleting'
  <2>1. ASSUME NEW u \in Threads, request'[u].command = "delete card"
        PROVE  cardProduct[request'[u].product].status # "none"
    BY <2>1, <1>1, <1>3 DEF PInv, Deleting, Found
  <2>2. QED
    BY <2>1, <1>2 DEF Deleting
<1>9. QED
  BY <1>4, <1>5, <1>6, <1>7, <1>8 DEF PInv
------------------------------------------------------------------------------
(* What a governance call commits *)

LEMMA Busy ==
    ASSUME NEW r, r.command # "none"
    PROVE  r # Idle
  BY DEF Idle

LEMMA GovernAnswered ==
    ASSUME ProductsTypeOK, NEW t \in Threads, Done(t)
    PROVE  /\ request'[t] = Idle /\ request'[t].command = "none"
           /\ \A u \in Threads \ {t} : request'[u] = request[u]
           /\ request' \in [Threads -> Request]
  BY DEF Done, ProductsTypeOK, Request, Idle

LEMMA Fields ==
    ASSUME ProductsTypeOK, NEW t \in Threads
    PROVE  /\ request[t].command \in {"decide credit", "delete credit"} =>
                 request[t].product \in CreditProducts
           /\ request[t].command \in {"decide card", "add card", "delete card"} =>
                 request[t].product \in CardProducts
           /\ request[t].command = "add card" =>
                 request[t].parent \in CreditProducts /\ request[t].by \in Admins
           /\ request[t].command = "decide credit" =>
                 request[t].read \in CreditRow /\ request[t].new \in CreditRow
           /\ request[t].command = "decide card" =>
                 request[t].read \in CardRow /\ request[t].new \in CardRow
<1>1. request[t] \in Request
  BY DEF ProductsTypeOK
<1>2. CASE request[t] = Idle
  BY <1>2 DEF Idle
<1>3. CASE request[t] \in [command : {"decide credit"}, product : CreditProducts,
                           read : CreditRow, new : CreditRow]
  BY <1>3
<1>4. CASE request[t] \in [command : {"decide card"}, product : CardProducts,
                           read : CardRow, new : CardRow]
  BY <1>4
<1>5. CASE request[t] \in [command : {"add card"}, product : CardProducts,
                           parent : CreditProducts, by : Admins]
  BY <1>5
<1>6. CASE \/ request[t] \in [command : {"delete credit"}, product : CreditProducts]
           \/ request[t] \in [command : {"delete card"}, product : CardProducts]
  BY <1>6
<1>7. QED
  BY <1>1, <1>2, <1>3, <1>4, <1>5, <1>6 DEF Request

\* What other requests rely on, in a credit product and in a card product.
KeepsCredit(p) ==
    /\ creditProduct[p].status # "none" => creditProduct'[p].status # "none"
    /\ Exists(creditProduct'[p]) /\ creditProduct[p].status # "none" =>
          /\ Exists(creditProduct[p])
          /\ creditProduct'[p].creator = creditProduct[p].creator
          /\ creditProduct[p].approver # None => creditProduct'[p].approver # None
KeepsCard(t, c) ==
    /\ cardProduct[c].status # "none" => cardProduct'[c].status # "none"
    /\ Exists(cardProduct'[c]) /\ cardProduct[c].status # "none" =>
          /\ Exists(cardProduct[c])
          /\ cardProduct'[c].creator = cardProduct[c].creator
          /\ cardProduct'[c].parent = cardProduct[c].parent
          /\ cardProduct[c].approver # None => cardProduct'[c].approver # None
          /\ Exists(creditProduct'[cardProduct[c].parent])
          /\ creditProduct[cardProduct[c].parent].status # "none"
    /\ \/ cardProduct'[c].status = cardProduct[c].status
       \/ cardProduct[c].status # "none"
       \/ request[t].command = "add card" /\ request[t].product = c

\* The requests of the others, when rows keep what they rely on.
LEMMA OthersKept ==
    ASSUME ProductsTypeOK, AllGoverned, Decided, Added, Deleting, NEW t \in Threads, Done(t),
           \A p \in CreditProducts : KeepsCredit(p),
           \A c \in CardProducts : KeepsCard(t, c)
    PROVE  Decided' /\ Added' /\ Deleting'
<1> USE DEF KeepsCredit, KeepsCard
<1>0. /\ request'[t].command = "none"
      /\ \A u \in Threads \ {t} : request'[u] = request[u]
  BY GovernAnswered
<1>2. ASSUME NEW u \in Threads \ {t}, request[u].command = "decide credit"
      PROVE  Sound(creditProduct'[request[u].product], request[u].read, request[u].new)
  <2>1. request[u].product \in CreditProducts
    BY <1>2, Fields
  <2>2. QED
    BY <1>2, <2>1 DEF Decided, Sound
<1>3. ASSUME NEW u \in Threads \ {t}, request[u].command = "decide card"
      PROVE  /\ Sound(cardProduct'[request[u].product], request[u].read, request[u].new)
             /\ request[u].read.status \in {"DRAFT", "ACTIVE"}
             /\ request[u].new.parent = request[u].read.parent
             /\ /\ Exists(cardProduct'[request[u].product])
                /\ request[u].new.status \in Launched
                => creditProduct'[cardProduct'[request[u].product].parent].approver # None
  <2>1. request[u].product \in CardProducts
    BY <1>3, Fields
  <2>2. Sound(cardProduct'[request[u].product], request[u].read, request[u].new)
    BY <1>3, <2>1 DEF Decided, Sound
  <2>3. Exists(cardProduct[request[u].product]) =>
           cardProduct[request[u].product].parent \in CreditProducts
    BY <2>1 DEF AllGoverned
  <2>4. cardProduct[request[u].product].status # "none"
    BY <1>3 DEF Decided, Sound
  <2>5. ASSUME Exists(cardProduct'[request[u].product]), request[u].new.status \in Launched
        PROVE  creditProduct'[cardProduct'[request[u].product].parent].approver # None
    <3>1. /\ Exists(cardProduct[request[u].product])
          /\ cardProduct'[request[u].product].parent = cardProduct[request[u].product].parent
          /\ Exists(creditProduct'[cardProduct[request[u].product].parent])
          /\ creditProduct[cardProduct[request[u].product].parent].status # "none"
      BY <2>1, <2>4, <2>5
    <3>2. creditProduct[cardProduct[request[u].product].parent].approver # None
      BY <1>3, <2>5, <3>1 DEF Decided
    <3>3. \A p \in CreditProducts :
             /\ Exists(creditProduct'[p]) /\ creditProduct[p].status # "none"
             /\ creditProduct[p].approver # None
             => creditProduct'[p].approver # None
      OBVIOUS
    <3>4. cardProduct[request[u].product].parent \in CreditProducts
      BY <2>3, <3>1
    <3>5. creditProduct'[cardProduct[request[u].product].parent].approver # None
      BY <3>1, <3>2, <3>3, <3>4
    <3>6. QED
      BY <3>1, <3>5
  <2>6. QED
    BY <1>3, <2>2, <2>5 DEF Decided
<1>4. Decided'
  <2> SUFFICES ASSUME NEW u \in Threads
               PROVE  /\ request'[u].command = "decide credit" =>
                            Sound(creditProduct'[request'[u].product], request'[u].read,
                                  request'[u].new)
                      /\ request'[u].command = "decide card" =>
                            /\ Sound(cardProduct'[request'[u].product], request'[u].read,
                                     request'[u].new)
                            /\ request'[u].read.status \in {"DRAFT", "ACTIVE"}
                            /\ request'[u].new.parent = request'[u].read.parent
                            /\ /\ Exists(cardProduct'[request'[u].product])
                               /\ request'[u].new.status \in Launched
                               => creditProduct'[cardProduct'[request'[u].product].parent].approver
                                     # None
    BY DEF Decided, Sound, Governed, Exists
  <2>1. CASE u = t
    BY <2>1, <1>0
  <2>2. CASE u # t
    <3>1. request'[u] = request[u]
      BY <2>2, <1>0
    <3>2. CASE request[u].command = "decide credit"
      BY <2>2, <3>1, <3>2, <1>2
    <3>3. CASE request[u].command = "decide card"
      BY <2>2, <3>1, <3>3, <1>3
    <3>4. QED
      BY <3>1, <3>2, <3>3
  <2>3. QED
    BY <2>1, <2>2
<1>5. Added'
  <2>1. ASSUME NEW u \in Threads \ {t}, request[u].command = "add card"
        PROVE  /\ cardProduct'[request[u].product].status = "none"
               /\ \A v \in Threads \ {u, t} :
                     request[v].command = "add card" => request[v].product # request[u].product
    <3>1. request[u].product \in CardProducts
      BY <2>1, Fields
    <3>2. cardProduct[request[u].product].status = "none"
      BY <2>1 DEF Added
    <3>3. request[t].command = "add card" => request[t].product # request[u].product
      BY <2>1 DEF Added
    <3>4. QED
      BY <2>1, <3>1, <3>2, <3>3 DEF Added
  <2>2. ASSUME NEW u \in Threads, request'[u].command = "add card"
        PROVE  u # t /\ request'[u] = request[u]
    BY <2>2, <1>0
  <2>3. ASSUME NEW u \in Threads, request'[u].command = "add card"
        PROVE  /\ cardProduct'[request'[u].product].status = "none"
               /\ \A v \in Threads \ {u} :
                     request'[v].command = "add card" => request'[v].product # request'[u].product
    <3>1. u # t /\ request'[u] = request[u] /\ request[u].command = "add card"
      BY <2>2, <2>3
    <3>2. ASSUME NEW v \in Threads \ {u}, request'[v].command = "add card"
          PROVE  v # t /\ request'[v] = request[v] /\ request[v].command = "add card"
      BY <2>2, <3>2
    <3>3. cardProduct'[request'[u].product].status = "none"
      BY <2>1, <3>1
    <3>4. ASSUME NEW v \in Threads \ {u}, request'[v].command = "add card"
          PROVE  request'[v].product # request'[u].product
      <4>1. v \in Threads \ {u, t} /\ request'[v] = request[v] /\ request[v].command = "add card"
        BY <3>2, <3>4
      <4>2. \A w \in Threads \ {u, t} :
               request[w].command = "add card" => request[w].product # request[u].product
        BY <2>1, <3>1
      <4>3. QED
        BY <3>1, <4>1, <4>2
    <3>5. QED
      BY <3>3, <3>4
  <2>4. QED
    BY <2>3 DEF Added
<1>6. Deleting'
  <2> SUFFICES ASSUME NEW u \in Threads, request'[u].command = "delete card"
               PROVE  cardProduct'[request'[u].product].status # "none"
    BY DEF Deleting
  <2>1. u # t /\ request'[u] = request[u]
    BY <1>0
  <2>2. request[u].product \in CardProducts
    BY <2>1, Fields
  <2>3. QED
    BY <2>1, <2>2 DEF Deleting
<1>7. QED
  BY <1>4, <1>5, <1>6

LEMMA CreditDecisionKeeps ==
    ASSUME PInv, NEW t \in Threads, CommitCreditDecision(t)
    PROVE  PInv'
<1> DEFINE p == request[t].product
           row == creditProduct[p]
           result == creditProduct'[p]
<1> USE DEF PInv
<1>1. /\ request[t].command = "decide credit" /\ Done(t)
      /\ UNCHANGED <<cardProduct, referenced>>
      /\ creditProduct' =
            [creditProduct EXCEPT ![p] = Updated(row, request[t].read, request[t].new)]
      /\ approved' = approved \cup {q \in {p} : creditProduct'[q].status = "ACTIVE"}
  BY DEF CommitCreditDecision
<1>2. p \in CreditProducts /\ request[t].read \in CreditRow /\ request[t].new \in CreditRow
      /\ row \in CreditRow /\ request[t] # Idle
  <2>1. p \in CreditProducts /\ request[t].read \in CreditRow /\ request[t].new \in CreditRow
    BY <1>1, Fields
  <2>2. row \in CreditRow
    BY <2>1 DEF ProductsTypeOK
  <2>3. request[t] # Idle
    BY <1>1, Busy
  <2>4. QED
    BY <2>1, <2>2, <2>3
<1>3. /\ result = Updated(row, request[t].read, request[t].new)
      /\ \A q \in CreditProducts \ {p} : creditProduct'[q] = creditProduct[q]
  BY <1>1, <1>2 DEF ProductsTypeOK
<1>4. Sound(row, request[t].read, request[t].new) /\ Governed(row)
  BY <1>1, <1>2 DEF Decided, AllGoverned
<1>5. approved' \subseteq CreditProducts
  BY <1>1, <1>2 DEF ProductsTypeOK
<1> HIDE DEF p, row, result
<1>6. CASE Exists(row)
  <2>1. /\ result \in CreditRow
        /\ result.status = Column(row.status, request[t].read.status, request[t].new.status)
        /\ result.creator = Column(row.creator, request[t].read.creator, request[t].new.creator)
        /\ result.approver = Column(row.approver, request[t].read.approver, request[t].new.approver)
    BY <1>2, <1>3, <1>6, UpdatedCredit
  <2>2. /\ Governed(result) /\ Exists(result) /\ result.creator = row.creator
        /\ row.approver # None => result.approver # None
    BY <1>4, <1>6, <2>1, UpdateGoverned
  <2>3. \A q \in CreditProducts : Exists(creditProduct[q]) =>
           /\ Exists(creditProduct'[q])
           /\ creditProduct'[q].creator = creditProduct[q].creator
           /\ creditProduct[q].approver # None => creditProduct'[q].approver # None
    BY <1>3, <2>2 DEF result, row
  <2>4. \A q \in CreditProducts : Exists(creditProduct'[q]) => Exists(creditProduct[q])
    BY <1>3, <1>6 DEF row
  <2>5. \A q \in CreditProducts : KeepsCredit(q)
    <3>1. result.status # "none" /\ row.status # "none"
      BY <1>6, <2>2 DEF Exists, NoRows
    <3>2. QED
      BY <1>3, <2>3, <2>4, <3>1 DEF KeepsCredit, row, result
  <2>6. \A c \in CardProducts : Exists(cardProduct[c]) =>
           /\ Exists(creditProduct[cardProduct[c].parent])
           /\ cardProduct[c].parent \in CreditProducts
    BY DEF NoOrphans, AllGoverned
  <2>7. \A c \in CardProducts : KeepsCard(t, c)
    <3>1. \A c \in CardProducts : Exists(cardProduct[c]) =>
             /\ Exists(creditProduct'[cardProduct[c].parent])
             /\ creditProduct[cardProduct[c].parent].status # "none"
      BY <2>3, <2>6 DEF Exists, NoRows
    <3>2. QED
      BY <1>1, <3>1 DEF KeepsCard
  <2>8. Decided' /\ Added' /\ Deleting'
    BY <1>1, <1>2, <2>5, <2>7, OthersKept
  <2>9. \A q \in CreditProducts : Governed(creditProduct'[q])
    BY <1>3, <2>2 DEF AllGoverned, result
  <2>10. AllGoverned'
    BY <1>1, <2>9 DEF AllGoverned, Governed, Exists
  <2>11. NoOrphans'
    BY <1>1, <2>3, <2>6 DEF NoOrphans, Exists
  <2>12. UnderDecided'
    <3> SUFFICES ASSUME NEW c \in CardProducts, cardProduct[c].status \in {"ACTIVE", "SUSPENDED"}
                 PROVE  /\ Exists(creditProduct'[cardProduct[c].parent])
                        /\ creditProduct'[cardProduct[c].parent].approver \notin
                              {None, creditProduct'[cardProduct[c].parent].creator}
      BY <1>1 DEF UnderDecided, Exists
    <3>1. Exists(cardProduct[c])
      BY DEF Exists, NoRows
    <3>2. cardProduct[c].parent \in CreditProducts
      BY <2>6, <3>1
    <3>3. creditProduct[cardProduct[c].parent].approver # None
      BY DEF UnderDecided
    <3>4. QED
      BY <2>3, <2>6, <2>9, <3>1, <3>2, <3>3 DEF Governed
  <2>13. ProductsTypeOK'
    <3>1. creditProduct' \in [CreditProducts -> CreditRow]
      BY <1>1, <1>2, <1>3, <2>1 DEF ProductsTypeOK
    <3>2. QED
      BY <1>1, <1>5, <3>1, GovernAnswered DEF ProductsTypeOK
  <2>14. QED
    BY <2>8, <2>10, <2>11, <2>12, <2>13
<1>7. CASE ~Exists(row)
  <2>1. creditProduct' = creditProduct
    BY <1>1, <1>2, <1>7 DEF Updated, ProductsTypeOK, row, p
  <2>2. \A q \in CreditProducts : KeepsCredit(q)
    BY <2>1 DEF KeepsCredit, Exists
  <2>3. \A c \in CardProducts : KeepsCard(t, c)
    BY <1>1, <2>1 DEF KeepsCard, Exists, NoOrphans, NoRows
  <2>4. Decided' /\ Added' /\ Deleting'
    BY <1>1, <1>2, <2>2, <2>3, OthersKept
  <2>5. ProductsTypeOK'
    BY <1>1, <1>5, <2>1, GovernAnswered DEF ProductsTypeOK
  <2>6. AllGoverned' /\ NoOrphans' /\ UnderDecided'
    BY <1>1, <2>1 DEF AllGoverned, NoOrphans, UnderDecided, Governed, Exists
  <2>7. QED
    BY <2>4, <2>5, <2>6
<1>8. QED
  BY <1>6, <1>7

\* An answer that changes no row.
LEMMA AnswerKeeps ==
    ASSUME PInv, NEW t \in Threads, request[t] # Idle, Done(t),
           UNCHANGED <<creditProduct, cardProduct, referenced, approved>>
    PROVE  PInv'
<1> USE DEF PInv
<1>1. \A p \in CreditProducts : KeepsCredit(p)
  BY DEF KeepsCredit
<1>2. \A c \in CardProducts : KeepsCard(t, c)
  BY DEF KeepsCard, Exists, NoOrphans, NoRows
<1>3. Decided' /\ Added' /\ Deleting'
  BY <1>1, <1>2, OthersKept
<1>4. ProductsTypeOK'
  BY GovernAnswered DEF ProductsTypeOK
<1>5. AllGoverned' /\ NoOrphans' /\ UnderDecided'
  BY DEF AllGoverned, NoOrphans, UnderDecided, Governed, Exists
<1>6. QED
  BY <1>3, <1>4, <1>5

\* What the new row of a card product must be for the invariant.
Admissible(c, row) ==
    /\ row \in CardRow
    /\ Governed(row)
    /\ Exists(row) => row.parent \in CreditProducts /\ Exists(creditProduct[row.parent])
    /\ ~Exists(row) => row.parent = None /\ c \notin referenced
    /\ row.status \in Launched => creditProduct[row.parent].approver # None

LEMMA CardChangeKeeps ==
    ASSUME PInv, NEW t \in Threads, request[t] # Idle, Done(t),
           UNCHANGED <<creditProduct, referenced, approved>>,
           NEW c \in CardProducts, NEW row, Admissible(c, row),
           cardProduct' = [cardProduct EXCEPT ![c] = row], KeepsCard(t, c)
    PROVE  PInv'
<1> USE DEF PInv
<1>1. cardProduct'[c] = row /\ \A d \in CardProducts \ {c} : cardProduct'[d] = cardProduct[d]
  BY DEF ProductsTypeOK
<1>2. \A p \in CreditProducts : KeepsCredit(p)
  BY DEF KeepsCredit
<1>3. \A d \in CardProducts \ {c} : KeepsCard(t, d)
  BY <1>1 DEF KeepsCard, Exists, NoOrphans, NoRows
<1>4. Decided' /\ Added' /\ Deleting'
  BY <1>2, <1>3, OthersKept
<1>5. ProductsTypeOK'
  BY GovernAnswered DEF ProductsTypeOK, Admissible
<1>6. AllGoverned'
  <2>1. \A p \in CreditProducts : Governed(creditProduct'[p])
    BY DEF AllGoverned
  <2>2. \A d \in CardProducts :
           /\ Governed(cardProduct'[d])
           /\ Exists(cardProduct'[d]) => cardProduct'[d].parent \in CreditProducts
           /\ ~Exists(cardProduct'[d]) => cardProduct'[d].parent = None
    BY <1>1 DEF AllGoverned, Admissible
  <2>3. QED
    BY <2>1, <2>2 DEF AllGoverned, Governed, Exists
<1>7. NoOrphans'
  <2>1. \A d \in referenced : Exists(cardProduct'[d])
    BY <1>1 DEF NoOrphans, Admissible, ProductsTypeOK
  <2>2. \A d \in CardProducts :
           Exists(cardProduct'[d]) => Exists(creditProduct[cardProduct'[d].parent])
    BY <1>1 DEF NoOrphans, Admissible
  <2>3. QED
    BY <2>1, <2>2 DEF NoOrphans, Exists
<1>8. UnderDecided'
  <2> SUFFICES ASSUME NEW d \in CardProducts, cardProduct'[d].status \in Launched
               PROVE  /\ Exists(creditProduct[cardProduct'[d].parent])
                      /\ creditProduct[cardProduct'[d].parent].approver \notin
                            {None, creditProduct[cardProduct'[d].parent].creator}
    BY DEF UnderDecided, Exists, Launched
  <2>1. CASE d = c
    <3>1. Exists(row)
      BY <1>1, <2>1 DEF Exists, NoRows, Launched
    <3>2. row.parent \in CreditProducts /\ Exists(creditProduct[row.parent])
          /\ creditProduct[row.parent].approver # None
      BY <1>1, <2>1, <3>1 DEF Admissible
    <3>3. QED
      BY <1>1, <2>1, <3>2 DEF AllGoverned, Governed
  <2>2. CASE d # c
    BY <1>1, <2>2 DEF UnderDecided, Launched
  <2>3. QED
    BY <2>1, <2>2
<1>9. QED
  BY <1>4, <1>5, <1>6, <1>7, <1>8

LEMMA CardDecisionKeeps ==
    ASSUME PInv, NEW t \in Threads, CommitCardDecision(t)
    PROVE  PInv'
<1> DEFINE c == request[t].product
           row == cardProduct[c]
           read == request[t].read
           new == request[t].new
           result == Updated(row, read, new)
<1> USE DEF PInv
<1>1. /\ request[t].command = "decide card" /\ Done(t)
      /\ UNCHANGED <<creditProduct, referenced, approved>>
      /\ cardProduct' = [cardProduct EXCEPT ![c] = result]
  BY DEF CommitCardDecision
<1>2. c \in CardProducts /\ read \in CardRow /\ new \in CardRow
  BY <1>1, Fields
<1>3. row \in CardRow /\ cardProduct'[c] = result
  BY <1>1, <1>2 DEF ProductsTypeOK
<1>4. request[t] # Idle
  BY <1>1, Busy
<1>5. /\ Sound(row, read, new) /\ Governed(row) /\ new.parent = read.parent
      /\ Exists(row) /\ new.status \in Launched => creditProduct[row.parent].approver # None
      /\ Exists(row) => row.parent \in CreditProducts /\ Exists(creditProduct[row.parent])
  BY <1>1, <1>2 DEF Decided, AllGoverned, NoOrphans
<1> HIDE DEF c, row, read, new, result
<1>6. CASE Exists(row)
  <2>1. /\ result \in CardRow
        /\ result.status = Column(row.status, read.status, new.status)
        /\ result.parent = Column(row.parent, read.parent, new.parent)
        /\ result.creator = Column(row.creator, read.creator, new.creator)
        /\ result.approver = Column(row.approver, read.approver, new.approver)
    BY <1>2, <1>3, <1>6, UpdatedCard DEF result
  <2>2. /\ Governed(result) /\ Exists(result) /\ result.creator = row.creator
        /\ row.approver # None => result.approver # None
        /\ result.status \in {row.status, new.status}
    BY <1>5, <1>6, <2>1, UpdateGoverned
  <2>3. result.parent = row.parent
    BY <1>5, <2>1 DEF Column
  <2>4. row.status \in Launched => creditProduct[row.parent].approver # None
    BY <1>2 DEF UnderDecided, Launched, row
  <2>5. Admissible(c, result)
    BY <1>5, <1>6, <2>1, <2>2, <2>3, <2>4 DEF Admissible
  <2>6. KeepsCard(t, c)
    <3>1. row.status # "none" /\ result.status # "none"
      BY <1>6, <2>2 DEF Exists, NoRows
    <3>2. creditProduct[row.parent].status # "none"
      BY <1>5, <1>6 DEF Exists, NoRows
    <3>3. QED
      BY <1>1, <1>3, <1>5, <1>6, <2>2, <2>3, <3>1, <3>2 DEF KeepsCard, row
  <2>7. QED
    BY <1>1, <1>2, <1>4, <2>5, <2>6, CardChangeKeeps
<1>7. CASE ~Exists(row)
  <2>1. cardProduct' = cardProduct
    BY <1>1, <1>2, <1>7 DEF Updated, ProductsTypeOK, row, result
  <2>2. QED
    BY <1>1, <1>4, <2>1, AnswerKeeps
<1>8. QED
  BY <1>6, <1>7

LEMMA NewCardKeeps ==
    ASSUME PInv, NEW t \in Threads, CommitCard(t)
    PROVE  PInv'
<1> DEFINE c == request[t].product
           row == [status |-> "DRAFT", parent |-> request[t].parent,
                   creator |-> request[t].by, approver |-> None]
<1> USE DEF PInv
<1>1. /\ request[t].command = "add card" /\ Done(t)
      /\ UNCHANGED <<creditProduct, referenced, approved>>
      /\ cardProduct' = IF Exists(creditProduct[request[t].parent])
                        THEN [cardProduct EXCEPT ![c] = row] ELSE cardProduct
  BY DEF CommitCard
<1>2. c \in CardProducts /\ request[t].parent \in CreditProducts /\ request[t].by \in Admins
  BY <1>1, Fields
<1>3. request[t] # Idle
  BY <1>1, Busy
<1>5. cardProduct[c].status = "none"
  BY <1>1 DEF Added
<1>6. CASE Exists(creditProduct[request[t].parent])
  <2>1. Admissible(c, row)
    BY <1>2, <1>6, ProductsAssumption
       DEF Admissible, CardRow, ProductStatuses, Governed, Exists, NoRows, Launched
  <2>2. KeepsCard(t, c)
    BY <1>1, <1>5 DEF KeepsCard
  <2>3. QED
    BY <1>1, <1>2, <1>3, <1>6, <2>1, <2>2, CardChangeKeeps
<1>7. CASE ~Exists(creditProduct[request[t].parent])
  BY <1>1, <1>3, <1>7, AnswerKeeps
<1>8. QED
  BY <1>6, <1>7

LEMMA CardDeletionKeeps ==
    ASSUME PInv, NEW t \in Threads, CommitCardDeletion(t)
    PROVE  PInv'
<1> DEFINE c == request[t].product
<1> USE DEF PInv
<1>1. /\ request[t].command = "delete card" /\ Done(t)
      /\ UNCHANGED <<creditProduct, referenced, approved>>
      /\ cardProduct' = IF c \in referenced THEN cardProduct
                        ELSE [cardProduct EXCEPT ![c] = NoCard("deleted")]
  BY DEF CommitCardDeletion
<1>2. c \in CardProducts
  BY <1>1, Fields
<1>3. request[t] # Idle
  BY <1>1, Busy
<1>4. CASE c \in referenced
  BY <1>1, <1>3, <1>4, AnswerKeeps
<1>5. CASE c \notin referenced
  <2>1. Admissible(c, NoCard("deleted"))
    BY <1>5 DEF Admissible, NoCard, CardRow, Governed, Exists, NoRows, Launched
  <2>2. cardProduct'[c] = NoCard("deleted")
    BY <1>1, <1>2, <1>5 DEF ProductsTypeOK
  <2>3. KeepsCard(t, c)
    <3>1. cardProduct'[c].status = "deleted"
      BY <2>2 DEF NoCard
    <3>2. cardProduct[c].status # "none"
      BY <1>1 DEF Deleting
    <3>3. QED
      BY <3>1, <3>2 DEF KeepsCard, Exists, NoRows
  <2>4. QED
    BY <1>1, <1>2, <1>3, <1>5, <2>1, <2>3, CardChangeKeeps
<1>6. QED
  BY <1>4, <1>5

LEMMA CreditDeletionKeeps ==
    ASSUME PInv, NEW t \in Threads, CommitCreditDeletion(t)
    PROVE  PInv'
<1> DEFINE p == request[t].product
<1> USE DEF PInv
<1>1. /\ request[t].command = "delete credit" /\ Done(t)
      /\ UNCHANGED <<cardProduct, referenced, approved>>
      /\ creditProduct' = IF \E c \in CardProducts : cardProduct[c].parent = p THEN creditProduct
                          ELSE [creditProduct EXCEPT ![p] = NoCredit("deleted")]
  BY DEF CommitCreditDeletion
<1>2. p \in CreditProducts
  BY <1>1, Fields
<1>3. request[t] # Idle
  BY <1>1, Busy
<1> HIDE DEF p
<1>4. CASE \E c \in CardProducts : cardProduct[c].parent = p
  BY <1>1, <1>3, <1>4, AnswerKeeps
<1>5. CASE \A c \in CardProducts : cardProduct[c].parent # p
  <2>1. creditProduct' = [creditProduct EXCEPT ![p] = NoCredit("deleted")]
    BY <1>1, <1>5
  <2>2. /\ creditProduct'[p].status = "deleted"
        /\ \A q \in CreditProducts \ {p} : creditProduct'[q] = creditProduct[q]
    BY <2>1, <1>2 DEF ProductsTypeOK, NoCredit
  <2>3. \A q \in CreditProducts : KeepsCredit(q)
    BY <2>2 DEF KeepsCredit, Exists, NoRows
  <2>4. \A c \in CardProducts : Exists(cardProduct[c]) =>
           /\ cardProduct[c].parent \in CreditProducts \ {p}
           /\ Exists(creditProduct[cardProduct[c].parent])
           /\ creditProduct'[cardProduct[c].parent] = creditProduct[cardProduct[c].parent]
    BY <1>5, <2>2 DEF AllGoverned, NoOrphans
  <2>5. \A c \in CardProducts : KeepsCard(t, c)
    BY <1>1, <2>4 DEF KeepsCard, Exists, NoRows
  <2>6. Decided' /\ Added' /\ Deleting'
    BY <1>1, <1>3, <2>3, <2>5, OthersKept
  <2>7. ProductsTypeOK'
    <3>1. NoCredit("deleted") \in CreditRow
      BY DEF NoCredit, CreditRow, NoRows
    <3>2. creditProduct' \in [CreditProducts -> CreditRow]
      BY <2>1, <3>1 DEF ProductsTypeOK
    <3>3. QED
      BY <1>1, <3>2, GovernAnswered DEF ProductsTypeOK
  <2>8. AllGoverned'
    <3>1. \A q \in CreditProducts : Governed(creditProduct'[q])
      BY <2>2 DEF AllGoverned, Governed, Exists, NoRows
    <3>2. QED
      BY <1>1, <3>1 DEF AllGoverned, Governed, Exists
  <2>9. NoOrphans'
    BY <1>1, <2>4 DEF NoOrphans, Exists
  <2>10. UnderDecided'
    BY <1>1, <2>4 DEF UnderDecided, Exists, NoRows
  <2>11. QED
    BY <2>6, <2>7, <2>8, <2>9, <2>10
<1>6. QED
  BY <1>4, <1>5

LEMMA CommitsKeep ==
    ASSUME PInv, NEW t \in Threads, GovernCommits(t)
    PROVE  PInv'
  BY CreditDecisionKeeps, CardDecisionKeeps, NewCardKeeps, CreditDeletionKeeps,
     CardDeletionKeeps DEF GovernCommits
------------------------------------------------------------------------------
(* The other steps of governance *)

LEMMA CreationKeeps ==
    ASSUME PInv, NEW by \in Admins, NEW p \in CreditProducts, CreateCredit(by, p)
    PROVE  PInv'
<1> USE DEF PInv
<1>1. /\ creditProduct[p].status = "none"
      /\ creditProduct' = [creditProduct EXCEPT ![p] = [NoCredit("DRAFT") EXCEPT !.creator = by]]
      /\ UNCHANGED <<cardProduct, referenced, request, approved>>
  BY DEF CreateCredit
<1>2. [NoCredit("DRAFT") EXCEPT !.creator = by] =
         [status |-> "DRAFT", creator |-> by, approver |-> None]
  BY DEF NoCredit
<1>3. /\ creditProduct'[p] = [status |-> "DRAFT", creator |-> by, approver |-> None]
      /\ \A q \in CreditProducts \ {p} : creditProduct'[q] = creditProduct[q]
  BY <1>1, <1>2 DEF ProductsTypeOK
<1>4. ProductsTypeOK'
  <2>1. [status |-> "DRAFT", creator |-> by, approver |-> None] \in CreditRow
    BY DEF CreditRow, ProductStatuses
  <2>2. creditProduct' \in [CreditProducts -> CreditRow]
    BY <1>1, <1>2, <2>1 DEF ProductsTypeOK
  <2>3. QED
    BY <1>1, <2>2 DEF ProductsTypeOK
<1>5. AllGoverned'
  <2>1. \A q \in CreditProducts : Governed(creditProduct'[q])
    BY <1>3, ProductsAssumption DEF AllGoverned, Governed, Exists, NoRows, Launched
  <2>2. QED
    BY <1>1, <2>1 DEF AllGoverned, Governed, Exists
<1>6. \A c \in CardProducts : Exists(cardProduct[c]) =>
         /\ cardProduct[c].parent \in CreditProducts \ {p}
         /\ Exists(creditProduct[cardProduct[c].parent])
         /\ creditProduct'[cardProduct[c].parent] = creditProduct[cardProduct[c].parent]
  BY <1>1, <1>3 DEF AllGoverned, NoOrphans, Exists, NoRows
<1>7. NoOrphans'
  BY <1>1, <1>6 DEF NoOrphans, Exists
<1>8. UnderDecided'
  BY <1>1, <1>6 DEF UnderDecided, Exists, NoRows
<1>9. Added' /\ Deleting'
  BY <1>1 DEF Added, Deleting
<1>10. Decided'
  <2>1. ASSUME NEW t \in Threads, request[t].command = "decide credit"
        PROVE  Sound(creditProduct'[request[t].product], request[t].read, request[t].new)
    <3>1. request[t].product \in CreditProducts
      BY <2>1, Fields
    <3>2. Sound(creditProduct[request[t].product], request[t].read, request[t].new)
      BY <2>1 DEF Decided
    <3>3. request[t].product # p
      BY <1>1, <3>2 DEF Sound
    <3>4. QED
      BY <1>3, <3>1, <3>2, <3>3
  <2>2. ASSUME NEW t \in Threads, request[t].command = "decide card"
        PROVE  /\ Sound(cardProduct[request[t].product], request[t].read, request[t].new)
               /\ request[t].read.status \in {"DRAFT", "ACTIVE"}
               /\ request[t].new.parent = request[t].read.parent
               /\ /\ Exists(cardProduct[request[t].product])
                  /\ request[t].new.status \in Launched
                  => creditProduct'[cardProduct[request[t].product].parent].approver # None
    <3>1. request[t].product \in CardProducts
      BY <2>2, Fields
    <3>2. QED
      BY <1>6, <2>2, <3>1 DEF Decided
  <2>3. QED
    BY <1>1, <2>1, <2>2 DEF Decided, Sound, Governed, Exists
<1>11. QED
  BY <1>4, <1>5, <1>7, <1>8, <1>9, <1>10

LEMMA StopKeeps ==
    ASSUME PInv, Stop
    PROVE  PInv'
<1> USE DEF PInv
<1>1. /\ \A t \in Threads : request'[t] = Idle /\ request'[t].command = "none"
      /\ request' \in [Threads -> Request]
      /\ UNCHANGED <<creditProduct, cardProduct, referenced, approved>>
  BY DEF Stop, Request, Idle
<1>2. Decided' /\ Added' /\ Deleting'
  BY <1>1 DEF Decided, Added, Deleting
<1>3. AllGoverned' /\ NoOrphans' /\ UnderDecided' /\ ProductsTypeOK'
  BY <1>1 DEF AllGoverned, NoOrphans, UnderDecided, ProductsTypeOK, Governed, Exists
<1>4. QED
  BY <1>2, <1>3

LEMMA ReferenceKeeps ==
    ASSUME PInv, NEW c \in CardProducts, Refer(c)
    PROVE  PInv'
<1> USE DEF PInv
<1>1. /\ Exists(cardProduct[c]) /\ referenced' = referenced \cup {c}
      /\ UNCHANGED <<creditProduct, cardProduct, request, approved>>
  BY DEF Refer
<1>2. Decided' /\ Added' /\ Deleting'
  BY <1>1 DEF Decided, Added, Deleting, Sound, Governed, Exists
<1>3. AllGoverned' /\ NoOrphans' /\ UnderDecided' /\ ProductsTypeOK'
  BY <1>1 DEF AllGoverned, NoOrphans, UnderDecided, ProductsTypeOK, Governed, Exists
<1>4. QED
  BY <1>2, <1>3

LEMMA StutterKeeps ==
    ASSUME PInv, UNCHANGED productVars
    PROVE  PInv'
<1> USE DEF PInv, productVars
<1>1. Decided' /\ Added' /\ Deleting'
  BY DEF Decided, Added, Deleting, Sound, Governed, Exists
<1>2. AllGoverned' /\ NoOrphans' /\ UnderDecided' /\ ProductsTypeOK'
  BY DEF AllGoverned, NoOrphans, UnderDecided, ProductsTypeOK, Governed, Exists
<1>3. QED
  BY <1>1, <1>2

LEMMA ProductsStart ==
    ASSUME ProductsInit
    PROVE  PInv
<1>1. /\ \A p \in CreditProducts : creditProduct[p] = NoCredit("none")
      /\ \A c \in CardProducts : cardProduct[c] = NoCard("none")
      /\ \A t \in Threads : request[t] = Idle /\ request[t].command = "none"
      /\ referenced = {} /\ approved = {}
  BY DEF ProductsInit, Idle
<1>2. /\ NoCredit("none") \in CreditRow /\ NoCredit("none").status = "none"
      /\ NoCard("none") \in CardRow /\ NoCard("none").status = "none"
      /\ NoCard("none").parent = None
  BY DEF NoCredit, NoCard, CreditRow, CardRow, NoRows
<1>3. ProductsTypeOK
  BY <1>2 DEF ProductsInit, ProductsTypeOK, Request
<1>4. AllGoverned /\ NoOrphans /\ UnderDecided
  BY <1>1, <1>2 DEF AllGoverned, NoOrphans, UnderDecided, Governed, Exists, NoRows
<1>5. Decided /\ Added /\ Deleting
  BY <1>1 DEF Decided, Added, Deleting
<1>6. QED
  BY <1>3, <1>4, <1>5 DEF PInv

LEMMA ProductsStepKeeps ==
    ASSUME PInv, [ProductsNext]_productVars
    PROVE  PInv'
<1>1. CASE ProductsNext
  <2>1. CASE \E by \in Admins, p \in CreditProducts : CreateCredit(by, p)
    BY <2>1, CreationKeeps
  <2>2. CASE \E t \in Threads : CreditCalls(t) \/ CardCalls(t)
    BY <2>2, CallsKeep
  <2>3. CASE \E t \in Threads : GovernCommits(t)
    BY <2>3, CommitsKeep
  <2>4. CASE \E c \in CardProducts : Refer(c)
    BY <2>4, ReferenceKeeps
  <2>5. CASE Stop
    BY <2>5, StopKeeps
  <2>6. CASE Settled
    BY <2>6, StutterKeeps DEF Settled
  <2>7. QED
    BY <1>1, <2>1, <2>2, <2>3, <2>4, <2>5, <2>6, GovernSteps
<1>2. CASE UNCHANGED productVars
  BY <1>2, StutterKeeps
<1>3. QED
  BY <1>1, <1>2

------------------------------------------------------------------------------
(* What was on offer *)

\* The credit product that a decision in flight needs was on offer.
Backed(r) ==
    /\ r.command = "decide credit" /\ r.new.status = "SUSPENDED" => r.product \in approved
    /\ r.command = "decide card" /\ r.new.status \in Launched /\ Exists(cardProduct[r.product]) =>
          cardProduct[r.product].parent \in approved

Offered ==
    /\ \A p \in CreditProducts : creditProduct[p].status \in Launched => p \in approved
    /\ \A c \in CardProducts :
          cardProduct[c].status \in Launched => cardProduct[c].parent \in approved
    /\ \A t \in Threads : Backed(request[t])

KeepsParent(c) ==
    cardProduct[c].status # "none" /\ Exists(cardProduct'[c]) =>
       Exists(cardProduct[c]) /\ cardProduct'[c].parent = cardProduct[c].parent

LEMMA BackedKept ==
    ASSUME PInv, NEW r \in Request, Backed(r), approved \subseteq approved',
           r.command = "decide card" => /\ cardProduct[r.product].status # "none"
                                        /\ KeepsParent(r.product)
    PROVE  /\ r.command = "decide credit" /\ r.new.status = "SUSPENDED" => r.product \in approved'
           /\ r.command = "decide card" /\ r.new.status \in Launched
              /\ Exists(cardProduct'[r.product]) => cardProduct'[r.product].parent \in approved'
  BY DEF Backed, KeepsParent

\* Requests that stay in flight stay backed, and a call that ends is Idle.
LEMMA RequestsBacked ==
    ASSUME PInv, Offered, approved \subseteq approved',
           \A c \in CardProducts : KeepsParent(c),
           \A t \in Threads : request'[t] = request[t] \/ request'[t] = Idle
    PROVE  \A t \in Threads : Backed(request[t])'
<1> SUFFICES ASSUME NEW t \in Threads
             PROVE  /\ request'[t].command = "decide credit" /\ request'[t].new.status = "SUSPENDED"
                       => request'[t].product \in approved'
                    /\ /\ request'[t].command = "decide card"
                       /\ request'[t].new.status \in Launched
                       /\ Exists(cardProduct'[request'[t].product])
                       => cardProduct'[request'[t].product].parent \in approved'
  BY DEF Backed, Exists, Launched
<1>1. CASE request'[t] = Idle
  BY <1>1 DEF Idle
<1>2. CASE request'[t] = request[t]
  <2>1. request[t] \in Request /\ Backed(request[t])
    BY DEF PInv, ProductsTypeOK, Offered
  <2>2. request[t].command = "decide card" => /\ cardProduct[request[t].product].status # "none"
                                              /\ KeepsParent(request[t].product)
    BY Fields DEF PInv, Decided, Sound
  <2>3. PICK r \in Request : r = request[t]
    BY <2>1
  <2>4. /\ r.command = "decide credit" /\ r.new.status = "SUSPENDED" => r.product \in approved'
        /\ r.command = "decide card" /\ r.new.status \in Launched
           /\ Exists(cardProduct'[r.product]) => cardProduct'[r.product].parent \in approved'
    BY <2>1, <2>2, <2>3, BackedKept
  <2>5. QED
    BY <1>2, <2>3, <2>4
<1>3. QED
  BY <1>1, <1>2

LEMMA CallsBacked ==
    ASSUME PInv, Offered, NEW t \in Threads, CreditCalls(t) \/ CardCalls(t)
    PROVE  \E new : Backed(new) /\ Begin(t, new)
<1> USE DEF PInv
<1>1. ASSUME NEW by \in Admins, NEW p \in CreditProducts, NEW command \in Decisions,
             DecideCredit(t, by, p, command)
      PROVE  \E new : Backed(new) /\ Begin(t, new)
  <2>1. PICK new \in CreditDecided(command, by, creditProduct[p]) :
           Begin(t, [command |-> "decide credit", product |-> p,
                     read |-> creditProduct[p], new |-> new])
    BY <1>1 DEF DecideCredit
  <2>2. creditProduct[p] \in CreditRow
    BY DEF ProductsTypeOK
  <2>3. new.status = "SUSPENDED" => creditProduct[p].status = "ACTIVE"
    BY <2>1, <2>2 DEF CreditDecided, CreditRow, Decisions
  <2>4. Backed([command |-> "decide credit", product |-> p,
                read |-> creditProduct[p], new |-> new])
    BY <2>3 DEF Backed, Offered, Launched
  <2>5. QED
    BY <2>1, <2>4
<1>2. ASSUME NEW by \in Admins, NEW p \in CreditProducts, DeleteCredit(t, by, p)
      PROVE  \E new : Backed(new) /\ Begin(t, new)
  BY <1>2 DEF DeleteCredit, Backed
<1>3. ASSUME NEW by \in Admins, NEW c \in CardProducts, NEW command \in Decisions,
             DecideCard(t, by, c, command)
      PROVE  \E new : Backed(new) /\ Begin(t, new)
  <2>1. Exists(cardProduct[c]) /\ cardProduct[c] \in CardRow
        /\ cardProduct[c].parent \in CreditProducts
    BY <1>3 DEF DecideCard, ProductsTypeOK, AllGoverned
  <2>2. PICK new \in CardDecided(command, by, cardProduct[c]) :
           Begin(t, [command |-> "decide card", product |-> c,
                     read |-> cardProduct[c], new |-> new])
    BY <1>3 DEF DecideCard
  <2>3. new.status \in Launched =>
           \/ creditProduct[cardProduct[c].parent].status = "ACTIVE"
           \/ cardProduct[c].status = "ACTIVE"
    BY <2>1, <2>2 DEF CardDecided, CardRow, Decisions, Launched
  <2>4. new.status \in Launched => cardProduct[c].parent \in approved
    BY <2>1, <2>3 DEF Offered, Launched
  <2>5. Backed([command |-> "decide card", product |-> c,
                read |-> cardProduct[c], new |-> new])
    BY <2>4 DEF Backed
  <2>6. QED
    BY <2>2, <2>5
<1>4. ASSUME NEW by \in Admins, NEW c \in CardProducts, NEW p \in CreditProducts,
             AddCard(t, by, c, p)
      PROVE  \E new : Backed(new) /\ Begin(t, new)
  BY <1>4 DEF AddCard, Backed
<1>5. ASSUME NEW by \in Admins, NEW c \in CardProducts, DeleteCard(t, by, c)
      PROVE  \E new : Backed(new) /\ Begin(t, new)
  BY <1>5 DEF DeleteCard, Backed
<1>6. QED
  BY <1>1, <1>2, <1>3, <1>4, <1>5 DEF CreditCalls, CardCalls

LEMMA CallsOffer ==
    ASSUME PInv, Offered, NEW t \in Threads, CreditCalls(t) \/ CardCalls(t)
    PROVE  Offered'
<1>1. PICK new : Backed(new) /\ Begin(t, new)
  BY CallsBacked
<1>2. /\ request'[t] = new /\ \A u \in Threads \ {t} : request'[u] = request[u]
      /\ UNCHANGED <<creditProduct, cardProduct, approved>>
  BY <1>1 DEF Begin, PInv, ProductsTypeOK
<1>3. \A u \in Threads : Backed(request'[u])
  BY <1>1, <1>2 DEF Offered
<1>4. QED
  BY <1>2, <1>3 DEF Offered, Backed, Exists

\* Neither products nor what was on offer change.
LEMMA OfferKept ==
    ASSUME PInv, Offered, UNCHANGED <<creditProduct, cardProduct, approved>>,
           \A t \in Threads : request'[t] = request[t] \/ request'[t] = Idle
    PROVE  Offered'
<1>1. \A c \in CardProducts : KeepsParent(c)
  BY DEF KeepsParent, Exists, PInv, NoOrphans, NoRows
<1>2. \A t \in Threads : Backed(request[t])'
  BY <1>1, RequestsBacked
<1>3. QED
  BY <1>2 DEF Offered

LEMMA CreditDecisionOffers ==
    ASSUME PInv, Offered, NEW t \in Threads, CommitCreditDecision(t)
    PROVE  Offered'
<1> USE DEF PInv
<1>1. /\ request[t].command = "decide credit" /\ Done(t)
      /\ UNCHANGED <<cardProduct, referenced>>
      /\ creditProduct' = [creditProduct EXCEPT ![request[t].product] =
                              Updated(@, request[t].read, request[t].new)]
      /\ approved' = approved \cup
            {q \in {request[t].product} : creditProduct'[q].status = "ACTIVE"}
  BY DEF CommitCreditDecision
<1>2. PICK p \in CreditProducts : p = request[t].product
  BY <1>1, Fields
<1>3. PICK row \in CreditRow : row = creditProduct[p]
  BY DEF ProductsTypeOK
<1>4. PICK result : result = Updated(row, request[t].read, request[t].new)
  OBVIOUS
<1>5. /\ creditProduct'[p] = result
      /\ \A q \in CreditProducts \ {p} : creditProduct'[q] = creditProduct[q]
  BY <1>1, <1>2, <1>3, <1>4 DEF ProductsTypeOK
<1>6. result.status \in {row.status, request[t].new.status}
  <2>1. CASE Exists(row)
    <3>1. request[t].read \in CreditRow /\ request[t].new \in CreditRow
      BY <1>1, Fields
    <3>2. result.status = Column(row.status, request[t].read.status, request[t].new.status)
      BY <1>3, <1>4, <2>1, <3>1, UpdatedCredit
    <3>3. QED
      BY <3>2 DEF Column
  <2>2. CASE ~Exists(row)
    BY <1>4, <2>2 DEF Updated
  <2>3. QED
    BY <2>1, <2>2
<1>7. result.status \in Launched => p \in approved'
  <2>1. row.status \in Launched => p \in approved
    BY <1>3 DEF Offered
  <2>2. request[t].new.status = "SUSPENDED" => p \in approved
    BY <1>1, <1>2 DEF Offered, Backed
  <2>3. result.status = "ACTIVE" => p \in approved'
    BY <1>1, <1>2, <1>5
  <2>4. QED
    BY <1>1, <1>6, <2>1, <2>2, <2>3 DEF Launched
<1>8. approved \subseteq approved'
  BY <1>1
<1>9. \A q \in CreditProducts : creditProduct'[q].status \in Launched => q \in approved'
  BY <1>5, <1>7, <1>8 DEF Offered
<1>10. \A c \in CardProducts :
          cardProduct'[c].status \in Launched => cardProduct'[c].parent \in approved'
  BY <1>1, <1>8 DEF Offered
<1>11. \A u \in Threads : Backed(request[u])'
  <2>1. \A c \in CardProducts : KeepsParent(c)
    BY <1>1 DEF KeepsParent, Exists, NoOrphans, NoRows
  <2>2. \A u \in Threads : request'[u] = request[u] \/ request'[u] = Idle
    BY <1>1, GovernAnswered
  <2>3. QED
    BY <1>8, <2>1, <2>2, RequestsBacked
<1>12. QED
  BY <1>9, <1>10, <1>11 DEF Offered, Launched

\* One row of a card product changes.
LEMMA CardOffers ==
    ASSUME PInv, Offered, NEW t \in Threads, Done(t), UNCHANGED <<creditProduct, approved>>,
           NEW c \in CardProducts, NEW row,
           cardProduct' = [cardProduct EXCEPT ![c] = row],
           row.status \in Launched => row.parent \in approved,
           cardProduct[c].status # "none" /\ Exists(row) =>
              Exists(cardProduct[c]) /\ row.parent = cardProduct[c].parent
    PROVE  Offered'
<1>1. cardProduct'[c] = row /\ \A d \in CardProducts \ {c} : cardProduct'[d] = cardProduct[d]
  BY DEF PInv, ProductsTypeOK
<1>2. \A d \in CardProducts : KeepsParent(d)
  BY <1>1 DEF KeepsParent
<1>3. \A u \in Threads : request'[u] = request[u] \/ request'[u] = Idle
  BY GovernAnswered DEF PInv
<1>4. \A u \in Threads : Backed(request[u])'
  BY <1>2, <1>3, RequestsBacked
<1>5. \A d \in CardProducts :
         cardProduct'[d].status \in Launched => cardProduct'[d].parent \in approved'
  BY <1>1 DEF Offered
<1>6. \A q \in CreditProducts : creditProduct'[q].status \in Launched => q \in approved'
  BY DEF Offered
<1>7. QED
  BY <1>4, <1>5, <1>6 DEF Offered, Launched

LEMMA CardDecisionOffers ==
    ASSUME PInv, Offered, NEW t \in Threads, CommitCardDecision(t)
    PROVE  Offered'
<1> USE DEF PInv
<1>1. /\ request[t].command = "decide card" /\ Done(t)
      /\ UNCHANGED <<creditProduct, referenced, approved>>
      /\ cardProduct' = [cardProduct EXCEPT ![request[t].product] =
                            Updated(@, request[t].read, request[t].new)]
  BY DEF CommitCardDecision
<1>2. PICK c \in CardProducts : c = request[t].product
  BY <1>1, Fields
<1>3. PICK row \in CardRow : row = cardProduct[c]
  BY DEF ProductsTypeOK
<1>4. PICK result : result = Updated(row, request[t].read, request[t].new)
  OBVIOUS
<1>5. cardProduct' = [cardProduct EXCEPT ![c] = result]
  BY <1>1, <1>2, <1>3, <1>4
<1>6. CASE Exists(row)
  <2>1. request[t].new.parent = request[t].read.parent
    BY <1>1 DEF Decided
  <2>2. /\ result.status \in {row.status, request[t].new.status}
        /\ result.parent = row.parent
    <3>1. request[t].read \in CardRow /\ request[t].new \in CardRow
      BY <1>1, Fields
    <3>2. /\ result.status = Column(row.status, request[t].read.status, request[t].new.status)
          /\ result.parent = Column(row.parent, request[t].read.parent, request[t].new.parent)
      BY <1>3, <1>4, <1>6, <3>1, UpdatedCard
    <3>3. QED
      BY <2>1, <3>2 DEF Column
  <2>3. row.status \in Launched => row.parent \in approved
    BY <1>3 DEF Offered
  <2>4. request[t].new.status \in Launched => row.parent \in approved
    BY <1>1, <1>2, <1>3, <1>6 DEF Offered, Backed
  <2>5. result.status \in Launched => result.parent \in approved
    BY <2>2, <2>3, <2>4
  <2>6. QED
    BY <1>1, <1>3, <1>5, <1>6, <2>2, <2>5, CardOffers
<1>7. CASE ~Exists(row)
  <2>1. cardProduct' = cardProduct
    BY <1>3, <1>4, <1>5, <1>7 DEF Updated, ProductsTypeOK
  <2>2. QED
    BY <1>1, <2>1, GovernAnswered, OfferKept
<1>8. QED
  BY <1>6, <1>7

LEMMA NewCardOffers ==
    ASSUME PInv, Offered, NEW t \in Threads, CommitCard(t)
    PROVE  Offered'
<1> USE DEF PInv
<1>1. /\ request[t].command = "add card" /\ Done(t)
      /\ UNCHANGED <<creditProduct, referenced, approved>>
  BY DEF CommitCard
<1>2. request[t].product \in CardProducts /\ cardProduct[request[t].product].status = "none"
  BY <1>1, Fields DEF Added
<1>3. PICK row : row = [status |-> "DRAFT", parent |-> request[t].parent,
                        creator |-> request[t].by, approver |-> None]
  OBVIOUS
<1>4. row.status \notin Launched
  BY <1>3 DEF Launched
<1>5. CASE cardProduct' = [cardProduct EXCEPT ![request[t].product] = row]
  BY <1>1, <1>2, <1>4, <1>5, CardOffers
<1>6. CASE cardProduct' = cardProduct
  BY <1>1, <1>6, GovernAnswered, OfferKept
<1>7. QED
  BY <1>3, <1>5, <1>6 DEF CommitCard

LEMMA CardDeletionOffers ==
    ASSUME PInv, Offered, NEW t \in Threads, CommitCardDeletion(t)
    PROVE  Offered'
<1> USE DEF PInv
<1>1. /\ request[t].command = "delete card" /\ Done(t)
      /\ UNCHANGED <<creditProduct, referenced, approved>>
  BY DEF CommitCardDeletion
<1>2. request[t].product \in CardProducts
  BY <1>1, Fields
<1>3. PICK row : row = NoCard("deleted")
  OBVIOUS
<1>4. row.status = "deleted" /\ row.status \notin Launched /\ ~Exists(row)
  BY <1>3 DEF NoCard, Launched, Exists, NoRows
<1>5. CASE cardProduct' = [cardProduct EXCEPT ![request[t].product] = row]
  BY <1>1, <1>2, <1>4, <1>5, CardOffers
<1>6. CASE cardProduct' = cardProduct
  BY <1>1, <1>6, GovernAnswered, OfferKept
<1>7. QED
  BY <1>3, <1>5, <1>6 DEF CommitCardDeletion

\* A credit product that is new or gone is not on offer.
LEMMA CreditOffers ==
    ASSUME PInv, Offered, UNCHANGED <<cardProduct, approved>>,
           NEW p \in CreditProducts, NEW row, row.status \notin Launched,
           creditProduct' = [creditProduct EXCEPT ![p] = row],
           \A t \in Threads : request'[t] = request[t] \/ request'[t] = Idle
    PROVE  Offered'
<1>1. \A q \in CreditProducts : creditProduct'[q].status \in Launched => q \in approved'
  BY DEF PInv, ProductsTypeOK, Offered
<1>2. \A c \in CardProducts : KeepsParent(c)
  BY DEF KeepsParent, Exists, PInv, NoOrphans, NoRows
<1>3. \A t \in Threads : Backed(request[t])'
  BY <1>2, RequestsBacked
<1>4. QED
  BY <1>1, <1>3 DEF Offered, Launched

LEMMA CreditDeletionOffers ==
    ASSUME PInv, Offered, NEW t \in Threads, CommitCreditDeletion(t)
    PROVE  Offered'
<1> USE DEF PInv
<1>1. /\ request[t].command = "delete credit" /\ Done(t)
      /\ UNCHANGED <<cardProduct, referenced, approved>>
  BY DEF CommitCreditDeletion
<1>2. request[t].product \in CreditProducts
  BY <1>1, Fields
<1>3. PICK row : row = NoCredit("deleted")
  OBVIOUS
<1>4. row.status \notin Launched
  BY <1>3 DEF NoCredit, Launched
<1>5. \A u \in Threads : request'[u] = request[u] \/ request'[u] = Idle
  BY <1>1, GovernAnswered
<1>6. CASE creditProduct' = [creditProduct EXCEPT ![request[t].product] = row]
  BY <1>1, <1>2, <1>4, <1>5, <1>6, CreditOffers
<1>7. CASE creditProduct' = creditProduct
  BY <1>1, <1>5, <1>7, OfferKept
<1>8. QED
  BY <1>3, <1>6, <1>7 DEF CommitCreditDeletion

LEMMA OfferedStep ==
    ASSUME PInv, Offered, [ProductsNext]_productVars
    PROVE  Offered'
<1>1. CASE \E by \in Admins, p \in CreditProducts : CreateCredit(by, p)
  <2>1. PICK by \in Admins, p \in CreditProducts : CreateCredit(by, p)
    BY <1>1
  <2>2. PICK row : row = [NoCredit("DRAFT") EXCEPT !.creator = by]
    OBVIOUS
  <2>3. row.status \notin Launched
    BY <2>2 DEF NoCredit, Launched
  <2>4. QED
    BY <2>1, <2>2, <2>3, CreditOffers DEF CreateCredit
<1>2. CASE \E t \in Threads : CreditCalls(t) \/ CardCalls(t)
  BY <1>2, CallsOffer
<1>3. CASE \E t \in Threads : GovernCommits(t)
  BY <1>3, CreditDecisionOffers, CardDecisionOffers, NewCardOffers, CardDeletionOffers,
     CreditDeletionOffers DEF GovernCommits
<1>4. CASE \E c \in CardProducts : Refer(c)
  BY <1>4, OfferKept DEF Refer
<1>5. CASE Stop
  BY <1>5, OfferKept DEF Stop
<1>6. CASE UNCHANGED productVars
  BY <1>6, OfferKept DEF productVars
<1>7. QED
  BY <1>1, <1>2, <1>3, <1>4, <1>5, <1>6, GovernSteps DEF Settled

LEMMA OfferedStart ==
    ASSUME ProductsInit
    PROVE  Offered
<1>1. /\ \A p \in CreditProducts : creditProduct[p].status = "none"
      /\ \A c \in CardProducts : cardProduct[c].status = "none"
      /\ \A t \in Threads : request[t].command = "none"
  BY DEF ProductsInit, Idle, NoCredit, NoCard
<1>2. QED
  BY <1>1 DEF Offered, Backed, Launched
------------------------------------------------------------------------------
(* A rejection *)

RejectionHolds(c) == Revived(c) => StaleRevival(c)

LEMMA RejectedStep ==
    ASSUME PInv, [ProductsNext]_productVars, NEW c \in CardProducts
    PROVE  RejectionHolds(c)
<1> USE DEF PInv
<1>1. ASSUME cardProduct'[c] = cardProduct[c] PROVE RejectionHolds(c)
  BY <1>1 DEF RejectionHolds, Revived, StaleRevival
<1>2. ASSUME NEW t \in Threads, CommitCardDecision(t) PROVE RejectionHolds(c)
  <2>1. /\ request[t].command = "decide card" /\ Done(t)
        /\ cardProduct' = [cardProduct EXCEPT ![request[t].product] =
                              Updated(@, request[t].read, request[t].new)]
    BY <1>2 DEF CommitCardDecision
  <2>2. request[t].read.status # "REJECTED" /\ request'[t] = Idle
    BY <2>1, GovernAnswered DEF Decided
  <2>3. CASE request[t].product = c
    BY <2>1, <2>2, <2>3 DEF RejectionHolds, Revived, StaleRevival
  <2>4. CASE request[t].product # c
    BY <1>1, <2>1, <2>4 DEF ProductsTypeOK
  <2>5. QED
    BY <2>3, <2>4
<1>3. ASSUME NEW t \in Threads, CommitCard(t) PROVE RejectionHolds(c)
  <2>1. cardProduct[request[t].product].status = "none"
    BY <1>3 DEF CommitCard, Added
  <2>2. CASE request[t].product = c
    BY <2>1, <2>2 DEF RejectionHolds, Revived, StaleRevival
  <2>3. CASE request[t].product # c
    BY <1>1, <1>3, <2>3 DEF CommitCard, ProductsTypeOK
  <2>4. QED
    BY <2>2, <2>3
<1>4. ASSUME NEW t \in Threads, CommitCardDeletion(t) PROVE RejectionHolds(c)
  <2>1. NoCard("deleted").status = "deleted"
    BY DEF NoCard
  <2>2. cardProduct' = cardProduct
        \/ cardProduct' = [cardProduct EXCEPT ![request[t].product] = NoCard("deleted")]
    BY <1>4 DEF CommitCardDeletion
  <2>3. QED
    BY <2>1, <2>2 DEF RejectionHolds, Revived, StaleRevival, ProductsTypeOK
<1>5. CASE UNCHANGED productVars
  BY <1>1, <1>5 DEF productVars
<1>6. CASE \E by \in Admins, p \in CreditProducts : CreateCredit(by, p)
  BY <1>1, <1>6 DEF CreateCredit
<1>7. CASE \E t \in Threads : CreditCalls(t) \/ CardCalls(t)
  BY <1>1, <1>7, CallsFind DEF Begin
<1>8. CASE \E t \in Threads : GovernCommits(t)
  <2>1. ASSUME NEW t \in Threads, CommitCreditDecision(t) \/ CommitCreditDeletion(t)
        PROVE  RejectionHolds(c)
    BY <1>1, <2>1 DEF CommitCreditDecision, CommitCreditDeletion
  <2>2. QED
    BY <1>2, <1>3, <1>4, <1>8, <2>1 DEF GovernCommits
<1>9. CASE (\E d \in CardProducts : Refer(d)) \/ Stop \/ Settled
  BY <1>1, <1>9 DEF Refer, Stop, Settled, productVars
<1>10. QED
  BY <1>5, <1>6, <1>7, <1>8, <1>9, GovernSteps
------------------------------------------------------------------------------
(* Theorems about the products *)

LEMMA ProductsInvariant == ProductsSpec => [](PInv /\ Offered)
<1>1. ProductsInit => PInv /\ Offered
  BY ProductsStart, OfferedStart
<1>2. (PInv /\ Offered) /\ [ProductsNext]_productVars => (PInv /\ Offered)'
  BY ProductsStepKeeps, OfferedStep
<1>3. QED
  BY <1>1, <1>2, PTL DEF ProductsSpec

\* Products and requests have the values of their columns, also when updates
\* of a stale read meet a row that another has changed.
THEOREM ProductsTypeCorrect == ProductsSpec => []ProductsTypeOK
<1>1. PInv => ProductsTypeOK
  BY DEF PInv
<1>2. QED
  BY <1>1, ProductsInvariant, PTL

\* What is or was on offer was approved by another than its creator: the
\* check of approve_product and approve_card_product survives every race.
THEOREM MakerChecker == ProductsSpec => []FourEyes
<1>1. PInv => FourEyes
  <2>1. ASSUME NEW row, Governed(row), row.status \in Launched
        PROVE  row.approver \notin {None, row.creator}
    BY <2>1 DEF Governed, Exists, NoRows, Launched
  <2>2. QED
    BY <2>1 DEF PInv, AllGoverned, FourEyes, Launched
<1>2. QED
  BY <1>1, ProductsInvariant, PTL

\* A card product on offer stands under a credit product that exists, was on
\* offer itself, and was last decided on by another than its creator.
THEOREM LaunchesStand == ProductsSpec => []LaunchedUnderApproved
<1>1. PInv /\ Offered => LaunchedUnderApproved
  BY DEF PInv, UnderDecided, Offered, Launched, LaunchedUnderApproved
<1>2. QED
  BY <1>1, ProductsInvariant, PTL

\* The foreign keys keep products that something refers to.
THEOREM ReferencesHold == ProductsSpec => []NoOrphans
<1>1. PInv => NoOrphans
  BY DEF PInv
<1>2. QED
  BY <1>1, ProductsInvariant, PTL

\* However decisions race, a rejected card product comes back only with a
\* decision in flight that had read its row before the rejection.
THEOREM RejectionsFinal == ProductsSpec => RejectedUnlessStale
<1>1. PInv /\ [ProductsNext]_productVars =>
         [\A c \in CardProducts : Revived(c) => StaleRevival(c)]_productVars
  BY RejectedStep DEF RejectionHolds
<1>2. QED
  BY <1>1, ProductsInvariant, PTL DEF ProductsSpec, RejectedUnlessStale
------------------------------------------------------------------------------
(* The engines *)

Scores == 560 .. 900

LEMMA ScoreRange ==
    ASSUME NEW age \in Nat, NEW income \in Nat, NEW employment \in Employments
    PROVE  BureauScore(age, income, employment) \in Scores
<1> DEFINE i == AgePoints(age)
           j == IncomePoints(income)
           k == EmploymentPoints[employment]
           l == Variation(age, income)
<1>1. i \in -30 .. 40
  BY DEF AgePoints
<1>2. j \in 0 .. 100
  <2>1. \A n \in Int : Clamp(0, 100, n) \in 0 .. 100
    BY DEF Clamp
  <2>2. (income \div 2000) - (IF income \in {58000, 114000, 116000} THEN 1 ELSE 0) \in Int
    OBVIOUS
  <2>3. QED
    BY <2>1, <2>2 DEF IncomePoints
<1>3. k \in -50 .. 50
  <2>1. EmploymentPoints =
          [FULL_TIME |-> 50, PART_TIME |-> 10, SELF_EMPLOYED |-> 20, CONTRACTOR |-> 15,
           STUDENT |-> -10, RETIRED |-> 30, UNEMPLOYED |-> -50]
    BY DEF EmploymentPoints
  <2>2. employment \in {"FULL_TIME", "PART_TIME", "SELF_EMPLOYED", "CONTRACTOR",
                        "STUDENT", "RETIRED", "UNEMPLOYED"}
    BY <2>1 DEF Employments
  <2>3. QED
    BY <2>1, <2>2
<1>4. l \in -10 .. 9
  <2>1. \A n \in Int : (n % 20) - 10 \in -10 .. 9
    OBVIOUS
  <2>2. age * 13 + (income % 17) \in Int
    OBVIOUS
  <2>3. QED
    BY <2>1, <2>2 DEF Variation
<1>5. BureauScore(age, income, employment) = Clamp(300, 900, 600 + i + j + k + 50 + l)
  BY DEF BureauScore
<1> HIDE DEF i, j, k, l
<1>6. Clamp(300, 900, 600 + i + j + k + 50 + l) \in Scores
  BY <1>1, <1>2, <1>3, <1>4 DEF Clamp, Scores
<1>7. QED
  BY <1>5, <1>6

\* The two decisions agree: at such a score nothing but the severity HIGH or
\* CRITICAL makes a risk too high.
LEMMA EligibleApproved ==
    ASSUME NEW score \in Scores, NEW income \in Nat, NEW rules \in [score : Int, income : Nat],
           NEW flags, "HIGH" \notin flags, Eligible(score, income, flags, rules)
    PROVE  Decision(score, income, flags, rules) = "APPROVED"
<1>1. ScoreBand(score) \in {"LOW", "MEDIUM", "HIGH"}
  BY DEF ScoreBand, Scores
<1>2. \A band \in {"LOW", "MEDIUM", "HIGH"} : Elevated(band) \in {"LOW", "MEDIUM", "HIGH"}
  BY DEF Elevated
<1>3. RiskBand(score, flags, income) \in {"LOW", "MEDIUM", "HIGH"}
  <2>1. "CRITICAL" \notin flags
    BY DEF Eligible
  <2>2. flags \cap {"CRITICAL", "HIGH"} = {}
    BY <2>1
  <2>3. QED
    BY <1>1, <1>2, <2>1, <2>2 DEF RiskBand
<1>4. QED
  BY <1>3 DEF Decision, Eligible, Scores

Confirmed(row) == Decision(row.score, row.income, row.flags, row.rules) = "APPROVED"

LEMMA AssessedRow ==
    ASSUME application \in Seq(Application), NEW card \in CardProducts,
           NEW parent \in CreditProducts, NEW applicant \in Applicants
    PROVE  LET row == Assessed(card, parent, applicant)
           IN  /\ row \in Application
               /\ row.card = card /\ row.status = "SUBMITTED"
               /\ Eligible(row.score, row.income, row.flags, row.rules) => Confirmed(row)
               /\ Eligible(row.score, row.income, row.flags, row.rules) =>
                     Len(application) <= MaxVelocity
<1> DEFINE row == Assessed(card, parent, applicant)
           score == BureauScore(applicant.age, applicant.income, applicant.employment)
           flags == FraudFlags(applicant.income, applicant.verified, Len(application), MaxVelocity)
<1>1. /\ applicant.age \in Nat /\ applicant.income \in Nat /\ applicant.verified \in Nat
      /\ applicant.employment \in Employments
  BY IssuanceAssumption
<1>2. score \in Scores /\ score \in Int
  <2>1. score \in Scores
    BY <1>1, ScoreRange
  <2>2. \A n \in Scores : n \in Int
    BY DEF Scores
  <2>3. QED
    BY <2>1, <2>2
<1>3. /\ flags \subseteq Severities /\ "HIGH" \notin flags
      /\ Len(application) > MaxVelocity => "CRITICAL" \in flags
  BY DEF FraudFlags, Severities
<1>4. Rules[parent] \in [score : Int, income : Nat]
  BY IssuanceAssumption
<1> HIDE DEF score, flags
<1>5. row = [card |-> card, status |-> "SUBMITTED", rules |-> Rules[parent],
             income |-> applicant.income, score |-> score, flags |-> flags]
  BY DEF Assessed, row, score, flags
<1>6. row \in Application
  BY <1>1, <1>2, <1>3, <1>5 DEF Application, ApplicationStatuses
<1>7. ASSUME Eligible(score, applicant.income, flags, Rules[parent])
      PROVE  /\ Decision(score, applicant.income, flags, Rules[parent]) = "APPROVED"
             /\ Len(application) <= MaxVelocity
  <2>1. Decision(score, applicant.income, flags, Rules[parent]) = "APPROVED"
    BY <1>1, <1>2, <1>3, <1>4, <1>7, EligibleApproved
  <2>2. "CRITICAL" \notin flags
    BY <1>7 DEF Eligible
  <2>3. Len(application) \in Nat /\ MaxVelocity \in Nat
    BY LenProperties, IssuanceAssumption
  <2>4. QED
    BY <1>3, <2>1, <2>2, <2>3
<1> HIDE DEF row
<1>8. QED
  BY <1>5, <1>6, <1>7 DEF Confirmed, row
------------------------------------------------------------------------------
(* Issuance implements governance *)

IssuanceTypes ==
    /\ application \in Seq(Application)
    /\ account \in Seq(Account)
    /\ submission \in [Submitters -> Submission]
    /\ together \in BOOLEAN

LEMMA SubmissionFields ==
    ASSUME IssuanceTypes, NEW s \in Submitters
    PROVE  /\ submission[s].at = "counted" =>
                 submission[s].card \in CardProducts /\ submission[s].parent \in CreditProducts
           /\ submission[s].at = "assessed" => submission[s].row \in Application
<1>1. submission[s] \in Submission
  BY DEF IssuanceTypes
<1>2. CASE submission[s] = NoSubmission
  BY <1>2 DEF NoSubmission
<1>3. CASE submission[s] \in [at : {"counted"}, card : CardProducts, parent : CreditProducts]
  BY <1>3
<1>4. CASE submission[s] \in [at : {"assessed"}, row : Application]
  BY <1>4
<1>5. QED
  BY <1>1, <1>2, <1>3, <1>4 DEF Submission

LEMMA StepsGovern ==
    ASSUME IssuanceTypes, [Next]_vars
    PROVE  [ProductsNext]_productVars
<1>1. CASE UNCHANGED vars
  BY <1>1 DEF vars
<1>2. CASE Govern
  BY <1>2 DEF ProductsNext
<1>3. ASSUME NEW s \in Submitters, NEW c \in CardProducts, Submit(s, c)
      PROVE  UNCHANGED productVars
  BY <1>3 DEF Submit
<1>4. ASSUME NEW s \in Submitters, NEW applicant \in Applicants, Assess(s, applicant)
      PROVE  UNCHANGED productVars
  BY <1>4 DEF Assess
<1>5. ASSUME NEW s \in Submitters, Store(s)
      PROVE  [ProductsNext]_productVars
  <2>1. submission[s].row \in Application
    BY <1>5, SubmissionFields DEF Store
  <2>2. submission[s].row.card \in CardProducts
    BY <2>1 DEF Application
  <2>3. Refer(submission[s].row.card) \/ UNCHANGED productVars
    BY <1>5 DEF Store
  <2>4. QED
    BY <2>2, <2>3 DEF ProductsNext
<1>6. ASSUME NEW a \in DOMAIN application, Evaluate(a) \/ Reject(a) \/ Approve(a)
      PROVE  UNCHANGED productVars
  BY <1>6 DEF Evaluate, Reject, Approve
<1>7. ASSUME NEW n \in DOMAIN account, NEW c \in CardProducts, IssueCard(n, c)
      PROVE  ProductsNext
  BY <1>7 DEF IssueCard, ProductsNext
<1>8. CASE Restart
  BY <1>8 DEF Restart, ProductsNext
<1>9. CASE Finished
  BY <1>9 DEF Finished, vars
<1>10. QED
  BY <1>1, <1>2, <1>3, <1>4, <1>5, <1>6, <1>7, <1>8, <1>9 DEF Next
------------------------------------------------------------------------------
(* The invariant of issuance *)

\* What refers to a card product is known to governance.
Referred ==
    /\ \A a \in DOMAIN application : application[a].card \in referenced
    /\ \A n \in DOMAIN account :
          /\ account[n].application \in DOMAIN application
          /\ account[n].card = application[account[n].application].card

AllConfirmed ==
    /\ \A a \in DOMAIN application : Confirmed(application[a])
    /\ \A s \in Submitters : submission[s].at = "assessed" =>
          Confirmed(submission[s].row) /\ submission[s].row.status = "SUBMITTED"

Single ==
    /\ \A m, n \in DOMAIN account : account[m].application = account[n].application => m = n
    /\ \A a \in DOMAIN application :
          application[a].status = "ACCOUNT_CREATED" =>
             \E n \in DOMAIN account : account[n].application = a

\* Unless submissions have been in flight together, one is.
Orderly ==
    ~together =>
       \A s, u \in Submitters :
          submission[s] # NoSubmission /\ submission[u] # NoSubmission => s = u

\* Assessments, too, count against the velocity.
Waiting == {s \in Submitters : submission[s].at = "assessed"}
Crowd == IF together THEN Cardinality(Submitters) ELSE 1
Bounded == Len(application) + Cardinality(Waiting) <= MaxVelocity + Crowd

\* And against the one application in progress for a card product.
WaitingFor(c) == {s \in Submitters : submission[s].at = "assessed" /\ submission[s].row.card = c}
Filed ==
    \A c \in CardProducts : Cardinality(InProgress(c)) + Cardinality(WaitingFor(c)) <= Crowd

\* What is known of rows and submissions.
RowsInv ==
    /\ IssuanceTypes /\ Referred /\ AllConfirmed /\ Single
    /\ Orderly /\ Bounded /\ Filed

IInv == PInv /\ RowsInv

LEMMA Submitting ==
    /\ NoSubmission.at = "none"
    /\ NoSubmission \in Submission
    /\ \A r : r.at \in {"counted", "assessed"} => r # NoSubmission
  BY DEF NoSubmission, Submission

LEMMA Crowds ==
    ASSUME IssuanceTypes
    PROVE  /\ IsFiniteSet(Waiting) /\ Cardinality(Waiting) \in Nat
           /\ Cardinality(Waiting) <= Cardinality(Submitters)
           /\ Cardinality(Submitters) \in Nat
           /\ Crowd \in Nat
<1>1. IsFiniteSet(Submitters) /\ Waiting \in SUBSET Submitters
  BY IssuanceAssumption DEF Waiting
<1>2. IsFiniteSet(Waiting) /\ Cardinality(Waiting) <= Cardinality(Submitters)
  BY <1>1, FS_Subset
<1>3. Cardinality(Submitters) \in Nat /\ Cardinality(Waiting) \in Nat
  BY <1>1, <1>2, FS_CardinalityType
<1>4. QED
  BY <1>2, <1>3 DEF Crowd

LEMMA IssuanceStart ==
    ASSUME Init
    PROVE  IInv
<1>1. PInv
  BY ProductsStart DEF Init
<1>2. /\ DOMAIN application = {} /\ DOMAIN account = {} /\ Len(application) = 0
      /\ application \in Seq(Application) /\ account \in Seq(Account)
  BY DEF Init
<1>3. \A s \in Submitters : submission[s] = NoSubmission /\ submission[s].at = "none"
  BY Submitting DEF Init
<1>4. IssuanceTypes
  BY <1>2, Submitting DEF Init, IssuanceTypes
<1>5. Referred /\ AllConfirmed /\ Single /\ Orderly
  BY <1>2, <1>3 DEF Referred, AllConfirmed, Single, Orderly
<1>6. Bounded
  <2>1. Waiting = {}
    BY <1>3 DEF Waiting
  <2>2. Crowd = 1
    BY DEF Init, Crowd
  <2>3. QED
    BY <1>2, <2>1, <2>2, FS_EmptySet, IssuanceAssumption DEF Bounded
<1>7. Filed
  <2>1. \A c \in CardProducts : InProgress(c) = {} /\ WaitingFor(c) = {}
    BY <1>2, <1>3 DEF InProgress, WaitingFor
  <2>2. Crowd = 1
    BY DEF Init, Crowd
  <2>3. QED
    BY <2>1, <2>2, FS_EmptySet DEF Filed
<1>8. QED
  BY <1>1, <1>4, <1>5, <1>6, <1>7 DEF IInv, RowsInv

LEMMA Finite ==
    ASSUME IssuanceTypes, NEW c
    PROVE  /\ IsFiniteSet(InProgress(c)) /\ Cardinality(InProgress(c)) \in Nat
           /\ IsFiniteSet(WaitingFor(c)) /\ Cardinality(WaitingFor(c)) \in Nat
<1>1. DOMAIN application = 1 .. Len(application) /\ Len(application) \in Nat
  BY LenProperties DEF IssuanceTypes
<1>2. IsFiniteSet(DOMAIN application)
  BY <1>1, FS_Interval
<1>3. IsFiniteSet(InProgress(c))
  BY <1>2, FS_Subset DEF InProgress
<1>4. IsFiniteSet(WaitingFor(c))
  BY IssuanceAssumption, FS_Subset DEF WaitingFor
<1>5. QED
  BY <1>3, <1>4, FS_CardinalityType

\* Two sets shrink under a bound that does not.
LEMMA Sizes ==
    ASSUME NEW S, NEW T, IsFiniteSet(S), IsFiniteSet(T), NEW P \in SUBSET S, NEW Q \in SUBSET T,
           NEW k \in Nat, NEW l \in Nat, k <= l, Cardinality(S) + Cardinality(T) <= k
    PROVE  Cardinality(P) + Cardinality(Q) <= l
<1>1. /\ IsFiniteSet(P) /\ Cardinality(P) <= Cardinality(S)
      /\ IsFiniteSet(Q) /\ Cardinality(Q) <= Cardinality(T)
  BY FS_Subset
<1>2. /\ Cardinality(P) \in Nat /\ Cardinality(Q) \in Nat
      /\ Cardinality(S) \in Nat /\ Cardinality(T) \in Nat
  BY <1>1, FS_CardinalityType
<1>3. QED
  BY <1>1, <1>2

\* No application comes into progress, and no assessment is added.
LEMMA FiledKept ==
    ASSUME IssuanceTypes, Filed, NEW l \in Nat, l = Crowd', Crowd <= l,
           \A c \in CardProducts : InProgress(c)' \subseteq InProgress(c),
           \A c \in CardProducts : WaitingFor(c)' \subseteq WaitingFor(c)
    PROVE  Filed'
<1> SUFFICES ASSUME NEW c \in CardProducts
             PROVE  Cardinality(InProgress(c)') + Cardinality(WaitingFor(c)') <= l
  BY DEF Filed
<1>1. Crowd \in Nat
  BY Crowds
<1>2. PICK P : P = InProgress(c)'
  OBVIOUS
<1>3. PICK Q : Q = WaitingFor(c)'
  OBVIOUS
<1>4. P \in SUBSET InProgress(c) /\ Q \in SUBSET WaitingFor(c)
  BY <1>2, <1>3
<1>5. Cardinality(InProgress(c)) + Cardinality(WaitingFor(c)) <= Crowd
  BY DEF Filed
<1>6. Cardinality(P) + Cardinality(Q) <= l
  BY <1>1, <1>4, <1>5, Finite, Sizes
<1>7. QED
  BY <1>2, <1>3, <1>6

LEMMA RowsUntouched ==
    ASSUME RowsInv, UNCHANGED issuanceVars, referenced \subseteq referenced'
    PROVE  RowsInv'
<1> USE DEF RowsInv, issuanceVars
<1>1. IssuanceTypes' /\ Single' /\ Orderly'
  BY DEF IssuanceTypes, Single, Orderly
<1>2. Referred'
  BY DEF Referred
<1>3. AllConfirmed'
  BY DEF AllConfirmed, Confirmed
<1>4. Waiting' = Waiting /\ Crowd' = Crowd
  BY DEF Waiting, Crowd
<1>5. Bounded'
  BY <1>4 DEF Bounded
<1>6. Filed'
  BY <1>4 DEF Filed, InProgress, WaitingFor
<1>7. QED
  BY <1>1, <1>2, <1>3, <1>5, <1>6

LEMMA SubmitKeeps ==
    ASSUME PInv, RowsInv, NEW s \in Submitters, NEW c \in CardProducts, Submit(s, c)
    PROVE  RowsInv'
<1> DEFINE new == [at |-> "counted", card |-> c, parent |-> cardProduct[c].parent]
<1> USE DEF RowsInv
<1>1. /\ Exists(cardProduct[c]) /\ submission[s] = NoSubmission
      /\ submission' = [submission EXCEPT ![s] = new]
      /\ together' = (together \/ \E u \in Submitters : submission[u] # NoSubmission)
      /\ UNCHANGED <<application, account, referenced>>
  BY DEF Submit, productVars
<1>2. new \in Submission /\ new.at = "counted"
  BY <1>1 DEF Submission, PInv, AllGoverned
<1> HIDE DEF new
<1>3. submission'[s] = new /\ \A u \in Submitters \ {s} : submission'[u] = submission[u]
  BY <1>1 DEF IssuanceTypes
<1>4. IssuanceTypes'
  BY <1>1, <1>2 DEF IssuanceTypes
<1>5. Referred' /\ Single'
  BY <1>1 DEF Referred, Single
<1>6. \A u \in Submitters : submission'[u].at = "assessed" =>
         submission[u].at = "assessed" /\ submission'[u] = submission[u]
  BY <1>2, <1>3
<1>7. AllConfirmed'
  BY <1>1, <1>6 DEF AllConfirmed, Confirmed
<1>8. Orderly'
  <2> SUFFICES ASSUME ~together' PROVE Orderly'
    BY DEF Orderly
  <2>1. ~together /\ \A u \in Submitters : submission[u] = NoSubmission
    BY <1>1
  <2>2. \A t, u \in Submitters :
           submission'[t] # NoSubmission /\ submission'[u] # NoSubmission => t = u
    BY <1>3, <2>1
  <2>3. QED
    BY <2>2 DEF Orderly
<1>9. Crowd <= Crowd' /\ Crowd' \in Nat
  <2>1. IsFiniteSet(Submitters) /\ Submitters # {}
    BY IssuanceAssumption
  <2>2. Cardinality(Submitters) \in Nat \ {0}
    BY <2>1, FS_CardinalityType, FS_EmptySet
  <2>3. together => together'
    BY <1>1
  <2>4. QED
    BY <2>2, <2>3 DEF Crowd
<1>10. Bounded'
  <2>1. Waiting' = Waiting
    BY <1>1, <1>3, <1>6, <1>2, Submitting DEF Waiting
  <2>2. Len(application) \in Nat /\ Len(application') = Len(application)
    BY <1>1, LenProperties DEF IssuanceTypes
  <2>3. QED
    BY <1>9, <2>1, <2>2, Crowds, IssuanceAssumption DEF Bounded
<1>11. Filed'
  <2>1. \A d \in CardProducts : InProgress(d)' \subseteq InProgress(d)
    BY <1>1 DEF InProgress
  <2>2. \A d \in CardProducts : WaitingFor(d)' \subseteq WaitingFor(d)
    BY <1>6 DEF WaitingFor
  <2>3. QED
    BY <1>9, <2>1, <2>2, FiledKept
<1>12. QED
  BY <1>4, <1>5, <1>7, <1>8, <1>10, <1>11

\* An answer removes a submission.
LEMMA Answered ==
    ASSUME IssuanceTypes, NEW s \in Submitters, Answer(s)
    PROVE  /\ submission' \in [Submitters -> Submission]
           /\ submission'[s] = NoSubmission
           /\ \A u \in Submitters \ {s} : submission'[u] = submission[u]
           /\ Waiting' = Waiting \ {s}
<1>1. /\ submission' \in [Submitters -> Submission]
      /\ submission'[s] = NoSubmission
      /\ \A u \in Submitters \ {s} : submission'[u] = submission[u]
  BY Submitting DEF Answer, IssuanceTypes
<1>2. submission'[s].at = "none"
  BY <1>1, Submitting
<1>3. QED
  BY <1>1, <1>2 DEF Waiting

LEMMA AnswerKeepsRows ==
    ASSUME RowsInv, NEW s \in Submitters, Answer(s),
           UNCHANGED <<application, account, referenced, together>>
    PROVE  RowsInv'
<1> USE DEF RowsInv
<1>1. \A u \in Submitters : submission'[u] # NoSubmission => submission'[u] = submission[u]
  BY Answered
<1>2. IssuanceTypes' /\ Referred' /\ Single'
  BY Answered DEF IssuanceTypes, Referred, Single
<1>3. \A u \in Submitters : submission'[u].at = "assessed" => submission'[u] = submission[u]
  BY <1>1, Submitting
<1>4. AllConfirmed'
  BY <1>3 DEF AllConfirmed, Confirmed
<1>5. Orderly'
  BY <1>1 DEF Orderly
<1>6. Bounded'
  <2>1. IsFiniteSet(Waiting') /\ Cardinality(Waiting') <= Cardinality(Waiting)
    BY Crowds, Answered, FS_Subset
  <2>2. Crowd' = Crowd /\ Len(application') = Len(application)
    BY DEF Crowd
  <2>3. Cardinality(Waiting') \in Nat /\ Len(application) \in Nat
    BY <2>1, FS_CardinalityType, LenProperties DEF IssuanceTypes
  <2>4. QED
    BY <2>1, <2>2, <2>3, Crowds, IssuanceAssumption DEF Bounded
<1>7. Filed'
  <2>1. Crowd' = Crowd /\ Crowd \in Nat
    BY Crowds DEF Crowd
  <2>2. \A c \in CardProducts : InProgress(c)' \subseteq InProgress(c)
    BY DEF InProgress
  <2>3. \A c \in CardProducts : WaitingFor(c)' \subseteq WaitingFor(c)
    BY <1>3 DEF WaitingFor
  <2>4. QED
    BY <2>1, <2>2, <2>3, FiledKept
<1>8. QED
  BY <1>2, <1>4, <1>5, <1>6, <1>7

LEMMA AssessKeeps ==
    ASSUME RowsInv, NEW s \in Submitters, NEW applicant \in Applicants, Assess(s, applicant)
    PROVE  RowsInv'
<1> DEFINE row == Assessed(submission[s].card, submission[s].parent, applicant)
           new == [at |-> "assessed", row |-> row]
           accepted == /\ InProgress(row.card) = {} /\ AccountsOf(row.card) = {}
                       /\ Eligible(row.score, row.income, row.flags, row.rules)
<1> USE DEF RowsInv
<1>1. /\ submission[s].at = "counted"
      /\ UNCHANGED <<application, account, referenced, together>>
      /\ IF accepted THEN submission' = [submission EXCEPT ![s] = new] ELSE Answer(s)
  BY DEF Assess, productVars
<1>2. /\ row \in Application /\ row.status = "SUBMITTED"
      /\ Eligible(row.score, row.income, row.flags, row.rules) =>
            Confirmed(row) /\ Len(application) <= MaxVelocity
  BY <1>1, SubmissionFields, AssessedRow DEF IssuanceTypes
<1> HIDE DEF row
<1>3. CASE ~accepted
  BY <1>1, <1>3, AnswerKeepsRows
<1>4. CASE accepted
  <2>1. new \in Submission /\ new.at = "assessed" /\ new.row = row
    BY <1>2 DEF Submission
  <2>2. Confirmed(row) /\ Len(application) <= MaxVelocity /\ InProgress(row.card) = {}
    BY <1>2, <1>4
  <2>3. submission' = [submission EXCEPT ![s] = new]
    BY <1>1, <1>4
  <2> HIDE DEF new, accepted
  <2>4. submission'[s] = new /\ \A u \in Submitters \ {s} : submission'[u] = submission[u]
    BY <2>3 DEF IssuanceTypes
  <2>5. submission[s] # NoSubmission
    BY <1>1, Submitting
  <2>6. IssuanceTypes' /\ Referred' /\ Single'
    BY <1>1, <2>1, <2>3 DEF IssuanceTypes, Referred, Single
  <2>7. AllConfirmed'
    BY <1>1, <1>2, <2>1, <2>2, <2>4 DEF AllConfirmed, Confirmed
  <2>8. Orderly'
    BY <1>1, <2>4, <2>5 DEF Orderly
  <2>9. Cardinality(Waiting') \in Nat /\ Cardinality(Waiting') <= Crowd' /\ IsFiniteSet(Waiting')
    <3>1. CASE together'
      <4>1. IsFiniteSet(Submitters) /\ Waiting' \in SUBSET Submitters
        BY IssuanceAssumption DEF Waiting
      <4>2. IsFiniteSet(Waiting') /\ Cardinality(Waiting') <= Cardinality(Submitters)
        BY <4>1, FS_Subset
      <4>3. QED
        BY <3>1, <4>2, FS_CardinalityType DEF Crowd
    <3>2. CASE ~together'
      <4>1. Waiting' = {s}
        <5>1. \A u \in Submitters : submission'[u] # NoSubmission => u = s
          BY <1>1, <2>4, <2>5, <3>2 DEF Orderly
        <5>2. QED
          BY <2>1, <2>4, <5>1, Submitting DEF Waiting
      <4>2. IsFiniteSet({s}) /\ Cardinality({s}) = 1
        BY FS_Singleton
      <4>3. QED
        BY <3>2, <4>1, <4>2 DEF Crowd
    <3>3. QED
      BY <3>1, <3>2
  <2>10. Crowd' = Crowd /\ Crowd' \in Nat
    BY <1>1, Crowds DEF Crowd
  <2>11. Bounded'
    <3>1. Len(application) \in Nat /\ Len(application') = Len(application)
      BY <1>1, LenProperties DEF IssuanceTypes
    <3>2. QED
      BY <2>2, <2>9, <2>10, <3>1, IssuanceAssumption DEF Bounded
  <2>12. Filed'
    <3> SUFFICES ASSUME NEW c \in CardProducts
                 PROVE  Cardinality(InProgress(c)') + Cardinality(WaitingFor(c)') <= Crowd'
      BY DEF Filed
    <3>1. InProgress(c)' = InProgress(c)
      BY <1>1 DEF InProgress
    <3>2. CASE c = row.card
      <4>1. WaitingFor(c)' \in SUBSET Waiting'
        BY DEF WaitingFor, Waiting
      <4>2. /\ IsFiniteSet(WaitingFor(c)')
            /\ Cardinality(WaitingFor(c)') <= Cardinality(Waiting')
        BY <2>9, <4>1, FS_Subset
      <4>3. Cardinality(WaitingFor(c)') \in Nat
        BY <4>2, FS_CardinalityType
      <4>4. Cardinality(InProgress(c)') = 0
        BY <2>2, <3>1, <3>2, FS_EmptySet
      <4>5. QED
        BY <2>9, <2>10, <4>2, <4>3, <4>4
    <3>3. CASE c # row.card
      <4>1. WaitingFor(c)' = WaitingFor(c)
        BY <1>1, <2>1, <2>4, <3>3 DEF WaitingFor
      <4>2. QED
        BY <2>10, <3>1, <4>1 DEF Filed
    <3>4. QED
      BY <3>2, <3>3
  <2>13. QED
    BY <2>6, <2>7, <2>8, <2>11, <2>12
<1>5. QED
  BY <1>3, <1>4

LEMMA StoreKeeps ==
    ASSUME RowsInv, NEW s \in Submitters, Store(s)
    PROVE  RowsInv'
<1> DEFINE row == submission[s].row
           n == Len(application)
<1> USE DEF RowsInv
<1>1. /\ submission[s].at = "assessed" /\ Answer(s) /\ UNCHANGED <<account, together>>
      /\ IF Exists(cardProduct[row.card])
         THEN application' = Append(application, row) /\ Refer(row.card)
         ELSE UNCHANGED <<application, productVars>>
  BY DEF Store
<1>2. row \in Application /\ Confirmed(row) /\ row.status = "SUBMITTED"
  BY <1>1, SubmissionFields DEF AllConfirmed
<1> HIDE DEF row
<1>3. CASE ~Exists(cardProduct[row.card])
  BY <1>1, <1>3, AnswerKeepsRows DEF productVars
<1>4. CASE Exists(cardProduct[row.card])
  <2>1. application' = Append(application, row) /\ referenced' = referenced \cup {row.card}
    BY <1>1, <1>4 DEF Refer
  <2>2. /\ n \in Nat /\ DOMAIN application = 1 .. n
        /\ application' \in Seq(Application) /\ Len(application') = n + 1
        /\ \A a \in 1 .. n : application'[a] = application[a]
        /\ application'[n + 1] = row
    BY <1>2, <2>1, LenProperties, AppendProperties DEF IssuanceTypes
  <2>3. DOMAIN application' = 1 .. n + 1
    BY <2>2, LenProperties
  <2> HIDE DEF n
  <2>4. \A a \in DOMAIN application' : a \in DOMAIN application \/ a = n + 1
    BY <2>2, <2>3
  <2>5. /\ DOMAIN application \subseteq DOMAIN application'
        /\ \A a \in DOMAIN application : application'[a] = application[a]
    BY <2>2, <2>3
  <2>6. IssuanceTypes'
    BY <1>1, <2>2, Answered DEF IssuanceTypes
  <2>7. Referred'
    <3>1. \A a \in DOMAIN application' : application'[a].card \in referenced'
      BY <2>1, <2>2, <2>4, <2>5 DEF Referred
    <3>2. QED
      BY <1>1, <2>5, <3>1 DEF Referred
  <2>8. \A u \in Submitters : submission'[u] # NoSubmission =>
           u # s /\ submission'[u] = submission[u]
    BY <1>1, Answered
  <2>9. \A u \in Submitters : submission'[u].at = "assessed" =>
           u # s /\ submission'[u] = submission[u]
    BY <2>8, Submitting
  <2>10. AllConfirmed'
    <3>1. \A a \in DOMAIN application' : Confirmed(application'[a])
      BY <1>2, <2>2, <2>4, <2>5 DEF AllConfirmed, Confirmed
    <3>2. \A u \in Submitters : submission'[u].at = "assessed" =>
             Confirmed(submission'[u].row) /\ submission'[u].row.status = "SUBMITTED"
      BY <2>9 DEF AllConfirmed, Confirmed
    <3>3. QED
      BY <3>1, <3>2 DEF AllConfirmed, Confirmed
  <2>11. Single'
    <3>1. \A a \in DOMAIN application' : application'[a].status = "ACCOUNT_CREATED" =>
             \E m \in DOMAIN account : account[m].application = a
      <4>1. ASSUME NEW a \in DOMAIN application', application'[a].status = "ACCOUNT_CREATED"
            PROVE  \E m \in DOMAIN account : account[m].application = a
        <5>1. CASE a \in DOMAIN application
          BY <2>5, <4>1, <5>1 DEF Single
        <5>2. CASE a = n + 1
          BY <1>2, <2>2, <4>1, <5>2
        <5>3. QED
          BY <2>4, <5>1, <5>2
      <4>2. QED
        BY <4>1
    <3>2. QED
      BY <1>1, <3>1 DEF Single
  <2>12. Orderly'
    BY <1>1, <2>8 DEF Orderly
  <2>13. Bounded'
    <3>1. s \in Waiting
      BY <1>1 DEF Waiting
    <3>2. /\ Cardinality(Waiting') = Cardinality(Waiting) - 1
          /\ Cardinality(Waiting) \in Nat
      BY <1>1, <3>1, Crowds, Answered, FS_RemoveElement
    <3>3. Crowd' = Crowd /\ Crowd \in Nat
      BY <1>1, Crowds DEF Crowd
    <3>4. n + Cardinality(Waiting) <= MaxVelocity + Crowd
      BY DEF Bounded, n
    <3>5. QED
      BY <2>2, <3>2, <3>3, <3>4, IssuanceAssumption DEF Bounded
  <2>14. Filed'
    <3> SUFFICES ASSUME NEW c \in CardProducts
                 PROVE  Cardinality(InProgress(c)') + Cardinality(WaitingFor(c)') <= Crowd'
      BY DEF Filed
    <3>1. Crowd' = Crowd /\ Crowd \in Nat
      BY <1>1, Crowds DEF Crowd
    <3>2. Cardinality(InProgress(c)) + Cardinality(WaitingFor(c)) <= Crowd
      BY DEF Filed
    <3>3. WaitingFor(c)' = WaitingFor(c) \ {s}
      BY <1>1, <2>9, Answered DEF WaitingFor
    <3>4. CASE c = row.card
      <4>1. InProgress(c)' = InProgress(c) \cup {n + 1} /\ n + 1 \notin InProgress(c)
        BY <1>2, <2>2, <2>3, <2>4, <2>5, <3>4 DEF InProgress
      <4>2. s \in WaitingFor(c)
        BY <1>1, <3>4 DEF WaitingFor, row
      <4>3. Cardinality(InProgress(c)') = Cardinality(InProgress(c)) + 1
        BY <4>1, Finite, FS_AddElement
      <4>4. Cardinality(WaitingFor(c)') = Cardinality(WaitingFor(c)) - 1
        BY <3>3, <4>2, Finite, FS_RemoveElement
      <4>5. QED
        BY <3>1, <3>2, <4>3, <4>4, Finite
    <3>5. CASE c # row.card
      <4>1. InProgress(c)' = InProgress(c)
        BY <2>2, <2>3, <2>4, <2>5, <3>5 DEF InProgress
      <4>2. WaitingFor(c)' = WaitingFor(c)
        BY <3>3, <3>5 DEF WaitingFor, row
      <4>3. QED
        BY <3>1, <3>2, <4>1, <4>2
    <3>6. QED
      BY <3>4, <3>5
  <2>15. QED
    BY <2>6, <2>7, <2>10, <2>11, <2>12, <2>13, <2>14
<1>5. QED
  BY <1>3, <1>4

\* A new status: nothing else of the rows changes.
LEMMA StatusSet ==
    ASSUME IssuanceTypes, NEW a \in DOMAIN application, NEW status \in ApplicationStatuses,
           SetStatus(a, status)
    PROVE  /\ application' \in Seq(Application)
           /\ DOMAIN application' = DOMAIN application
           /\ Len(application') = Len(application)
           /\ \A b \in DOMAIN application :
                 /\ application'[b].card = application[b].card
                 /\ application'[b].score = application[b].score
                 /\ application'[b].income = application[b].income
                 /\ application'[b].flags = application[b].flags
                 /\ application'[b].rules = application[b].rules
                 /\ application'[b].status = IF b = a THEN status ELSE application[b].status
<1> DEFINE row == [application[a] EXCEPT !.status = status]
<1>1. /\ application \in Seq(Application) /\ DOMAIN application = 1 .. Len(application)
      /\ a \in 1 .. Len(application) /\ application[a] \in Application
  BY LenProperties, ElementOfSeq DEF IssuanceTypes
<1>2. application' = [application EXCEPT ![a] = row]
  BY DEF SetStatus
<1>3. /\ row \in Application /\ row.status = status /\ row.card = application[a].card
      /\ row.score = application[a].score /\ row.income = application[a].income
      /\ row.flags = application[a].flags /\ row.rules = application[a].rules
  BY <1>1 DEF Application
<1> HIDE DEF row
<1>4. /\ application' \in Seq(Application) /\ Len(application') = Len(application)
      /\ \A b \in 1 .. Len(application) :
            application'[b] = IF b = a THEN row ELSE application[b]
  BY <1>1, <1>2, <1>3, ExceptSeq
<1>5. DOMAIN application' = 1 .. Len(application)
  BY <1>4, LenProperties
<1>6. QED
  BY <1>1, <1>3, <1>4, <1>5

LEMMA DecisionKeeps ==
    ASSUME RowsInv, NEW a \in DOMAIN application, NEW status \in {"APPROVED", "REJECTED"},
           SetStatus(a, status), UNCHANGED <<productVars, account, submission, together>>
    PROVE  RowsInv'
<1> USE DEF RowsInv
<1>1. status \in ApplicationStatuses
  BY DEF ApplicationStatuses
<1>2. referenced' = referenced
  BY DEF productVars
<1>3. IssuanceTypes' /\ Referred' /\ AllConfirmed' /\ Single'
  <2>1. /\ application' \in Seq(Application) /\ DOMAIN application' = DOMAIN application
        /\ \A b \in DOMAIN application :
              /\ application'[b].card = application[b].card
              /\ Confirmed(application[b]) => Confirmed(application'[b])
              /\ application'[b].status = "ACCOUNT_CREATED" =>
                    application[b].status = "ACCOUNT_CREATED"
    BY <1>1, StatusSet DEF Confirmed
  <2>2. IssuanceTypes' /\ Referred'
    BY <1>2, <2>1 DEF IssuanceTypes, Referred
  <2>3. AllConfirmed'
    <3>1. \A b \in DOMAIN application' : Confirmed(application'[b])
      BY <2>1 DEF AllConfirmed
    <3>2. QED
      BY <3>1 DEF AllConfirmed, Confirmed
  <2>4. Single'
    BY <2>1 DEF Single
  <2>5. QED
    BY <2>2, <2>3, <2>4
<1>4. Orderly'
  BY DEF Orderly
<1>5. Bounded'
  BY <1>1, StatusSet DEF Bounded, Waiting, Crowd
<1>6. Filed'
  <2>1. Crowd' = Crowd /\ Crowd \in Nat
    BY Crowds DEF Crowd
  <2>2. /\ DOMAIN application' = DOMAIN application
        /\ \A b \in DOMAIN application :
              /\ application'[b].card = application[b].card
              /\ application'[b].status = "SUBMITTED" => application[b].status = "SUBMITTED"
    BY <1>1, StatusSet
  <2>3. \A c \in CardProducts : InProgress(c)' \subseteq InProgress(c)
    BY <2>2 DEF InProgress
  <2>4. \A c \in CardProducts : WaitingFor(c)' \subseteq WaitingFor(c)
    BY DEF WaitingFor
  <2>5. QED
    BY <2>1, <2>3, <2>4, FiledKept
<1>7. QED
  BY <1>3, <1>4, <1>5, <1>6

LEMMA ApproveKeeps ==
    ASSUME RowsInv, NEW a \in DOMAIN application, Approve(a)
    PROVE  RowsInv'
<1> DEFINE new == [application |-> a, card |-> application[a].card]
           n == Len(account)
<1> USE DEF RowsInv
<1>1. /\ \A m \in DOMAIN account : account[m].application # a
      /\ account' = Append(account, new) /\ SetStatus(a, "ACCOUNT_CREATED")
      /\ UNCHANGED <<referenced, submission, together>>
  BY DEF Approve, productVars
<1>2. "ACCOUNT_CREATED" \in ApplicationStatuses
  BY DEF ApplicationStatuses
<1>3. /\ application' \in Seq(Application) /\ DOMAIN application' = DOMAIN application
      /\ Len(application') = Len(application)
      /\ \A b \in DOMAIN application :
            /\ application'[b].card = application[b].card
            /\ Confirmed(application[b]) => Confirmed(application'[b])
            /\ b # a => application'[b].status = application[b].status
            /\ b = a => application'[b].status = "ACCOUNT_CREATED"
  BY <1>1, <1>2, StatusSet DEF Confirmed
<1>4. new \in Account
  <2>1. /\ DOMAIN application = 1 .. Len(application) /\ Len(application) \in Nat
        /\ application[a] \in Application
    BY LenProperties, ElementOfSeq DEF IssuanceTypes
  <2>2. a \in Nat
    BY <2>1
  <2>3. QED
    BY <2>1, <2>2 DEF Account, Application
<1>5. new.application = a /\ new.card = application[a].card
  OBVIOUS
<1> HIDE DEF new
<1>6. /\ n \in Nat /\ DOMAIN account = 1 .. n
      /\ account' \in Seq(Account) /\ Len(account') = n + 1
      /\ \A m \in 1 .. n : account'[m] = account[m]
      /\ account'[n + 1] = new
  BY <1>1, <1>4, LenProperties, AppendProperties DEF IssuanceTypes
<1>7. DOMAIN account' = 1 .. n + 1
  BY <1>6, LenProperties
<1> HIDE DEF n
<1>8. /\ \A m \in DOMAIN account' : m \in DOMAIN account \/ m = n + 1
      /\ DOMAIN account \subseteq DOMAIN account' /\ n + 1 \in DOMAIN account'
      /\ \A m \in DOMAIN account : account'[m] = account[m]
  BY <1>6, <1>7
<1>9. IssuanceTypes'
  BY <1>1, <1>3, <1>6 DEF IssuanceTypes
<1>10. Referred'
  <2>1. \A m \in DOMAIN account' :
           /\ account'[m].application \in DOMAIN application
           /\ account'[m].card = application[account'[m].application].card
    BY <1>5, <1>6, <1>8 DEF Referred
  <2>2. QED
    BY <1>1, <1>3, <2>1 DEF Referred
<1>11. AllConfirmed'
  <2>1. \A b \in DOMAIN application' : Confirmed(application'[b])
    BY <1>3 DEF AllConfirmed
  <2>2. \A s \in Submitters : submission'[s].at = "assessed" =>
           Confirmed(submission'[s].row) /\ submission'[s].row.status = "SUBMITTED"
    BY <1>1 DEF AllConfirmed
  <2>3. QED
    BY <2>1, <2>2 DEF AllConfirmed, Confirmed
<1>12. Single'
  <2>1. ASSUME NEW l \in DOMAIN account', NEW m \in DOMAIN account',
               account'[l].application = account'[m].application
        PROVE  l = m
    <3>1. CASE l \in DOMAIN account /\ m \in DOMAIN account
      BY <1>8, <2>1, <3>1 DEF Single
    <3>2. CASE l = n + 1 /\ m \in DOMAIN account
      BY <1>1, <1>5, <1>6, <1>8, <2>1, <3>2
    <3>3. CASE l \in DOMAIN account /\ m = n + 1
      BY <1>1, <1>5, <1>6, <1>8, <2>1, <3>3
    <3>4. QED
      BY <1>8, <3>1, <3>2, <3>3
  <2>2. ASSUME NEW b \in DOMAIN application', application'[b].status = "ACCOUNT_CREATED"
        PROVE  \E m \in DOMAIN account' : account'[m].application = b
    <3>1. CASE b = a
      BY <1>5, <1>6, <1>8, <3>1
    <3>2. CASE b # a
      <4>1. \E m \in DOMAIN account : account[m].application = b
        BY <1>3, <2>2, <3>2 DEF Single
      <4>2. QED
        BY <1>8, <4>1
    <3>3. QED
      BY <3>1, <3>2
  <2>3. QED
    BY <2>1, <2>2 DEF Single
<1>13. Orderly'
  BY <1>1 DEF Orderly
<1>14. Bounded'
  <2>1. Waiting' = Waiting /\ Crowd' = Crowd
    BY <1>1 DEF Waiting, Crowd
  <2>2. QED
    BY <1>3, <2>1 DEF Bounded
<1>15. Filed'
  <2>1. Crowd' = Crowd /\ Crowd \in Nat
    BY <1>1, Crowds DEF Crowd
  <2>2. \A b \in DOMAIN application :
           application'[b].status = "SUBMITTED" => application[b].status = "SUBMITTED"
    BY <1>3
  <2>3. \A c \in CardProducts : InProgress(c)' \subseteq InProgress(c)
    BY <1>3, <2>2 DEF InProgress
  <2>4. \A c \in CardProducts : WaitingFor(c)' \subseteq WaitingFor(c)
    BY <1>1 DEF WaitingFor
  <2>5. QED
    BY <2>1, <2>3, <2>4, FiledKept
<1>16. QED
  BY <1>9, <1>10, <1>11, <1>12, <1>13, <1>14, <1>15

LEMMA RestartKeeps ==
    ASSUME RowsInv, Restart
    PROVE  RowsInv'
<1> USE DEF RowsInv
<1>1. /\ \A s \in Submitters : submission'[s] = NoSubmission /\ submission'[s].at = "none"
      /\ submission' \in [Submitters -> Submission]
      /\ UNCHANGED <<application, account, together, referenced>>
  BY Submitting DEF Restart, Stop
<1>2. IssuanceTypes' /\ Referred' /\ Single' /\ Orderly'
  BY <1>1 DEF IssuanceTypes, Referred, Single, Orderly
<1>3. AllConfirmed'
  BY <1>1 DEF AllConfirmed, Confirmed
<1>4. Bounded'
  <2>1. Waiting' = {}
    BY <1>1 DEF Waiting
  <2>2. Cardinality(Waiting') = 0
    BY <2>1, FS_EmptySet
  <2>3. Crowd' = Crowd /\ Len(application') = Len(application) /\ Len(application) \in Nat
    BY <1>1, LenProperties DEF Crowd, IssuanceTypes
  <2>4. QED
    BY <2>2, <2>3, Crowds, IssuanceAssumption DEF Bounded
<1>5. Filed'
  <2>1. Crowd' = Crowd /\ Crowd \in Nat
    BY <1>1, Crowds DEF Crowd
  <2>2. \A c \in CardProducts : InProgress(c)' \subseteq InProgress(c)
    BY <1>1 DEF InProgress
  <2>3. \A c \in CardProducts : WaitingFor(c)' \subseteq WaitingFor(c)
    BY <1>1 DEF WaitingFor
  <2>4. QED
    BY <2>1, <2>2, <2>3, FiledKept
<1>6. QED
  BY <1>2, <1>3, <1>4, <1>5

LEMMA GovernRefers ==
    ASSUME Govern
    PROVE  referenced' = referenced
  BY DEF Govern, CreateCredit, DecideCredit, AddCard, DeleteCredit, DecideCard, DeleteCard, Begin,
         CommitCreditDecision, CommitCardDecision, CommitCard, CommitCreditDeletion,
         CommitCardDeletion

LEMMA IssuanceStepKeeps ==
    ASSUME IInv, [Next]_vars
    PROVE  IInv'
<1>1. PInv /\ RowsInv
  BY DEF IInv
<1>2. PInv'
  BY <1>1, StepsGovern, ProductsStepKeeps DEF RowsInv
<1>3. RowsInv'
  <2>1. CASE UNCHANGED vars \/ Finished
    BY <1>1, <2>1, RowsUntouched DEF vars, Finished, productVars
  <2>2. CASE Govern /\ UNCHANGED issuanceVars
    BY <1>1, <2>2, RowsUntouched, GovernRefers
  <2>3. ASSUME NEW s \in Submitters, NEW c \in CardProducts, Submit(s, c)
        PROVE  RowsInv'
    BY <1>1, <2>3, SubmitKeeps
  <2>4. ASSUME NEW s \in Submitters, NEW applicant \in Applicants, Assess(s, applicant)
        PROVE  RowsInv'
    BY <1>1, <2>4, AssessKeeps
  <2>5. ASSUME NEW s \in Submitters, Store(s)
        PROVE  RowsInv'
    BY <1>1, <2>5, StoreKeeps
  <2>6. ASSUME NEW a \in DOMAIN application, Evaluate(a) \/ Reject(a)
        PROVE  RowsInv'
    <3>1. \E status \in {"APPROVED", "REJECTED"} :
             SetStatus(a, status) /\ UNCHANGED <<productVars, account, submission, together>>
      BY <2>6 DEF Evaluate, Reject, Decision
    <3>2. QED
      BY <1>1, <3>1, DecisionKeeps
  <2>7. ASSUME NEW a \in DOMAIN application, Approve(a)
        PROVE  RowsInv'
    BY <1>1, <2>7, ApproveKeeps
  <2>8. ASSUME NEW n \in DOMAIN account, NEW c \in CardProducts, IssueCard(n, c)
        PROVE  RowsInv'
    BY <1>1, <2>8, RowsUntouched DEF IssueCard, Refer
  <2>9. CASE Restart
    BY <1>1, <2>9, RestartKeeps
  <2>10. QED
    BY <2>1, <2>2, <2>3, <2>4, <2>5, <2>6, <2>7, <2>8, <2>9 DEF Next
<1>4. QED
  BY <1>2, <1>3 DEF IInv
------------------------------------------------------------------------------
(* Theorems about issuance *)

LEMMA AtMostOne ==
    ASSUME NEW S, \A x, y \in S : x = y
    PROVE  Cardinality(S) <= 1
<1>1. CASE S = {}
  BY <1>1, FS_EmptySet
<1>2. ASSUME NEW x \in S
      PROVE  Cardinality(S) <= 1
  <2>1. S = {x}
    BY <1>2
  <2>2. Cardinality({x}) = 1
    BY FS_Singleton
  <2>3. QED
    BY <2>1, <2>2
<1>3. QED
  BY <1>1, <1>2

LEMMA IssuanceInvariant == Spec => []IInv
<1>1. Init => IInv
  BY IssuanceStart
<1>2. IInv /\ [Next]_vars => IInv'
  BY IssuanceStepKeeps
<1>3. QED
  BY <1>1, <1>2, PTL DEF Spec

\* Every step of the whole is a step of governance or none of its business:
\* what is proved of the products holds while applications refer to them.
THEOREM ImplementsProducts == Spec => ProductsSpec
<1>1. Init => ProductsInit
  BY DEF Init
<1>2. IInv /\ [Next]_vars => [ProductsNext]_productVars
  BY StepsGovern DEF IInv, RowsInv
<1>3. QED
  BY <1>1, <1>2, IssuanceInvariant, PTL DEF Spec, ProductsSpec

\* Applications, accounts and submissions have the values of their columns.
THEOREM TypeCorrect == Spec => []TypeOK
<1>1. IInv => TypeOK
  BY DEF IInv, RowsInv, PInv, IssuanceTypes, TypeOK
<1>2. QED
  BY <1>1, IssuanceInvariant, PTL

\* What run_engines_pre_assessment let pass, evaluate_application approves.
THEOREM EvaluationsConfirm == Spec => []EvaluationConfirms
<1>1. IInv => EvaluationConfirms
  BY DEF IInv, RowsInv, AllConfirmed, Confirmed, EvaluationConfirms
<1>2. QED
  BY <1>1, IssuanceInvariant, PTL

\* An application has one account at most, and one if its status says so.
THEOREM OneAccountPerApplication == Spec => []OneAccountEach
<1>1. IInv => OneAccountEach
  <2> SUFFICES ASSUME IInv, NEW a \in DOMAIN application
               PROVE  LET accounts == {n \in DOMAIN account : account[n].application = a}
                      IN /\ Cardinality(accounts) <= 1
                         /\ application[a].status = "ACCOUNT_CREATED" => accounts # {}
    BY DEF OneAccountEach
  <2> DEFINE accounts == {n \in DOMAIN account : account[n].application = a}
  <2>1. \A m, n \in accounts : m = n
    BY DEF IInv, RowsInv, Single
  <2>2. Cardinality(accounts) <= 1
    BY <2>1, AtMostOne
  <2>3. application[a].status = "ACCOUNT_CREATED" => accounts # {}
    BY DEF IInv, RowsInv, Single
  <2>4. QED
    BY <2>2, <2>3
<1>2. QED
  BY <1>1, IssuanceInvariant, PTL

\* The product of an application or of an account is there.
THEOREM ProductsStay == Spec => []ProductsKept
<1>1. IInv => ProductsKept
  BY DEF IInv, RowsInv, PInv, Referred, NoOrphans, ProductsKept
<1>2. QED
  BY <1>1, IssuanceInvariant, PTL

\* However many are submitted, evaluated, rejected and approved at a time, the
\* checks of the velocity and of an application in progress bound them by what
\* submissions are in flight.
THEOREM ApplicationsLimited == Spec => []ApplicationsBounded
<1>1. IInv => ApplicationsBounded
  <2> SUFFICES ASSUME IInv
               PROVE  /\ Len(application) <= MaxVelocity + Crowd
                      /\ \A c \in CardProducts : Cardinality(InProgress(c)) <= Crowd
    BY DEF ApplicationsBounded, Crowd
  <2>1. Len(application) \in Nat /\ IssuanceTypes /\ Bounded /\ Filed
    BY LenProperties DEF IInv, RowsInv, IssuanceTypes
  <2>2. Len(application) <= MaxVelocity + Crowd
    BY <2>1, Crowds, IssuanceAssumption DEF Bounded
  <2>3. \A c \in CardProducts : Cardinality(InProgress(c)) <= Crowd
    BY <2>1, Crowds, Finite DEF Filed
  <2>4. QED
    BY <2>2, <2>3
<1>2. QED
  BY <1>1, IssuanceInvariant, PTL
==============================================================================
