------------------------- MODULE CardLifecycleProofs -------------------------
(***************************************************************************)
(* An account and its cards, for any number of cards, sessions, threads.   *)
(*                                                                         *)
(* Administration of the account, however its threads overlap: the limit   *)
(* and the available credit never part; a COMMIT is an atomic step of      *)
(* AtomicAccount, or overwrites a change of the same column; and what is   *)
(* overwritten is all that the ledger does not explain of the limit.       *)
(* These theorems are about Spec, the specification of AccountAdmin alone. *)
(*                                                                         *)
(* The cards: each theorem rests on LoopCurrent: what a command has read   *)
(* of its card still holds at its COMMIT, because only the event loop      *)
(* changes a card that exists.  Threads do change the account in between,  *)
(* which AccountFollowsCard has to live with.                              *)
(***************************************************************************)
EXTENDS CardLifecycle, FiniteSetTheorems, TLAPS

------------------------------------------------------------------------------
(* Administration of the account *)

\* Storing what is a whole number of paise already changes nothing.
LEMMA RoundedExact == ASSUME NEW n \in Int PROVE Atomic!Rounded(Exact(n)) = n
  BY DEF Atomic!Rounded, Atomic!Stored, Exact

\* A stored amount is an integer, and not negative if what is stored is not.
LEMMA RoundedType ==
    ASSUME NEW x \in Int
    PROVE  Atomic!Rounded(x) \in Int /\ (x >= 0 => Atomic!Rounded(x) \in Nat)
  BY DEF Atomic!Rounded, Atomic!Stored

\* A limit and the entry for its change are rounded apart by a paisa at most.
LEMMA RoundedDifference ==
    ASSUME NEW new \in Nat, NEW old \in Nat
    PROVE  Atomic!Rounded(new) - old - Atomic!Rounded(new - Exact(old)) \in {0, 1}
  BY DEF Atomic!Rounded, Atomic!Stored, Exact

\* The row update_limit computes.
LEMMA WithLimitRow ==
    ASSUME NEW r \in AccountRow, NEW new \in Nat
    PROVE  /\ Atomic!WithLimit(r, new) \in AccountRow
           /\ Atomic!WithLimit(r, new).status = r.status
           /\ Atomic!WithLimit(r, new).limit = Atomic!Rounded(new)
           /\ r.available = r.limit =>
                Atomic!WithLimit(r, new).available = Atomic!Rounded(new)
           /\ Atomic!LimitChange(r, new) \in Int
<1> DEFINE exact == Atomic!Exact(r.available) + new - Atomic!Exact(r.limit)
<1>1. exact \in Int /\ new - Atomic!Exact(r.limit) \in Int
  BY DEF AccountRow, Atomic!Exact
<1>2. r.available = r.limit => exact = new
  BY DEF AccountRow, Atomic!Exact
<1>3. Atomic!Rounded(new) \in Nat /\ Atomic!Rounded(exact) \in Int
  BY <1>1, RoundedType
<1>4. Atomic!Rounded(new - Atomic!Exact(r.limit)) \in Int
  BY <1>1, RoundedType
<1>5. Atomic!WithLimit(r, new) =
        [r EXCEPT !.limit = Atomic!Rounded(new), !.available = Atomic!Rounded(exact)]
  BY DEF Atomic!WithLimit
<1> HIDE DEF exact
<1>6. QED
  BY <1>2, <1>3, <1>4, <1>5 DEF AccountRow, Atomic!LimitChange

\* A thread's step and the others' steps, told apart once for all proofs.
LEMMA Requested ==
    ASSUME TypeOK, NEW t \in Threads
    PROVE  /\ request[t].command = "limit" => request[t].limit \in Nat
           /\ request[t].command = "limit" => request[t].limit \in LimitRequests
           /\ request[t].command = "status" => request[t].status \in AccountStatuses
           /\ request[t].command \in {"limit", "status"} => request[t] # NoRequest
  BY AccountAdminAssumption DEF TypeOK, Request, NoRequest

LEMMA NewAccountRow == Atomic!NewAccount \in AccountRow
  BY AccountAdminAssumption DEF Atomic!NewAccount, AccountRow, AccountStatuses

LEMMA TypeStep == TypeOK /\ [Next]_adminVars => TypeOK'
<1> SUFFICES ASSUME TypeOK, [Next]_adminVars PROVE TypeOK'
  OBVIOUS
<1> USE DEF TypeOK
<1>1. ASSUME NEW t \in Threads, NEW req \in Request, Read(t, req) PROVE TypeOK'
  BY <1>1 DEF Read
<1>2. ASSUME NEW t \in Threads, NEW new \in LimitRequests, ReadForLimit(t, new)
      PROVE  TypeOK'
  BY <1>1, <1>2 DEF ReadForLimit, Request
<1>3. ASSUME NEW t \in Threads, NEW new, ReadForStatus(t, new) PROVE TypeOK'
  <2>1. new \in AccountStatuses
    BY <1>3 DEF ReadForStatus, ValidTransitions, AccountRow, AccountStatuses
  <2>2. QED
    BY <1>1, <1>3, <2>1 DEF ReadForStatus, Request
<1>4. ASSUME NEW t \in Threads, Done(t)
      PROVE  request' \in [Threads -> Request] /\ row' \in [Threads -> AccountRow]
  BY <1>4, NewAccountRow DEF Done, Request
<1>5. ASSUME NEW t \in Threads, CommitLimit(t) PROVE TypeOK'
  <2> DEFINE new == request[t].limit
             written == Atomic!WithLimit(row[t], new)
  <2>1. new \in Nat
    BY <1>5, Requested DEF CommitLimit
  <2>2. written \in AccountRow /\ Atomic!LimitChange(row[t], new) \in Int
    BY <2>1, WithLimitRow
  <2>3. account' \in AccountRow
    BY <1>5, <2>2 DEF CommitLimit, AccountRow
  <2>4. ledger' \in [entries : Nat, total : Int]
    BY <1>5, <2>2 DEF CommitLimit, Atomic!Entered
  <2>5. undone' \in Int
    BY <1>5 DEF CommitLimit, AccountRow
  <2>6. QED
    BY <1>4, <1>5, <2>3, <2>4, <2>5 DEF CommitLimit
<1>6. ASSUME NEW t \in Threads, CommitStatus(t) PROVE TypeOK'
  <2>1. account' \in AccountRow
    BY <1>6, Requested DEF CommitStatus, AccountRow
  <2>2. ledger' \in [entries : Nat, total : Int]
    BY <1>6 DEF CommitStatus, Atomic!Entered
  <2>3. QED
    BY <1>4, <1>6, <2>1, <2>2 DEF CommitStatus
<1>7. ASSUME Restart PROVE TypeOK'
  BY <1>7, NewAccountRow DEF Restart, Request
<1>8. ASSUME Finished \/ UNCHANGED adminVars PROVE TypeOK'
  BY <1>8 DEF Finished, adminVars
<1>9. QED
  BY <1>2, <1>3, <1>5, <1>6, <1>7, <1>8 DEF Next, ReadForFreeze

\* The types of the row, the ledger and the requests, in every state.
THEOREM TypeCorrect == Spec => []TypeOK
<1>1. Init => TypeOK
  BY NewAccountRow DEF Init, TypeOK, Request
<1>2. QED
  BY <1>1, TypeStep, PTL DEF Spec

\* What threads have read obeys AvailableFollowsLimit as well.
RowsFollow == \A t \in Threads : row[t].available = row[t].limit

\* Limit and available credit agree whatever threads overwrite each other.
THEOREM AvailableFollows == Spec => [](AvailableFollowsLimit /\ RowsFollow)
<1> DEFINE FInv == TypeOK /\ AvailableFollowsLimit /\ RowsFollow
<1> USE DEF AvailableFollowsLimit, RowsFollow
<1>1. Init => FInv
  BY NewAccountRow DEF Init, TypeOK, Request, Atomic!NewAccount
<1>2. FInv /\ [Next]_adminVars => FInv'
  <2> SUFFICES ASSUME FInv, [Next]_adminVars
               PROVE  AvailableFollowsLimit' /\ RowsFollow'
    BY TypeStep
  <2>1. TypeOK
    OBVIOUS
  <2>2. ASSUME NEW t \in Threads, Done(t) PROVE RowsFollow'
    BY <2>1, <2>2 DEF Done, TypeOK, Atomic!NewAccount
  <2>3. ASSUME NEW t \in Threads, NEW req, Read(t, req)
        PROVE  AvailableFollowsLimit' /\ RowsFollow'
    BY <2>1, <2>3 DEF Read, TypeOK
  <2>4. ASSUME NEW t \in Threads, CommitLimit(t)
        PROVE  AvailableFollowsLimit' /\ RowsFollow'
    <3> DEFINE new == request[t].limit
               written == Atomic!WithLimit(row[t], new)
    <3>1. new \in Nat /\ row[t] \in AccountRow
      BY <2>1, <2>4, Requested DEF CommitLimit, TypeOK
    <3>2. written.limit = written.available
      BY <3>1, WithLimitRow
    <3>3. account.limit = account.available /\ account \in AccountRow
      BY <2>1 DEF TypeOK
    <3>4. \/ account' = account
          \/ account' = [account EXCEPT !.limit = written.limit,
                                        !.available = written.available]
      BY <2>4 DEF CommitLimit
    <3> HIDE DEF written
    <3>5. account'.available = account'.limit
      BY <3>2, <3>3, <3>4 DEF AccountRow
    <3>6. QED
      BY <2>2, <2>4, <3>5 DEF CommitLimit
  <2>5. ASSUME NEW t \in Threads, CommitStatus(t)
        PROVE  AvailableFollowsLimit' /\ RowsFollow'
    <3>1. account'.available = account'.limit
      BY <2>1, <2>5 DEF CommitStatus, TypeOK, AccountRow
    <3>2. QED
      BY <2>2, <2>5, <3>1 DEF CommitStatus
  <2>6. ASSUME Restart PROVE AvailableFollowsLimit' /\ RowsFollow'
    BY <2>6 DEF Restart, Atomic!NewAccount
  <2>7. ASSUME Finished \/ UNCHANGED adminVars
        PROVE  AvailableFollowsLimit' /\ RowsFollow'
    BY <2>7 DEF Finished, adminVars
  <2>8. QED
    BY <2>3, <2>4, <2>5, <2>6, <2>7
       DEF Next, ReadForLimit, ReadForStatus, ReadForFreeze
<1>3. QED
  BY <1>1, <1>2, PTL DEF Spec
------------------------------------------------------------------------------
(* Threads that overlap *)

\* Opening limit, ledger and overwritten changes explain the limit, up to a
\* paisa per entry.
THEOREM LedgerExplains == Spec => []LedgerExplainsLimit
<1> USE DEF LedgerExplainsLimit
<1>1. Init => LedgerExplainsLimit
  BY AccountAdminAssumption DEF Init, Atomic!NewAccount
<1>2. TypeOK /\ LedgerExplainsLimit /\ [Next]_adminVars => LedgerExplainsLimit'
  <2> SUFFICES ASSUME TypeOK, LedgerExplainsLimit, [Next]_adminVars
               PROVE  LedgerExplainsLimit'
    OBVIOUS
  <2>1. ASSUME NEW t \in Threads, CommitLimit(t) PROVE LedgerExplainsLimit'
    <3> DEFINE new == request[t].limit
               change == Atomic!Rounded(new - Exact(row[t].limit))
    <3>1. /\ new \in Nat /\ row[t] \in AccountRow /\ account \in AccountRow
          /\ row[t].limit \in Nat /\ account.limit \in Nat
      BY <2>1, Requested DEF CommitLimit, TypeOK, AccountRow
    <3>2. ledger' = [entries |-> ledger.entries + 1, total |-> ledger.total + change]
      BY <2>1 DEF CommitLimit, Atomic!Entered, Atomic!LimitChange, Exact, Atomic!Exact
    <3>3. change \in Int
      BY <3>1, RoundedType DEF Exact
    <3>4. CASE new = Exact(row[t].limit) /\ UNCHANGED <<account, undone>>
      <4>1. change = 0
        BY <3>1, <3>4 DEF Exact, Atomic!Rounded, Atomic!Stored
      <4> HIDE DEF change, new
      <4>2. QED
        BY <3>1, <3>2, <3>4, <4>1, AccountAdminAssumption DEF TypeOK
    <3>5. CASE /\ account'.limit = Atomic!Rounded(new)
               /\ undone' = undone + row[t].limit - account.limit
      <4>1. Atomic!Rounded(new) - row[t].limit - change \in {0, 1}
        BY <3>1, RoundedDifference
      <4>2. Atomic!Rounded(new) \in Int
        BY <3>1, RoundedType
      <4> HIDE DEF change, new
      <4>3. QED
        BY <3>1, <3>2, <3>3, <3>5, <4>1, <4>2, AccountAdminAssumption DEF TypeOK
    <3>6. QED
      BY <2>1, <3>1, <3>4, <3>5, WithLimitRow DEF CommitLimit, AccountRow
  <2>2. ASSUME NEW t \in Threads, CommitStatus(t) PROVE LedgerExplainsLimit'
    BY <2>2, AccountAdminAssumption
       DEF CommitStatus, Atomic!Entered, TypeOK, AccountRow
  <2>3. ASSUME UNCHANGED <<account, ledger, undone>> PROVE LedgerExplainsLimit'
    BY <2>3
  <2>4. QED
    BY <2>1, <2>2, <2>3 DEF Next, ReadForLimit, ReadForStatus, ReadForFreeze,
       Read, Restart, Finished, adminVars
<1>3. QED
  BY <1>1, <1>2, TypeCorrect, PTL DEF Spec

\* A thread may make the transition it wants from the status it read.
RowsChecked == \A t \in Threads :
    request[t].command = "status" => request[t].status \in ValidTransitions[row[t].status]

\* What a thread has read when it commits: a row whose columns agree and from
\* which its transition is allowed.
AInv == TypeOK /\ AvailableFollowsLimit /\ RowsFollow /\ RowsChecked

\* Threads read a row that obeys all this.
LEMMA CheckedStep == AInv /\ [Next]_adminVars => RowsChecked'
<1> SUFFICES ASSUME AInv, [Next]_adminVars PROVE RowsChecked'
  OBVIOUS
<1> USE DEF AInv, RowsChecked
<1>1. ASSUME NEW t \in Threads, NEW req, Read(t, req),
             req.command = "status" => req.status \in ValidTransitions[account.status]
      PROVE  RowsChecked'
  BY <1>1 DEF Read, TypeOK
<1>2. ASSUME NEW t \in Threads, NEW new \in LimitRequests, ReadForLimit(t, new)
      PROVE  RowsChecked'
  BY <1>1, <1>2 DEF ReadForLimit
<1>3. ASSUME NEW t \in Threads, NEW new, ReadForStatus(t, new)
      PROVE  RowsChecked'
  BY <1>1, <1>3 DEF ReadForStatus
<1>4. ASSUME NEW t \in Threads, Done(t)
      PROVE  RowsChecked'
  BY <1>4 DEF Done, TypeOK, NoRequest
<1>5. ASSUME NEW t \in Threads, CommitLimit(t) \/ CommitStatus(t)
      PROVE  RowsChecked'
  BY <1>4, <1>5 DEF CommitLimit, CommitStatus
<1>6. ASSUME Restart PROVE RowsChecked'
  BY <1>6 DEF Restart, NoRequest
<1>7. ASSUME Finished \/ UNCHANGED adminVars PROVE RowsChecked'
  BY <1>7 DEF Finished, adminVars
<1>8. QED
  BY <1>2, <1>3, <1>5, <1>6, <1>7 DEF Next, ReadForFreeze

\* What SetLimit writes when the limit asked for is the one there is.
LEMMA SameLimit ==
    ASSUME NEW r \in AccountRow, r.available = r.limit
    PROVE  Atomic!WithLimit(r, Exact(r.limit)) = r
<1>1. r.limit \in Nat /\ Atomic!Rounded(Exact(r.limit)) = r.limit
  BY RoundedExact DEF AccountRow
<1>2. Atomic!Exact(r.available) + Exact(r.limit) - Atomic!Exact(r.limit) = Exact(r.limit)
  BY <1>1 DEF Exact, Atomic!Exact
<1>3. Atomic!WithLimit(r, Exact(r.limit)) = [r EXCEPT !.limit = r.limit, !.available = r.limit]
  BY <1>1, <1>2 DEF Atomic!WithLimit
<1>4. QED
  BY <1>3 DEF AccountRow

\* A COMMIT is atomic for the column it changes, or overwrites that column.
THEOREM CommitsAtomic == Spec => AtomicUnlessStale
<1>1. Init => Atomic!Init
  BY DEF Init, Atomic!Init
<1>2. AInv /\ [Next]_adminVars =>
        [Atomic!Next \/ \E t \in Threads : Overwrites(t)]_<<account, ledger>>
  <2> SUFFICES ASSUME AInv, [Next]_adminVars
               PROVE  \/ Atomic!Next \/ \E t \in Threads : Overwrites(t)
                      \/ UNCHANGED <<account, ledger>>
    OBVIOUS
  <2>1. TypeOK /\ AvailableFollowsLimit /\ RowsFollow /\ RowsChecked
    BY DEF AInv
  <2>2. ASSUME NEW t \in Threads, CommitLimit(t) PROVE Atomic!Next \/ Overwrites(t)
    <3> DEFINE new == request[t].limit
               written == Atomic!WithLimit(row[t], new)
    <3>1. /\ new \in Nat /\ new \in LimitRequests
          /\ row[t] \in AccountRow /\ account \in AccountRow
          /\ row[t].available = row[t].limit /\ account.available = account.limit
      BY <2>1, <2>2, Requested DEF CommitLimit, RowsFollow, AvailableFollowsLimit, TypeOK
    <3>2. CASE row[t].limit # account.limit
      <4>1. account'.status = account.status
        BY <2>2, <3>1 DEF CommitLimit, AccountRow
      <4>2. QED
        BY <2>2, <3>2, <4>1 DEF CommitLimit, Overwrites
    <3>3. CASE row[t].limit = account.limit
      <4>1. account' = Atomic!WithLimit(account, new)
        <5>1. CASE new = Exact(row[t].limit)
          <6>1. account' = account
            BY <2>2, <5>1 DEF CommitLimit
          <6>2. QED
            BY <3>1, <3>3, <5>1, <6>1, SameLimit
        <5>2. CASE new # Exact(row[t].limit)
          <6>1. account' = [account EXCEPT !.limit = written.limit,
                                           !.available = written.available]
            BY <2>2, <5>2 DEF CommitLimit
          <6>2. /\ written.limit = Atomic!Rounded(new)
                /\ written.available = Atomic!Rounded(new)
            BY <3>1, WithLimitRow
          <6>3. /\ Atomic!WithLimit(account, new) \in AccountRow
                /\ Atomic!WithLimit(account, new).status = account.status
                /\ Atomic!WithLimit(account, new).limit = Atomic!Rounded(new)
                /\ Atomic!WithLimit(account, new).available = Atomic!Rounded(new)
            BY <3>1, WithLimitRow
          <6> HIDE DEF written, new
          <6>4. QED
            BY <3>1, <6>1, <6>2, <6>3 DEF AccountRow
        <5>3. QED
          BY <5>1, <5>2
      <4>2. ledger' = Atomic!Entered(Atomic!LimitChange(account, new))
        BY <2>2, <3>3 DEF CommitLimit, Atomic!LimitChange
      <4>3. Atomic!SetLimit(new)
        BY <4>1, <4>2 DEF Atomic!SetLimit
      <4>4. QED
        BY <3>1, <4>3 DEF Atomic!Next
    <3>4. QED
      BY <3>2, <3>3
  <2>3. ASSUME NEW t \in Threads, CommitStatus(t) PROVE Atomic!Next \/ Overwrites(t)
    <3> DEFINE new == request[t].status
    <3>1. new \in AccountStatuses /\ new \in ValidTransitions[row[t].status]
      BY <2>1, <2>3, Requested DEF CommitStatus, RowsChecked
    <3>2. CASE row[t].status # account.status
      BY <2>3, <3>2 DEF CommitStatus, Overwrites
    <3>3. CASE row[t].status = account.status
      <4>1. Atomic!SetStatus(new)
        BY <2>3, <3>1, <3>3 DEF CommitStatus, Atomic!SetStatus
      <4>2. DOMAIN ValidTransitions = AccountStatuses
        BY DEF ValidTransitions, AccountStatuses
      <4>3. QED
        BY <3>1, <4>1, <4>2 DEF Atomic!Next
    <3>4. QED
      BY <3>2, <3>3
  <2>4. QED
    BY <2>2, <2>3 DEF Next, ReadForLimit, ReadForStatus, ReadForFreeze,
       Read, Restart, Finished, adminVars
<1>3. Init => RowsChecked
  BY DEF Init, RowsChecked, NoRequest
<1>4. QED
  BY <1>1, <1>2, <1>3, CheckedStep, TypeCorrect, AvailableFollows, PTL
     DEF Spec, AInv, AtomicUnlessStale

------------------------------------------------------------------------------
(* The cards *)

Issued == Statuses \ {"none"}

\* The command that is executing may still be carried out; if the account is
\* linked to its card, the command knows; and if no thread has written the
\* status since, the command knows the status.
LoopCurrent ==
    running # Idle =>
        /\ card[running.card].status \in Accepted[running.command]
        /\ cardOf = running.card => running.linked
        /\ running.linked /\ writer = "cards" => account.status = running.status
        /\ running.command \in {"activate", "unblock"} => running.session \in Sessions
        /\ /\ running.command = "unblock"
           /\ card[running.card].status = "BLOCKED_FRAUD"
           => running.actor = "ADMIN"

\* The account is linked to a card that exists.
LinkExists == cardOf # None => card[cardOf].status # "none"

\* Cards that do not exist are blank, and were not reissued from.
Blank == \A c \in Cards : card[c].status = "none" => card[c] = NoCard

LInv == CardTypeOK /\ LoopCurrent /\ LinkExists /\ Blank

LEMMA AcceptedIssued ==
    ASSUME NEW command \in DOMAIN Accepted
    PROVE  Accepted[command] \subseteq Issued \ {"TERMINATED"}
  BY DEF Accepted, Issued, Statuses, Blocked

LEMMA MirrorOfIssued ==
    ASSUME NEW status \in Issued
    PROVE  MirrorOf(status) \in Mirrors \ {"none"}
  BY DEF MirrorOf, Issued, Statuses, Blocked, Mirrors

\* A command that is carried out moves its card to "status" and responds.
Carried(status) ==
    /\ running # Idle
    /\ running' = Idle
    /\ card' = Moved(running.card, status, MirrorOf(status))
    /\ cardOf' = cardOf
    /\ session' = session \/ \E s \in Sessions : session' = [session EXCEPT ![s].state = "used"]
    /\ UNCHANGED <<ledger, request, row, undone>>

\* What each COMMIT does to cards and account, stated once.
LEMMA Commits ==
    ASSUME CardTypeOK, LoopCurrent, Commit
    PROVE  \/ /\ Executing("activate") \/ Executing("unblock")
              /\ Carried("ACTIVE") /\ SetAccount("ACTIVE")
           \/ /\ Executing("block") /\ SetAccount("FROZEN")
              /\ \/ running.actor = "USER" /\ Carried("BLOCKED_USER")
                 \/ running.actor = "ADMIN" /\ Carried("BLOCKED_FRAUD")
           \/ Executing("terminate") /\ Carried("TERMINATED") /\ SetAccount("CLOSED")
           \/ Executing("freeze") /\ Carried("BLOCKED_TEMP") /\ UNCHANGED <<account, writer>>
           \/ Executing("unfreeze") /\ Carried("ACTIVE") /\ UNCHANGED <<account, writer>>
           \/ Replace
           \/ Abandon
<1> USE DEF Commit, Executing, Carried, Idle, Respond, MirrorOf, Blocked
<1>1. CASE Activate \/ ConfirmUnblock
  BY <1>1 DEF Activate, ConfirmUnblock, UseSession, LoopCurrent
<1>2. CASE Block
  <2>1. running.actor \in Actors
    BY <1>2 DEF Block, CardTypeOK, Command
  <2>2. QED
    BY <1>2, <2>1 DEF Block, Actors
<1>3. CASE Terminate
  BY <1>3 DEF Terminate
<1>4. CASE Freeze
  BY <1>4 DEF Freeze
<1>5. CASE Unfreeze
  BY <1>5 DEF Unfreeze
<1>6. QED
  BY <1>1, <1>2, <1>3, <1>4, <1>5

\* The card type that Moved and NewCard keep.
CardRow == [status : Statuses, mirror : Mirrors, from : Cards \cup {None}]

LEMMA MovedCard ==
    ASSUME CardTypeOK, NEW c \in Cards, NEW status, NEW mirror
    PROVE  /\ \A d \in Cards \ {c} : Moved(c, status, mirror)[d] = card[d]
           /\ Moved(c, status, mirror)[c].status = status
           /\ Moved(c, status, mirror)[c].from = card[c].from
           /\ Moved(c, status, mirror)[c].mirror =
                IF card[c].mirror = "none" THEN "none" ELSE mirror
           /\ status \in Statuses /\ mirror \in Mirrors =>
                Moved(c, status, mirror) \in [Cards -> CardRow]
<1>1. card \in [Cards -> CardRow]
  BY DEF CardTypeOK, CardRow
<1>2. QED
  BY <1>1 DEF Moved, CardRow

LEMMA NewCardRow ==
    ASSUME NEW from \in Cards \cup {None}
    PROVE  NewCard(from) \in CardRow
  BY DEF NewCard, CardRow, Statuses, Mirrors

\* The account row after a command set its status.
LEMMA SetAccountRow ==
    ASSUME CardTypeOK, NEW status \in AccountStatuses, SetAccount(status)
    PROVE  account' \in AccountRow /\ writer' \in {"cards", "admin"}
  BY DEF CardTypeOK, TypeOK, SetAccount, AccountRow

LEMMA CarriedType ==
    ASSUME CardTypeOK, NEW status \in Issued, Carried(status),
           account' \in AccountRow, writer' \in {"cards", "admin"}
    PROVE  CardTypeOK'
<1>1. running.card \in Cards
  BY DEF Carried, CardTypeOK, Command
<1>2. card' \in [Cards -> CardRow]
  BY <1>1, MovedCard, MirrorOfIssued DEF Carried, Issued
<1>3. TypeOK'
  BY DEF Carried, Respond, CardTypeOK, TypeOK
<1>4. session' \in [Sessions -> [kind : {"none", "activation", "unblock"},
                                 state : {"none", "sent", "verified", "used"}]]
  BY DEF Carried, CardTypeOK
<1>5. QED
  BY <1>2, <1>3, <1>4 DEF Carried, CardTypeOK, CardRow

LEMMA CardTypeStep == CardTypeOK /\ LoopCurrent /\ [CardNext]_vars => CardTypeOK'
<1> SUFFICES ASSUME CardTypeOK, LoopCurrent, [CardNext]_vars PROVE CardTypeOK'
  OBVIOUS
<1>1. ASSUME UNCHANGED adminVars PROVE TypeOK'
  BY <1>1 DEF CardTypeOK, TypeOK, adminVars
<1>2. ASSUME NEW c \in Cards, NEW s \in Sessions, GenerateActivation(c, s)
      PROVE  CardTypeOK'
  BY <1>1, <1>2 DEF GenerateActivation, CardTypeOK
<1>3. ASSUME NEW c \in Cards, NEW actor \in Actors, NEW s \in Sessions,
             InitiateUnblock(c, actor, s)
      PROVE  CardTypeOK'
  BY <1>1, <1>3 DEF InitiateUnblock, CardTypeOK
<1>4. ASSUME NEW c \in Cards, NEW actor \in Actors, NEW command \in DOMAIN Accepted,
             NEW s \in Sessions \cup {None}, Load(command, c, actor, s)
      PROVE  CardTypeOK'
  <2>1. account.status \in AccountStatuses
    BY DEF CardTypeOK, TypeOK, AccountRow
  <2>2. running' \in Command
    BY <1>4, <2>1 DEF Load, Command
  <2>3. QED
    BY <1>1, <1>4, <2>2 DEF Load, CardTypeOK
<1>5. ASSUME NEW c \in Cards, IssueCard(c) PROVE CardTypeOK'
  <2>1. card' \in [Cards -> CardRow]
    BY <1>5, NewCardRow DEF IssueCard, CardTypeOK, CardRow
  <2>2. QED
    BY <1>1, <1>5, <2>1 DEF IssueCard, CardTypeOK, CardRow
<1>6. ASSUME NEW s \in Sessions, GenerateOTP(s) \/ VerifyOTP(s) PROVE CardTypeOK'
  BY <1>1, <1>6 DEF GenerateOTP, VerifyOTP, CardTypeOK
<1>7. ASSUME GenerateLoginOTP PROVE CardTypeOK'
  BY <1>1, <1>7 DEF GenerateLoginOTP, CardTypeOK
<1>8. ASSUME Commit PROVE CardTypeOK'
  <2>1. ASSUME NEW status \in Issued, Carried(status),
               (\E new \in AccountStatuses : SetAccount(new)) \/ UNCHANGED <<account, writer>>
        PROVE  CardTypeOK'
    <3>1. account' \in AccountRow /\ writer' \in {"cards", "admin"}
      BY <2>1, SetAccountRow DEF CardTypeOK, TypeOK
    <3>2. QED
      BY <2>1, <3>1, CarriedType
  <2>2. ASSUME Replace PROVE CardTypeOK'
    <3> PICK new \in Cards :
          /\ card[new] = NoCard
          /\ card' = [Moved(running.card, "REPLACED", "EXPIRED")
                        EXCEPT ![new] = NewCard(running.card)]
          /\ cardOf' = new
      BY <2>2 DEF Replace
    <3>1. running.card \in Cards
      BY <2>2 DEF Replace, Executing, Idle, CardTypeOK, Command
    <3>2. Moved(running.card, "REPLACED", "EXPIRED") \in [Cards -> CardRow]
      BY <3>1, MovedCard DEF Statuses, Mirrors
    <3>3. card' \in [Cards -> CardRow]
      BY <3>1, <3>2, NewCardRow
    <3>4. TypeOK'
      BY <2>2 DEF Replace, Respond, CardTypeOK, TypeOK
    <3>5. QED
      BY <2>2, <3>3, <3>4 DEF Replace, Respond, CardTypeOK, CardRow
  <2>3. ASSUME Abandon PROVE CardTypeOK'
    BY <2>3 DEF Abandon, Respond, CardTypeOK, TypeOK
  <2>4. /\ {"ACTIVE", "BLOCKED_USER", "BLOCKED_FRAUD", "BLOCKED_TEMP", "TERMINATED"}
              \subseteq Issued
        /\ {"ACTIVE", "FROZEN", "CLOSED"} \subseteq AccountStatuses
    BY DEF Issued, Statuses, Blocked, AccountStatuses
  <2>5. QED
    BY <1>8, Commits, <2>1, <2>2, <2>3, <2>4
<1>9. ASSUME Administer PROVE CardTypeOK'
  BY <1>9, TypeStep DEF Administer, CardTypeOK
<1>10. ASSUME UNCHANGED vars PROVE CardTypeOK'
  BY <1>1, <1>10 DEF vars, cardVars, CardTypeOK
<1>11. QED
  BY <1>2, <1>3, <1>4, <1>5, <1>6, <1>7, <1>8, <1>9, <1>10 DEF CardNext

\* How a step treats the card rows: those that exist change only by the
\* COMMIT of the command that is executing.
CardsKept == \A c \in Cards : card[c].status # "none" => card'[c] = card[c]

\* While a command executes, a step that leaves it there keeps what it read.
LEMMA LoopKept ==
    ASSUME LInv, running' = running, CardsKept,
           cardOf' = cardOf \/ card[cardOf'].status = "none",
           \/ UNCHANGED <<account, writer>>
           \/ account'.status = account.status /\ writer' = writer
           \/ writer' = "admin"
    PROVE  LoopCurrent'
<1> SUFFICES ASSUME running # Idle PROVE LoopCurrent'
  BY DEF LoopCurrent
<1>1. running \in Command /\ running.command \in DOMAIN Accepted /\ running.card \in Cards
  BY DEF LInv, CardTypeOK, Command
<1>2. card[running.card].status # "none"
  BY <1>1, AcceptedIssued DEF LInv, LoopCurrent, Issued
<1>3. card'[running.card] = card[running.card]
  BY <1>1, <1>2 DEF CardsKept
<1>4. cardOf' = running.card => cardOf = running.card
  BY <1>2
<1>5. QED
  BY <1>3, <1>4 DEF LInv, LoopCurrent

LEMMA LInvStep == LInv /\ [CardNext]_vars => LInv'
<1> SUFFICES ASSUME LInv, [CardNext]_vars
             PROVE  LoopCurrent' /\ LinkExists' /\ Blank'
  BY CardTypeStep DEF LInv
<1>t. CardTypeOK /\ card \in [Cards -> CardRow] /\ cardOf \in Cards \cup {None}
  BY DEF LInv, CardTypeOK, CardRow
<1>1. ASSUME UNCHANGED <<card, cardOf>> PROVE LinkExists' /\ Blank' /\ CardsKept
  BY <1>1 DEF LInv, LinkExists, Blank, CardsKept
<1>2. ASSUME UNCHANGED <<card, cardOf, running, writer, adminVars>>
      PROVE  LoopCurrent' /\ LinkExists' /\ Blank'
  BY <1>1, <1>2, LoopKept DEF adminVars
<1>3. ASSUME NEW c \in Cards, NEW actor \in Actors, NEW command \in DOMAIN Accepted,
             NEW s \in Sessions \cup {None}, Load(command, c, actor, s)
      PROVE  LoopCurrent' /\ LinkExists' /\ Blank'
  <2>1. /\ running' = [command |-> command, card |-> c, actor |-> actor, session |-> s,
                       linked |-> cardOf = c, status |-> account.status]
        /\ UNCHANGED <<card, cardOf, account, writer>>
        /\ card[c].status \in Accepted[command]
        /\ command \in {"activate", "unblock"} => s \in Sessions
        /\ command = "unblock" /\ card[c].status = "BLOCKED_FRAUD" => actor = "ADMIN"
    BY <1>3 DEF Load, adminVars
  <2>2. LoopCurrent'
    BY <2>1 DEF LoopCurrent
  <2>3. QED
    BY <1>1, <2>1, <2>2
<1>4. ASSUME NEW c \in Cards, IssueCard(c)
      PROVE  LoopCurrent' /\ LinkExists' /\ Blank'
  <2>1. /\ card[c] = NoCard /\ cardOf' = c
        /\ card' = [card EXCEPT ![c] = NewCard(None)]
        /\ UNCHANGED <<running, writer, account>>
    BY <1>4 DEF IssueCard, adminVars
  <2>2. card[c].status = "none" /\ NewCard(None).status = "ISSUED"
    BY <2>1 DEF NoCard, NewCard
  <2>3. CardsKept /\ LinkExists' /\ Blank'
    BY <1>t, <2>1, <2>2 DEF CardsKept, LinkExists, Blank, LInv
  <2>4. QED
    BY <2>1, <2>2, <2>3, LoopKept
<1>5. ASSUME Commit PROVE LoopCurrent' /\ LinkExists' /\ Blank'
  <2>1. running' = Idle /\ running # Idle
    BY <1>5, Commits DEF LInv, Carried, Replace, Abandon, Respond, Executing, Idle
  <2>2. LoopCurrent'
    BY <2>1 DEF LoopCurrent
  <2>3. running.card \in Cards
    BY <2>1 DEF LInv, CardTypeOK, Command
  <2>4. ASSUME NEW status \in Issued, Carried(status) PROVE LinkExists' /\ Blank'
    <3>1. /\ card'[running.card].status # "none"
          /\ \A d \in Cards \ {running.card} : card'[d] = card[d]
      BY <1>t, <2>3, <2>4, MovedCard DEF Issued, Carried
    <3>2. QED
      BY <1>t, <2>3, <2>4, <3>1 DEF Carried, LinkExists, Blank, LInv
  <2>5. ASSUME Replace PROVE LinkExists' /\ Blank'
    <3> PICK new \in Cards :
          /\ card[new] = NoCard
          /\ card' = [Moved(running.card, "REPLACED", "EXPIRED")
                        EXCEPT ![new] = NewCard(running.card)]
          /\ cardOf' = new
      BY <2>5 DEF Replace
    <3> DEFINE moved == Moved(running.card, "REPLACED", "EXPIRED")
    <3>1. /\ moved[running.card].status = "REPLACED"
          /\ \A d \in Cards \ {running.card} : moved[d] = card[d]
          /\ moved \in [Cards -> CardRow]
      BY <1>t, <2>3, MovedCard DEF Statuses, Mirrors
    <3>2. NewCard(running.card).status = "ISSUED"
      BY DEF NewCard
    <3> HIDE DEF moved
    <3>3. \A d \in Cards : card'[d] = IF d = new THEN NewCard(running.card) ELSE moved[d]
      BY <3>1 DEF moved
    <3>4. QED
      BY <1>t, <2>3, <3>1, <3>2, <3>3 DEF LinkExists, Blank, LInv
  <2>6. ASSUME Abandon PROVE LinkExists' /\ Blank'
    BY <1>1, <2>6 DEF Abandon
  <2>7. {"ACTIVE", "BLOCKED_USER", "BLOCKED_FRAUD", "BLOCKED_TEMP", "TERMINATED"}
          \subseteq Issued
    BY DEF Issued, Statuses, Blocked
  <2>8. QED
    BY <1>5, <1>t, Commits, <2>2, <2>4, <2>5, <2>6, <2>7 DEF LInv
<1>6. ASSUME Administer PROVE LoopCurrent' /\ LinkExists' /\ Blank'
  <2>1. /\ UNCHANGED <<card, cardOf, running>>
        /\ writer' = IF account'.status # account.status THEN "admin" ELSE writer
    BY <1>6 DEF Administer
  <2>2. QED
    BY <1>1, <2>1, LoopKept
<1>7. QED
  BY <1>2, <1>3, <1>4, <1>5, <1>6
     DEF CardNext, GenerateActivation, InitiateUnblock, GenerateOTP, VerifyOTP,
         GenerateLoginOTP, vars, cardVars, adminVars

LEMMA LInvInit == CardInit => LInv
<1> SUFFICES ASSUME CardInit PROVE LInv
  OBVIOUS
<1>1. TypeOK
  BY NewAccountRow DEF CardInit, Init, TypeOK, Request
<1>2. CardTypeOK
  BY <1>1 DEF CardInit, CardTypeOK, NoCard, NoSession, Statuses, Mirrors
<1>3. QED
  BY <1>2 DEF CardInit, LInv, LoopCurrent, LinkExists, Blank

------------------------------------------------------------------------------
(* What the properties are about *)

\* Every step issues a card, is a COMMIT of the event loop, or leaves cards
\* alone; if it writes the status of the account then, an administrator does.
LEMMA Kinds ==
    ASSUME [CardNext]_vars
    PROVE  \/ \E c \in Cards : IssueCard(c)
           \/ Commit
           \/ /\ UNCHANGED <<card, cardOf>>
              /\ \/ account'.status = account.status /\ writer' = writer
                 \/ writer' = "admin"
  BY DEF CardNext, GenerateActivation, InitiateUnblock, Load, GenerateOTP, VerifyOTP,
         GenerateLoginOTP, Administer, vars, cardVars, adminVars

\* IssueCard, card by card.
LEMMA Issues ==
    ASSUME LInv, NEW c \in Cards, IssueCard(c)
    PROVE  /\ card[c] = NoCard /\ card'[c] = NewCard(None)
           /\ \A d \in Cards \ {c} : card'[d] = card[d]
           /\ cardOf' = c
           /\ UNCHANGED <<account, writer, running>>
<1>1. card \in [Cards -> CardRow]
  BY DEF LInv, CardTypeOK, CardRow
<1>2. QED
  BY <1>1 DEF IssueCard, adminVars

\* A command that is carried out, card by card.
LEMMA Carries ==
    ASSUME LInv, NEW status, Carried(status)
    PROVE  /\ running.card \in Cards
           /\ running.command \in DOMAIN Accepted
           /\ card[running.card].status \in Accepted[running.command]
           /\ card'[running.card].status = status
           /\ card'[running.card].from = card[running.card].from
           /\ card'[running.card].mirror =
                IF card[running.card].mirror = "none" THEN "none" ELSE MirrorOf(status)
           /\ \A d \in Cards \ {running.card} : card'[d] = card[d]
           /\ cardOf' = cardOf
<1>1. running # Idle /\ running.card \in Cards /\ running.command \in DOMAIN Accepted
  BY DEF Carried, LInv, CardTypeOK, Command
<1>2. QED
  BY <1>1, MovedCard DEF Carried, LInv, LoopCurrent

\* Replace, card by card.
LEMMA Replaces ==
    ASSUME LInv, Replace
    PROVE  \E new \in Cards :
             /\ card[new] = NoCard /\ card'[new] = NewCard(running.card)
             /\ running.card \in Cards \ {new}
             /\ card[running.card].status \in Accepted.replace
             /\ card'[running.card].status = "REPLACED"
             /\ card'[running.card].from = card[running.card].from
             /\ card'[running.card].mirror =
                  IF card[running.card].mirror = "none" THEN "none" ELSE "EXPIRED"
             /\ \A d \in Cards \ {new, running.card} : card'[d] = card[d]
             /\ cardOf' = new
             /\ UNCHANGED <<account, writer>>
<1> PICK new \in Cards :
      /\ card[new] = NoCard
      /\ card' = [Moved(running.card, "REPLACED", "EXPIRED")
                    EXCEPT ![new] = NewCard(running.card)]
      /\ cardOf' = new
  BY DEF Replace
<1> DEFINE moved == Moved(running.card, "REPLACED", "EXPIRED")
<1>1. running.command = "replace" /\ running # Idle /\ UNCHANGED <<account, writer>>
  BY DEF Replace, Executing, Idle
<1>2. running.card \in Cards /\ card[running.card].status \in Accepted.replace
  BY <1>1 DEF LInv, CardTypeOK, Command, LoopCurrent
<1>3. new # running.card
  BY <1>2 DEF NoCard, Accepted, Blocked
<1>4. /\ \A d \in Cards \ {running.card} : moved[d] = card[d]
      /\ moved[running.card].status = "REPLACED"
      /\ moved[running.card].from = card[running.card].from
      /\ moved[running.card].mirror =
           IF card[running.card].mirror = "none" THEN "none" ELSE "EXPIRED"
      /\ moved \in [Cards -> CardRow]
  BY <1>2, MovedCard DEF LInv, Statuses, Mirrors
<1> HIDE DEF moved
<1>5. \A d \in Cards : card'[d] = IF d = new THEN NewCard(running.card) ELSE moved[d]
  BY <1>4 DEF moved
<1>6. QED
  BY <1>1, <1>2, <1>3, <1>4, <1>5

\* Abandon changes neither cards nor account.
LEMMA Abandons ==
    ASSUME Abandon
    PROVE  UNCHANGED <<card, cardOf, account, writer>>
  BY DEF Abandon

\* The statuses a command may write, by what it accepts.
Writes ==
    [activate |-> {"ACTIVE"}, block |-> {"BLOCKED_USER", "BLOCKED_FRAUD"},
     unblock |-> {"ACTIVE"}, terminate |-> {"TERMINATED"},
     freeze |-> {"BLOCKED_TEMP"}, unfreeze |-> {"ACTIVE"}]

LEMMA CommitWrites ==
    ASSUME LInv, Commit
    PROVE  \/ \E status \in Issued \ {"ISSUED", "REPLACED"} :
                /\ Carried(status)
                /\ running.command \in DOMAIN Writes /\ status \in Writes[running.command]
           \/ Replace
           \/ Abandon
<1>1. /\ {"ACTIVE", "BLOCKED_USER", "BLOCKED_FRAUD", "BLOCKED_TEMP", "TERMINATED"}
           \subseteq Issued \ {"ISSUED", "REPLACED"}
      /\ DOMAIN Writes =
           {"activate", "block", "unblock", "terminate", "freeze", "unfreeze"}
  BY DEF Issued, Statuses, Blocked, Writes
<1>2. QED
  BY <1>1, Commits DEF LInv, Executing, Writes
------------------------------------------------------------------------------
\* The types of all rows of cards, sessions and commands.
THEOREM CardTypeCorrect == CardSpec => []CardTypeOK
  BY LInvInit, LInvStep, PTL DEF CardSpec, LInv

\* What a command has read of its card holds until its COMMIT.
THEOREM CommandsCurrent == CardSpec => []LInv
  BY LInvInit, LInvStep, PTL DEF CardSpec

\* The two tables tell the same of every card, after any commands.
THEOREM MirrorsAgree == CardSpec => []MirrorAgrees
<1>1. CardInit => MirrorAgrees
  <2>1. MirrorOf("none") = "none"
    BY DEF MirrorOf, Blocked
  <2>2. QED
    BY <2>1 DEF CardInit, MirrorAgrees, NoCard
<1>2. LInv /\ MirrorAgrees /\ [CardNext]_vars => MirrorAgrees'
  <2> SUFFICES ASSUME LInv, MirrorAgrees, [CardNext]_vars PROVE MirrorAgrees'
    OBVIOUS
  <2>1. ASSUME NEW c \in Cards, IssueCard(c) PROVE MirrorAgrees'
    <3>1. /\ card'[c] = NewCard(None)
          /\ \A d \in Cards \ {c} : card'[d] = card[d]
      BY <2>1, Issues
    <3>2. /\ card'[c].status = "ISSUED"
          /\ card'[c].mirror = IF Mirrored THEN "INACTIVE" ELSE "none"
      BY <3>1 DEF NewCard
    <3>3. MirrorOf("ISSUED") = "INACTIVE"
      BY DEF MirrorOf, Blocked
    <3>4. QED
      BY <3>1, <3>2, <3>3 DEF MirrorAgrees
  <2>2. ASSUME NEW status \in Issued, Carried(status) PROVE MirrorAgrees'
    <3>1. running.card \in Cards /\ card[running.card].status \in Issued
      BY <2>2, Carries, AcceptedIssued
    <3>2. card[running.card].mirror = IF Mirrored THEN MirrorOf(card[running.card].status)
                                                  ELSE "none"
      BY <3>1 DEF MirrorAgrees
    <3>3. card'[running.card].mirror = IF Mirrored THEN MirrorOf(status) ELSE "none"
      BY <2>2, <3>1, <3>2, Carries, MirrorOfIssued
    <3>4. QED
      BY <2>2, <3>3, Carries DEF MirrorAgrees
  <2>3. ASSUME Replace PROVE MirrorAgrees'
    <3> PICK new \in Cards :
          /\ card'[new] = NewCard(running.card)
          /\ running.card \in Cards
          /\ card[running.card].status \in Accepted.replace
          /\ card'[running.card].status = "REPLACED"
          /\ card'[running.card].mirror =
               IF card[running.card].mirror = "none" THEN "none" ELSE "EXPIRED"
          /\ \A d \in Cards \ {new, running.card} : card'[d] = card[d]
      BY <2>3, Replaces
    <3>1. card[running.card].status \in Issued
      BY AcceptedIssued DEF Accepted
    <3>2. MirrorOf("REPLACED") = "EXPIRED" /\ MirrorOf("ISSUED") = "INACTIVE"
      BY DEF MirrorOf, Blocked
    <3>3. card'[new].status = "ISSUED"
          /\ card'[new].mirror = IF Mirrored THEN "INACTIVE" ELSE "none"
      BY DEF NewCard
    <3>4. card'[running.card].mirror = IF Mirrored THEN "EXPIRED" ELSE "none"
      BY <3>1, MirrorOfIssued DEF MirrorAgrees
    <3>5. QED
      BY <3>2, <3>3, <3>4 DEF MirrorAgrees
  <2>4. ASSUME UNCHANGED card PROVE MirrorAgrees'
    BY <2>4 DEF MirrorAgrees
  <2>5. QED
    BY Kinds, CommitWrites, <2>1, <2>2, <2>3, <2>4, Abandons
<1>3. QED
  BY <1>1, <1>2, CommandsCurrent, LInvInit, PTL DEF CardSpec

\* A card is replaced at most once and the account is never left with the
\* card that was replaced, whatever clients repeat.
THEOREM ReplacedOnce == CardSpec => [](OneSuccessor /\ LinkedIsNotReplaced)
<1> DEFINE Once == OneSuccessor /\ LinkedIsNotReplaced
<1>1. CardInit => Once
  BY DEF CardInit, OneSuccessor, LinkedIsNotReplaced, NoCard
<1>2. LInv /\ Once /\ [CardNext]_vars => Once'
  <2> SUFFICES ASSUME LInv, OneSuccessor, LinkedIsNotReplaced, [CardNext]_vars
               PROVE  OneSuccessor' /\ LinkedIsNotReplaced'
    OBVIOUS
  <2>t. /\ None \notin Cards
        /\ \A c \in Cards : card[c].from \in Cards \cup {None}
        /\ cardOf \in Cards \cup {None}
    BY CardLifecycleAssumption DEF LInv, CardTypeOK
  <2>1. ASSUME NEW c \in Cards, IssueCard(c) PROVE OneSuccessor' /\ LinkedIsNotReplaced'
    <3>1. /\ card[c].status = "none" /\ card'[c].status = "ISSUED"
          /\ card[c].from = None /\ card'[c].from = None
          /\ \A d \in Cards \ {c} : card'[d] = card[d]
          /\ cardOf' = c
      BY <2>1, Issues DEF NoCard, NewCard
    <3>2. QED
      BY <2>t, <3>1 DEF OneSuccessor, LinkedIsNotReplaced
  <2>2. ASSUME NEW status \in Issued \ {"ISSUED", "REPLACED"}, Carried(status),
               running.command \in DOMAIN Writes, status \in Writes[running.command]
        PROVE  OneSuccessor' /\ LinkedIsNotReplaced'
    <3>1. card[running.card].status \in {"REPLACED", "TERMINATED"} => status = "TERMINATED"
      BY <2>2, Carries DEF Accepted, Writes, Blocked
    <3>2. QED
      BY <2>t, <2>2, <3>1, Carries DEF OneSuccessor, LinkedIsNotReplaced
  <2>3. ASSUME Replace PROVE OneSuccessor' /\ LinkedIsNotReplaced'
    <3> PICK new \in Cards :
          /\ card[new] = NoCard /\ card'[new] = NewCard(running.card)
          /\ running.card \in Cards \ {new}
          /\ card[running.card].status \in Accepted.replace
          /\ card'[running.card].status = "REPLACED"
          /\ card'[running.card].from = card[running.card].from
          /\ \A d \in Cards \ {new, running.card} : card'[d] = card[d]
          /\ cardOf' = new
      BY <2>3, Replaces
    <3>1. /\ card[new].status = "none" /\ card[new].from = None
          /\ card'[new].status = "ISSUED" /\ card'[new].from = running.card
      BY DEF NoCard, NewCard
    <3>2. card[running.card].status \notin {"REPLACED", "TERMINATED"}
      BY DEF Accepted, Blocked
    <3>3. \A d \in Cards : card[d].from # running.card /\ card[d].from # new
      BY <2>t, <3>1, <3>2 DEF OneSuccessor
    <3>4. \A d \in Cards \ {new} : card'[d].from = card[d].from
      OBVIOUS
    <3>5. QED
      BY <2>t, <3>1, <3>3, <3>4 DEF OneSuccessor, LinkedIsNotReplaced
  <2>4. ASSUME UNCHANGED <<card, cardOf>> PROVE OneSuccessor' /\ LinkedIsNotReplaced'
    BY <2>4 DEF OneSuccessor, LinkedIsNotReplaced
  <2>5. QED
    BY Kinds, CommitWrites, <2>1, <2>2, <2>3, <2>4, Abandons
<1>3. QED
  BY <1>1, <1>2, CommandsCurrent, PTL DEF CardSpec

\* A terminated card stays so; a replaced one can only be terminated.
THEOREM RetiredStays == CardSpec => RetiredIsFinal
<1> DEFINE Final ==
      \A c \in Cards :
         /\ card[c].status = "TERMINATED" => card'[c].status = "TERMINATED"
         /\ card[c].status = "REPLACED" => card'[c].status \in {"REPLACED", "TERMINATED"}
<1>1. LInv /\ [CardNext]_vars => [Final]_vars
  <2> SUFFICES ASSUME LInv, [CardNext]_vars PROVE Final
    OBVIOUS
  <2>1. ASSUME NEW c \in Cards, IssueCard(c) PROVE Final
    BY <2>1, Issues DEF NoCard
  <2>2. ASSUME NEW status \in Issued, Carried(status),
               running.command \in DOMAIN Writes, status \in Writes[running.command]
        PROVE  Final
    <3>1. card[running.card].status # "TERMINATED"
      BY <2>2, Carries, AcceptedIssued
    <3>2. card[running.card].status = "REPLACED" => status = "TERMINATED"
      BY <2>2, Carries DEF Accepted, Writes, Blocked
    <3>3. QED
      BY <2>2, <3>1, <3>2, Carries
  <2>3. ASSUME Replace PROVE Final
    BY <2>3, Replaces DEF Accepted, Blocked, NoCard
  <2>4. QED
    BY Kinds, CommitWrites, <2>1, <2>2, <2>3, Abandons
<1>2. QED
  BY <1>1, CommandsCurrent, PTL DEF CardSpec, RetiredIsFinal

\* Only an administrator's command makes a card usable that an administrator
\* blocked, whichever of the three commands that end ACTIVE is tried.
THEOREM AdminBlocksHold == CardSpec => AdminBlockHolds
<1> DEFINE Holds ==
      \A c \in Cards :
         card[c].status = "BLOCKED_FRAUD" /\ card'[c].status = "ACTIVE"
             => running.actor = "ADMIN"
<1>1. LInv /\ [CardNext]_vars => [Holds]_vars
  <2> SUFFICES ASSUME LInv, [CardNext]_vars PROVE Holds
    OBVIOUS
  <2>1. ASSUME NEW c \in Cards, IssueCard(c) PROVE Holds
    BY <2>1, Issues DEF NoCard
  <2>2. ASSUME NEW status \in Issued, Carried(status),
               running.command \in DOMAIN Writes, status \in Writes[running.command]
        PROVE  Holds
    <3>1. /\ card[running.card].status = "BLOCKED_FRAUD" /\ status = "ACTIVE"
          => running.command = "unblock"
      BY <2>2, Carries DEF Accepted, Writes, Blocked
    <3>2. /\ running.command = "unblock" /\ card[running.card].status = "BLOCKED_FRAUD"
          => running.actor = "ADMIN"
      BY <2>2 DEF Carried, LInv, LoopCurrent
    <3>3. QED
      BY <2>2, <3>1, <3>2, Carries
  <2>3. ASSUME Replace PROVE Holds
    BY <2>3, Replaces DEF NoCard
  <2>4. QED
    BY Kinds, CommitWrites, <2>1, <2>2, <2>3, Abandons
<1>2. QED
  BY <1>1, CommandsCurrent, PTL DEF CardSpec, AdminBlockHolds

\* If a thread has linked the account to a new card since the command that
\* is executing read the link, that card is as it was issued: the command
\* still sets the account as its own card asks.
NewLinkIdle ==
    running # Idle /\ running.linked /\ cardOf # running.card =>
        card[cardOf].status = "ISSUED"

\* The account's status fits the linked card until an administrator sets it,
\* although a command writes both from a status it read earlier.
THEOREM AccountFollows == CardSpec => []AccountFollowsCard
<1> DEFINE Follows == AccountFollowsCard /\ NewLinkIdle
<1>1. CardInit => Follows
  BY DEF CardInit, AccountFollowsCard, NewLinkIdle
<1>2. LInv /\ Follows /\ [CardNext]_vars => NewLinkIdle'
  <2> SUFFICES ASSUME LInv, NewLinkIdle, [CardNext]_vars PROVE NewLinkIdle'
    OBVIOUS
  <2>1. ASSUME NEW c \in Cards, IssueCard(c) PROVE NewLinkIdle'
    BY <2>1, Issues DEF NewLinkIdle, NewCard
  <2>2. ASSUME Commit PROVE NewLinkIdle'
    BY <2>2, CommitWrites DEF Carried, Replace, Abandon, Respond, NewLinkIdle
  <2>3. ASSUME NEW c \in Cards, NEW actor, NEW command, NEW s, Load(command, c, actor, s)
        PROVE  NewLinkIdle'
    BY <2>3 DEF Load, NewLinkIdle
  <2>4. ASSUME UNCHANGED <<card, cardOf, running>> PROVE NewLinkIdle'
    BY <2>4 DEF NewLinkIdle
  <2>5. QED
    BY <2>1, <2>2, <2>3, <2>4
       DEF CardNext, GenerateActivation, InitiateUnblock, GenerateOTP, VerifyOTP,
           GenerateLoginOTP, Administer, vars, cardVars
<1>3. LInv /\ Follows /\ [CardNext]_vars => AccountFollowsCard'
  <2> SUFFICES ASSUME LInv, AccountFollowsCard, NewLinkIdle, [CardNext]_vars
               PROVE  AccountFollowsCard'
    OBVIOUS
  <2>t. cardOf \in Cards \cup {None} /\ None \notin Cards
    BY CardLifecycleAssumption DEF LInv, CardTypeOK
  <2>1. ASSUME NEW c \in Cards, IssueCard(c) PROVE AccountFollowsCard'
    BY <2>1, Issues DEF AccountFollowsCard, NewCard
  <2>2. ASSUME NEW status \in Issued, NEW new, Carried(status), SetAccount(new),
               \/ status = "ACTIVE" /\ new = "ACTIVE"
               \/ status \in {"BLOCKED_USER", "BLOCKED_FRAUD"} /\ new = "FROZEN"
               \/ status = "TERMINATED" /\ new = "CLOSED"
        PROVE  AccountFollowsCard'
    <3> SUFFICES ASSUME writer' = "cards", cardOf # None
                 PROVE  AccountFollowsCard'
      BY <2>2 DEF Carried, AccountFollowsCard
    <3>1. CASE running.linked
      <4>1. account'.status = new
        BY <2>2, <3>1 DEF SetAccount, LInv, LoopCurrent, Carried, CardTypeOK, TypeOK, AccountRow
      <4>2. CASE cardOf = running.card
        BY <2>2, <4>1, <4>2, Carries DEF AccountFollowsCard
      <4>3. CASE cardOf # running.card
        <5>1. card'[cardOf].status = "ISSUED"
          BY <2>t, <2>2, <3>1, <4>3, Carries DEF NewLinkIdle, Carried
        <5>2. QED
          BY <2>2, <5>1 DEF AccountFollowsCard, Carried
      <4>4. QED
        BY <4>2, <4>3
    <3>2. CASE ~running.linked
      <4>1. cardOf # running.card /\ UNCHANGED <<account, writer>>
        BY <2>2, <3>2 DEF LInv, LoopCurrent, Carried, SetAccount
      <4>2. QED
        BY <2>t, <2>2, <4>1, Carries DEF AccountFollowsCard
    <3>3. QED
      BY <3>1, <3>2
  <2>3. ASSUME NEW status \in {"BLOCKED_TEMP", "ACTIVE"}, Carried(status),
               running.command \in {"freeze", "unfreeze"}, UNCHANGED <<account, writer>>
        PROVE  AccountFollowsCard'
    <3>1. card[running.card].status \in {"BLOCKED_TEMP", "ACTIVE"}
      BY <2>3, Carries DEF Accepted
    <3>2. QED
      BY <2>t, <2>3, <3>1, Carries DEF AccountFollowsCard
  <2>4. ASSUME Replace PROVE AccountFollowsCard'
    BY <2>4, Replaces DEF AccountFollowsCard, NewCard
  <2>5. ASSUME Commit PROVE AccountFollowsCard'
    <3>1. {"ACTIVE", "BLOCKED_USER", "BLOCKED_FRAUD", "TERMINATED"} \subseteq Issued
      BY DEF Issued, Statuses, Blocked
    <3>2. ASSUME Abandon PROVE AccountFollowsCard'
      BY <3>2, Abandons DEF AccountFollowsCard
    <3>3. CardTypeOK /\ LoopCurrent
      BY DEF LInv
    <3>4. CASE \/ Executing("freeze") /\ Carried("BLOCKED_TEMP") /\ UNCHANGED <<account, writer>>
               \/ Executing("unfreeze") /\ Carried("ACTIVE") /\ UNCHANGED <<account, writer>>
      BY <2>3, <3>4 DEF Executing
    <3>5. ASSUME Carried("ACTIVE"), SetAccount("ACTIVE") PROVE AccountFollowsCard'
      BY <2>2, <3>1, <3>5
    <3>6. ASSUME NEW blocked \in {"BLOCKED_USER", "BLOCKED_FRAUD"},
                 Carried(blocked), SetAccount("FROZEN")
          PROVE  AccountFollowsCard'
      BY <2>2, <3>1, <3>6
    <3>7. ASSUME Carried("TERMINATED"), SetAccount("CLOSED") PROVE AccountFollowsCard'
      BY <2>2, <3>1, <3>7
    <3>8. QED
      BY <2>5, <2>4, <3>2, <3>3, <3>4, <3>5, <3>6, <3>7, Commits
  <2>6. ASSUME UNCHANGED <<card, cardOf>>,
               \/ account'.status = account.status /\ writer' = writer
               \/ writer' = "admin"
        PROVE  AccountFollowsCard'
    BY <2>6 DEF AccountFollowsCard
  <2>7. QED
    BY Kinds, <2>1, <2>5, <2>6
<1>4. QED
  BY <1>1, <1>2, <1>3, CommandsCurrent, PTL DEF CardSpec
==============================================================================
