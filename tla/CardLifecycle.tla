---------------------------- MODULE CardLifecycle ----------------------------
(***************************************************************************)
(* The cards of one credit account, from issue to termination, with their  *)
(* rows in the administrative table, the one-time passwords and sessions   *)
(* of activation and unblocking, and the status of the account, which      *)
(* administrators change at the same time (AccountAdmin).                  *)
(*                                                                         *)
(* A lifecycle command is an async handler without an await: it has the    *)
(* event loop for itself from its first SELECT to its COMMIT (Load, then   *)
(* one action per command).  Cards are issued, and accounts administered,  *)
(* by threads, which run between the two.                                  *)
(***************************************************************************)
EXTENDS AccountAdmin

CONSTANTS
    Cards,      \* rows that may be made, identified by their UUIDs
    Sessions,   \* activation_id and unblock_id values that may be handed out
    None,       \* no card, or no session
    Mirrored    \* the administrative table has the account under the same id

ASSUME CardLifecycleAssumption ==
    /\ None \notin Cards \cup Sessions
    /\ Mirrored \in BOOLEAN

VARIABLES
    card,      \* the two rows of a card, and the card it was reissued from
    cardOf,    \* CCMCreditAccount.card_id: the card the account is linked to
    session,   \* OTPCode rows by linkage_id
    running,   \* the command the event loop is executing
    writer     \* who wrote account.status last

cardVars == <<card, cardOf, session, running, writer>>
vars == <<adminVars, cardVars>>

Blocked == {"BLOCKED_USER", "BLOCKED_FRAUD", "BLOCKED_TEMP"}
Statuses == {"none", "ISSUED", "ACTIVE", "TERMINATED", "REPLACED"} \cup Blocked
Actors == {"USER", "ADMIN"}

\* The card_status of the administrative row that goes with a status.
MirrorOf(status) ==
    CASE status = "ISSUED"     -> "INACTIVE"
      [] status = "ACTIVE"     -> "ACTIVE"
      [] status = "REPLACED"   -> "EXPIRED"
      [] status \in Blocked \cup {"TERMINATED"} -> "BLOCKED"
      [] status = "none"       -> "none"

Mirrors == {"none", "INACTIVE", "ACTIVE", "EXPIRED", "BLOCKED"}

\* Mutation of Accepted: block looks only for cards that are blocked already.
AcceptedBlockRetired ==
    [activate  |-> {"ISSUED"},
     block     |-> {"ISSUED", "ACTIVE", "REPLACED", "TERMINATED"},
     unblock   |-> Blocked,
     replace   |-> {"ISSUED", "ACTIVE"} \cup Blocked,
     terminate |-> {"ISSUED", "ACTIVE", "REPLACED"} \cup Blocked,
     freeze    |-> {"ACTIVE"},
     unfreeze  |-> {"BLOCKED_TEMP"}]

\* The statuses in which a command is carried out, among those the program
\* gives a card; renew is replace with another reason.
Accepted ==
    [activate  |-> {"ISSUED"},
     block     |-> {"ISSUED", "ACTIVE"},
     unblock   |-> Blocked,
     replace   |-> {"ISSUED", "ACTIVE"} \cup Blocked,
     terminate |-> {"ISSUED", "ACTIVE", "REPLACED"} \cup Blocked,
     freeze    |-> {"ACTIVE"},
     unfreeze  |-> {"BLOCKED_TEMP"}]

NoCard == [status |-> "none", mirror |-> "none", from |-> None]
NoSession == [kind |-> "none", state |-> "none"]
Idle == [command |-> "none"]

\* A command with what it has read: whether the account is linked to the
\* card, and the status of the account.
Command ==
    [command : DOMAIN Accepted, card : Cards, actor : Actors,
     session : Sessions \cup {None},
     linked : BOOLEAN, status : AccountStatuses]

CardInit ==
    /\ Init
    /\ card = [c \in Cards |-> NoCard]
    /\ cardOf = None
    /\ session = [s \in Sessions |-> NoSession]
    /\ running = Idle
    /\ writer = "cards"

\* A new card of the account; the dual insert makes the second row.
NewCard(from) ==
    [status |-> "ISSUED", mirror |-> IF Mirrored THEN "INACTIVE" ELSE "none",
     from |-> from]

\* A card with a new status; "mirror" is the status of the second row, which
\* is updated if it exists.
Moved(c, status, mirror) ==
    [card EXCEPT ![c].status = status,
                 ![c].mirror = IF @ = "none" THEN @ ELSE mirror]
------------------------------------------------------------------------------
(* Handlers of one step *)

\* issue_card, in a thread: the account is linked to the new card, and the
\* card it was linked to stays as it is.
IssueCard(c) ==
    /\ card[c] = NoCard
    /\ card' = [card EXCEPT ![c] = NewCard(None)]
    /\ cardOf' = c
    /\ UNCHANGED <<session, running, writer, adminVars>>

\* Stage "generate" of activation: an id is handed out, and not stored.
GenerateActivation(c, s) ==
    /\ running = Idle
    /\ session[s] = NoSession
    /\ card[c].status \in Accepted.activate
    /\ session' = [session EXCEPT ![s] = [kind |-> "activation", state |-> "none"]]
    /\ UNCHANGED <<card, cardOf, running, writer, adminVars>>

\* otp generate: unused passwords of the same purpose are used up, and a new
\* one is stored under the id the client sends.
GenerateOTP(s) ==
    /\ running = Idle
    /\ session[s].kind = "activation"
    /\ session' = [z \in Sessions |->
                     IF z = s THEN [session[z] EXCEPT !.state = "sent"]
                     ELSE IF session[z].kind = "activation" /\ session[z].state # "none"
                          THEN [session[z] EXCEPT !.state = "used"]
                          ELSE session[z]]
    /\ UNCHANGED <<card, cardOf, running, writer, adminVars>>

\* otp verify: the right password in time.
VerifyOTP(s) ==
    /\ running = Idle
    /\ session[s].kind = "activation" /\ session[s].state = "sent"
    /\ session' = [session EXCEPT ![s].state = "verified"]
    /\ UNCHANGED <<card, cardOf, running, writer, adminVars>>

\* unblock_ini stores a session with the purpose LOGIN, verified from the
\* start.
InitiateUnblock(c, actor, s) ==
    /\ running = Idle
    /\ session[s] = NoSession
    /\ card[c].status \in Blocked
    /\ card[c].status = "BLOCKED_FRAUD" => actor = "ADMIN"
    /\ session' = [session EXCEPT ![s] = [kind |-> "unblock", state |-> "verified"]]
    /\ UNCHANGED <<card, cardOf, running, writer, adminVars>>

\* otp generate with the purpose LOGIN uses up every unblock session.
GenerateLoginOTP ==
    /\ running = Idle
    /\ \E s \in Sessions : session[s].kind = "unblock" /\ session[s].state = "verified"
    /\ session' = [s \in Sessions |->
                     IF session[s].kind = "unblock"
                     THEN [session[s] EXCEPT !.state = "used"] ELSE session[s]]
    /\ UNCHANGED <<card, cardOf, running, writer, adminVars>>
------------------------------------------------------------------------------
(* Commands: SELECTs *)

\* Mutation of Load: the restriction on cards an administrator blocked is
\* checked by unblock_ini alone.
LoadForAnyone(command, c, actor, s) ==
    /\ running = Idle
    /\ card[c].status \in Accepted[command]
    /\ s # None <=> command \in {"activate", "unblock"}
    /\ command = "activate" => session[s].state = "verified"
    /\ command = "unblock" => session[s].state \in {"sent", "verified"}
    /\ command = "replace" => cardOf = c
    /\ running' = [command |-> command, card |-> c, actor |-> actor, session |-> s,
                   linked |-> cardOf = c, status |-> account.status]
    /\ UNCHANGED <<card, cardOf, session, writer, adminVars>>

\* A command passes its checks and has read all it needs.  Activation takes
\* a verified row, unblocking any unused one, whatever its purpose and the
\* card it was opened for.  Replacing a card without an account fails before
\* the COMMIT.  Only users activate cards.
Load(command, c, actor, s) ==
    /\ running = Idle
    /\ card[c].status \in Accepted[command]
    /\ s # None <=> command \in {"activate", "unblock"}
    /\ command = "activate" => actor = "USER" /\ session[s].state = "verified"
    /\ command = "unblock" =>
          /\ session[s].state \in {"sent", "verified"}
          /\ card[c].status = "BLOCKED_FRAUD" => actor = "ADMIN"
    /\ command = "replace" => cardOf = c
    /\ running' = [command |-> command, card |-> c, actor |-> actor, session |-> s,
                   linked |-> cardOf = c, status |-> account.status]
    /\ UNCHANGED <<card, cardOf, session, writer, adminVars>>
------------------------------------------------------------------------------
(* Commands: COMMITs *)

Executing(command) == running.command = command

\* The status of the linked account; nothing is written when it is the one
\* read.
SetAccount(status) ==
    IF running.linked /\ running.status # status
    THEN /\ account' = [account EXCEPT !.status = status]
         /\ writer' = "cards"
    ELSE UNCHANGED <<account, writer>>

Respond == running' = Idle /\ UNCHANGED <<ledger, request, row, undone>>

UseSession == session' = [session EXCEPT ![running.session].state = "used"]

Activate ==
    /\ Executing("activate")
    /\ card' = Moved(running.card, "ACTIVE", "ACTIVE")
    /\ SetAccount("ACTIVE")
    /\ UseSession
    /\ Respond
    /\ UNCHANGED cardOf

Block ==
    /\ Executing("block")
    /\ card' = Moved(running.card,
                     IF running.actor = "USER" THEN "BLOCKED_USER" ELSE "BLOCKED_FRAUD",
                     "BLOCKED")
    /\ SetAccount("FROZEN")
    /\ Respond
    /\ UNCHANGED <<cardOf, session>>

ConfirmUnblock ==
    /\ Executing("unblock")
    /\ card' = Moved(running.card, "ACTIVE", "ACTIVE")
    /\ SetAccount("ACTIVE")
    /\ UseSession
    /\ Respond
    /\ UNCHANGED cardOf

\* Mutation of Replace: the old card keeps its status.
ReplaceKeepsOld ==
    /\ Executing("replace")
    /\ \E new \in Cards :
         /\ card[new] = NoCard
         /\ card' = [card EXCEPT ![new] = NewCard(running.card)]
         /\ cardOf' = new
    /\ Respond
    /\ UNCHANGED <<session, account, writer>>

\* The old card is retired and the account linked to a new one.  After the
\* COMMIT the handler fails on a name that does not exist: the client is
\* told of an error.
Replace ==
    /\ Executing("replace")
    /\ \E new \in Cards :
         /\ card[new] = NoCard
         /\ card' = [Moved(running.card, "REPLACED", "EXPIRED")
                       EXCEPT ![new] = NewCard(running.card)]
         /\ cardOf' = new
    /\ Respond
    /\ UNCHANGED <<session, account, writer>>

\* Mutation of Terminate: the account stays open.
TerminateCardOnly ==
    /\ Executing("terminate")
    /\ card' = Moved(running.card, "TERMINATED", "BLOCKED")
    /\ Respond
    /\ UNCHANGED <<cardOf, session, account, writer>>

\* The outstanding balance it looks at is zero: no code changes that column.
Terminate ==
    /\ Executing("terminate")
    /\ card' = Moved(running.card, "TERMINATED", "BLOCKED")
    /\ SetAccount("CLOSED")
    /\ Respond
    /\ UNCHANGED <<cardOf, session>>

\* Mutation of Freeze: the second row is forgotten.
FreezeOneRow ==
    /\ Executing("freeze")
    /\ card' = [card EXCEPT ![running.card].status = "BLOCKED_TEMP"]
    /\ Respond
    /\ UNCHANGED <<cardOf, session, account, writer>>

Freeze ==
    /\ Executing("freeze")
    /\ card' = Moved(running.card, "BLOCKED_TEMP", "BLOCKED")
    /\ Respond
    /\ UNCHANGED <<cardOf, session, account, writer>>

Unfreeze ==
    /\ Executing("unfreeze")
    /\ card' = Moved(running.card, "ACTIVE", "ACTIVE")
    /\ Respond
    /\ UNCHANGED <<cardOf, session, account, writer>>

\* A COMMIT that fails, or a stop of the process: rolled back.
Abandon ==
    /\ running # Idle
    /\ Respond
    /\ UNCHANGED <<card, cardOf, session, account, writer>>

\* The steps of AccountAdmin.
Administer ==
    /\ Next
    /\ writer' = IF account'.status # account.status THEN "admin" ELSE writer
    /\ UNCHANGED <<card, cardOf, session, running>>

Commit ==
    \/ Activate \/ Block \/ ConfirmUnblock \/ Replace
    \/ Terminate \/ Freeze \/ Unfreeze \/ Abandon

CardNext ==
    \/ \E c \in Cards, s \in Sessions : GenerateActivation(c, s)
    \/ \E c \in Cards, actor \in Actors :
         \/ \E s \in Sessions : InitiateUnblock(c, actor, s)
         \/ \E command \in DOMAIN Accepted, s \in Sessions \cup {None} :
              Load(command, c, actor, s)
    \/ \E c \in Cards : IssueCard(c)
    \/ \E s \in Sessions : GenerateOTP(s) \/ VerifyOTP(s)
    \/ GenerateLoginOTP
    \/ Commit
    \/ Administer

CardSpec == CardInit /\ [][CardNext]_vars
------------------------------------------------------------------------------
(* Properties *)

\* Every row has the types of its columns, and the event loop one command.
CardTypeOK ==
    /\ TypeOK
    /\ card \in [Cards -> [status : Statuses, mirror : Mirrors, from : Cards \cup {None}]]
    /\ cardOf \in Cards \cup {None}
    /\ session \in [Sessions -> [kind : {"none", "activation", "unblock"},
                                 state : {"none", "sent", "verified", "used"}]]
    /\ running \in Command \cup {Idle}
    /\ writer \in {"cards", "admin"}

\* The two tables tell the same of a card, whatever commands it went through:
\* authorization reads one, the commands decide on the other.
MirrorAgrees ==
    \A c \in Cards : card[c].mirror = IF Mirrored THEN MirrorOf(card[c].status)
                                                   ELSE "none"

\* A card is replaced at most once, even by a client that repeats a
\* replacement it was told had failed; the card that was replaced is out of
\* use, and a replaced card has its successor.
OneSuccessor ==
    /\ \A c, d \in Cards : card[c].from # None /\ card[c].from = card[d].from => c = d
    /\ \A c \in Cards : card[c].from # None =>
          card[card[c].from].status \in {"REPLACED", "TERMINATED"}
    /\ \A c \in Cards : card[c].status = "REPLACED" => \E d \in Cards : card[d].from = c

\* The account is never left with a card that was replaced.
LinkedIsNotReplaced == cardOf # None => card[cardOf].status # "REPLACED"

\* TERMINATED is final, REPLACED is left for TERMINATED only.
RetiredIsFinal ==
    [][\A c \in Cards :
         /\ card[c].status = "TERMINATED" => card'[c].status = "TERMINATED"
         /\ card[c].status = "REPLACED" => card'[c].status \in {"REPLACED", "TERMINATED"}]_vars

\* "Only an admin can unblock this card": a card an administrator blocked
\* becomes usable again by an administrator's command.
AdminBlockHolds ==
    [][\A c \in Cards :
         card[c].status = "BLOCKED_FRAUD" /\ card'[c].status = "ACTIVE"
             => running.actor = "ADMIN"]_vars

\* While cards wrote the status of the account last, it fits the linked
\* card: an account is never usable through a blocked card, nor closed or
\* frozen under an active one.
AccountFollowsCard ==
    writer = "cards" /\ cardOf # None =>
        /\ card[cardOf].status \in {"ACTIVE", "BLOCKED_TEMP"} => account.status = "ACTIVE"
        /\ card[cardOf].status \in {"BLOCKED_USER", "BLOCKED_FRAUD"} => account.status = "FROZEN"
        /\ card[cardOf].status = "TERMINATED" => account.status = "CLOSED"
==============================================================================
