------------------------------ MODULE Identity -------------------------------
(***************************************************************************)
(* Users and administrators: how their rows are made, how an address is    *)
(* verified with a one-time password, and what a login or a reset of the   *)
(* password hands out.                                                     *)
(*                                                                         *)
(* Registration, creation of administrators, login, logout and reset run   *)
(* in the thread pool.  The OTP dispatcher is an async handler without an  *)
(* await: it has the event loop for itself, so each of its commands is one *)
(* step.  A registration asks for a free address and for the largest       *)
(* number in use in two queries, and inserts in a third; only the unique   *)
(* indexes of the table relate them.                                       *)
(***************************************************************************)
EXTENDS Naturals, FiniteSets, Sequences, Access

CONSTANTS
    Threads,      \* worker threads
    Emails,       \* Emails[kind]: addresses that ask for an account
    NoEmail,      \* stands for the addresses of rows made before
    Existing,     \* Existing[kind]: numbered rows made before
    MaxPadded,    \* largest number of the padded width (999999)
    Watched,      \* bound: user numbers that ask for passwords and log in
    MaxOpen,      \* bound: calls in flight
    MaxCodes,     \* bound: one-time passwords
    MaxSessions   \* bound: tokens handed out when there is a login

Kinds == {"user", "admin"}

ASSUME IdentityAssumption ==
    /\ DOMAIN Emails = Kinds
    /\ \A kind \in Kinds : NoEmail \notin Emails[kind]
    /\ MaxPadded \in Nat \ {0}
    /\ Existing \in [Kinds -> 0 .. MaxPadded]
    /\ Watched \subseteq Nat \ {0}
    /\ {MaxOpen, MaxCodes, MaxSessions} \subseteq Nat

VARIABLES
    rows,      \* rows[kind][number]: committed rows of users and admins
    call,      \* call[t]: what thread t is doing
    created,   \* answers 201, with the address and the number they name
    otp,       \* rows of otp_codes; a code is its index
    session,   \* tokens of logins and of accepted reset codes; a jti is an index
    revoked    \* token_blacklist

vars == <<rows, call, created, otp, session, revoked>>

Purposes == {"REGISTRATION", "PASSWORD_RESET"}
Addresses == Emails["user"] \cup Emails["admin"]
NoCall == [at |-> "idle"]
Registering ==
    [at : {"checked", "numbered", "inserted"}, kind : Kinds, email : Addresses, number : Nat]
LoggingOut == [at : {"leaving"}, jti : Nat]

Row == [email : Addresses \cup {NoEmail}, status : {"UNVERIFIED", "ACTIVE"}, password : Nat]
Code == [user : Nat, purpose : Purposes, used : BOOLEAN, verified : BOOLEAN, expired : BOOLEAN]

\* A token names the code that brought it, or 0 if a login did.
Session == [kind : Kinds, subject : Nat, code : Nat, expired : BOOLEAN]

\* The row the seeder made: SUPERADMIN, with an employee_id ("01") that has
\* no place in the sequence of numbers.
Superadmin == 0

Numbers(kind) == DOMAIN rows[kind] \ {Superadmin}
Open == {t \in Threads : call[t] # NoCall}
OldRow == [email |-> NoEmail, status |-> "ACTIVE", password |-> 0]

Init ==
    /\ rows = [user  |-> [n \in 1 .. Existing["user"] |-> OldRow],
               admin |-> [n \in 0 .. Existing["admin"] |-> OldRow]]
    /\ call = [t \in Threads |-> NoCall]
    /\ created = {}
    /\ otp = <<>>
    /\ session = <<>>
    /\ revoked = {}
------------------------------------------------------------------------------
(* Registration, and creation of administrators *)

\* The place of "ZNBNQ" and n in the order of strings: numbers are padded to
\* one width, and one that is longer comes right after its own prefix.
TextOrder(n) == IF n <= MaxPadded THEN 20 * n ELSE 2 * n + 1

\* generate_znbnq_id, generate_znbad_id: the last identifier plus one.
Last(kind) == CHOOSE n \in Numbers(kind) : \A m \in Numbers(kind) : TextOrder(m) <= TextOrder(n)
NextNumber(kind) == IF Numbers(kind) = {} THEN 1 ELSE Last(kind) + 1

Taken(kind, email) == \E n \in DOMAIN rows[kind] : rows[kind][n].email = email

\* A token that require() lets pass: it does not look at the purpose, so the
\* token of a reset code opens what a user's login opens.
Valid(jti) == jti \in DOMAIN session /\ ~session[jti].expired /\ jti \notin revoked

RoleOf(jti) ==
    CASE session[jti].kind = "user" -> "USER"
      [] session[jti].kind = "admin" /\ session[jti].subject = Superadmin -> "SUPERADMIN"
      [] OTHER -> "ADMIN"

MayRegister(kind) ==
    kind = "user" \/ \E jti \in DOMAIN session : Valid(jti) /\ May(RoleOf(jti), "admin_create")

\* The address is free; otherwise the answer is 409.
Register(t, kind, email) ==
    /\ call[t] = NoCall
    /\ Cardinality(Open) < MaxOpen
    /\ MayRegister(kind)
    /\ ~Taken(kind, email)
    /\ call' = [call EXCEPT ![t] = [at |-> "checked", kind |-> kind, email |-> email, number |-> 0]]
    /\ UNCHANGED <<rows, created, otp, session, revoked>>

\* Mutation of TakeNumber: the rows are counted.
TakeNumberOfRows(t) ==
    /\ call[t].at = "checked"
    /\ call' = [call EXCEPT ![t].at = "numbered",
                            ![t].number = Cardinality(DOMAIN rows[call[t].kind]) + 1]
    /\ UNCHANGED <<rows, created, otp, session, revoked>>

TakeNumber(t) ==
    /\ call[t].at = "checked"
    /\ call' = [call EXCEPT ![t].at = "numbered", ![t].number = NextNumber(call[t].kind)]
    /\ UNCHANGED <<rows, created, otp, session, revoked>>

\* Another transaction has inserted the number or the address, unconfirmed.
Waits(t) ==
    \E u \in Open \ {t} :
       /\ call[u].at = "inserted"
       /\ call[u].kind = call[t].kind
       /\ call[u].number = call[t].number \/ call[u].email = call[t].email

Duplicate(t) ==
    \/ call[t].number \in DOMAIN rows[call[t].kind]
    \/ Taken(call[t].kind, call[t].email)

\* Mutations of Insert: the index is on the address only; an insert that
\* fails is tried again.
InsertUniqueEmail(t) ==
    /\ call[t].at = "numbered"
    /\ call' = [call EXCEPT ![t] = IF Taken(call[t].kind, call[t].email) THEN NoCall
                                   ELSE [@ EXCEPT !.at = "inserted"]]
    /\ UNCHANGED <<rows, created, otp, session, revoked>>
InsertRetried(t) ==
    /\ call[t].at = "numbered"
    /\ ~Waits(t)
    /\ call' = [call EXCEPT ![t].at = IF Duplicate(t) THEN "checked" ELSE "inserted"]
    /\ UNCHANGED <<rows, created, otp, session, revoked>>

\* The flush meets the unique indexes: it waits for transactions that are
\* not confirmed, and a duplicate is answered 500.
Insert(t) ==
    /\ call[t].at = "numbered"
    /\ ~Waits(t)
    /\ call' = [call EXCEPT ![t] = IF Duplicate(t) THEN NoCall ELSE [@ EXCEPT !.at = "inserted"]]
    /\ UNCHANGED <<rows, created, otp, session, revoked>>

\* COMMIT, with the profile and the credentials of a user; an administrator
\* needs no verification.
Commit(t) ==
    /\ call[t].at = "inserted"
    /\ LET kind == call[t].kind
           new == [email |-> call[t].email, password |-> 0,
                   status |-> IF kind = "user" THEN "UNVERIFIED" ELSE "ACTIVE"]
       IN rows' = [rows EXCEPT ![kind] =
                     [n \in DOMAIN @ \cup {call[t].number} |->
                        IF n = call[t].number THEN new ELSE @[n]]]
    /\ created' = created \cup
                    {[kind |-> call[t].kind, email |-> call[t].email, number |-> call[t].number]}
    /\ call' = [call EXCEPT ![t] = NoCall]
    /\ UNCHANGED <<otp, session, revoked>>
------------------------------------------------------------------------------
(* The OTP dispatcher *)

\* A code its owner can still use.
Live(c, user, purpose) ==
    c \in DOMAIN otp /\ otp[c].user = user /\ otp[c].purpose = purpose /\ ~otp[c].used

LiveCodes(user, purpose) == {c \in DOMAIN otp : Live(c, user, purpose)}

Fresh(user, purpose) ==
    [user |-> user, purpose |-> purpose, used |-> FALSE, verified |-> FALSE, expired |-> FALSE]

\* command=generate: unused codes of the purpose are used up.  (For an
\* administrator the row breaks its foreign key, and nothing is stored.)
Generate(user, purpose) ==
    /\ user \in DOMAIN rows["user"]
    /\ Len(otp) < MaxCodes
    /\ otp' = Append([c \in DOMAIN otp |->
                        [otp[c] EXCEPT !.used = @ \/ Live(c, user, purpose)]],
                     Fresh(user, purpose))
    /\ UNCHANGED <<rows, call, created, session, revoked>>

\* What an accepted code brings: an ACTIVE user, or a token for the reset of
\* the password, whatever the status of the user.
Accept(c) ==
    /\ otp' = [otp EXCEPT ![c].verified = TRUE, ![c].used = TRUE]
    /\ IF otp[c].purpose = "REGISTRATION"
       THEN /\ rows' = [rows EXCEPT !["user"][otp[c].user].status = "ACTIVE"]
            /\ UNCHANGED session
       ELSE /\ session' = Append(session, [kind |-> "user", subject |-> otp[c].user,
                                           code |-> c, expired |-> FALSE])
            /\ UNCHANGED rows
    /\ UNCHANGED <<call, created, revoked>>

\* Mutation of Verify: the expiry is not looked at.
VerifyLate(c) ==
    /\ LiveCodes(otp[c].user, otp[c].purpose) = {c}
    /\ Accept(c)

\* command=verify: the only unused code of the user and purpose, in time.
\* Two of them would be answered 500, anything else 422.
Verify(c) ==
    /\ LiveCodes(otp[c].user, otp[c].purpose) = {c}
    /\ ~otp[c].expired
    /\ Accept(c)

\* Ten minutes pass; for a used code nothing depends on it.
ExpireCode(c) ==
    /\ ~otp[c].expired
    /\ ~otp[c].used
    /\ otp' = [otp EXCEPT ![c].expired = TRUE]
    /\ UNCHANGED <<rows, call, created, session, revoked>>
------------------------------------------------------------------------------
(* Password reset, login, logout *)

\* Mutation of ResetPassword: the purpose of the token is not looked at.
ResetWithAnyToken(jti) ==
    /\ ~session[jti].expired
    /\ session[jti].subject \in DOMAIN rows["user"]
    /\ rows' = [rows EXCEPT !["user"][session[jti].subject].password = session[jti].code]
    /\ UNCHANGED <<call, created, otp, session, revoked>>

\* The token names the purpose and the user; it may be used until it
\* expires, and after a logout too: the blacklist is not looked at.  A
\* password is known by the code it was reset with.
ResetPassword(jti) ==
    /\ session[jti].code # 0
    /\ ~session[jti].expired
    /\ rows' = [rows EXCEPT !["user"][session[jti].subject].password = session[jti].code]
    /\ UNCHANGED <<call, created, otp, session, revoked>>

\* Mutation of Login: no look at the status.
LoginUnverified(kind, n) ==
    /\ n \in DOMAIN rows[kind]
    /\ Len(session) < MaxSessions
    /\ session' = Append(session, [kind |-> kind, subject |-> n, code |-> 0, expired |-> FALSE])
    /\ UNCHANGED <<rows, call, created, otp, revoked>>

\* The password is right, and a user is ACTIVE.
Login(kind, n) ==
    /\ n \in DOMAIN rows[kind]
    /\ rows[kind][n].status = "ACTIVE"
    /\ Len(session) < MaxSessions
    /\ session' = Append(session, [kind |-> kind, subject |-> n, code |-> 0, expired |-> FALSE])
    /\ UNCHANGED <<rows, call, created, otp, revoked>>

\* One hour passes for a user, eight for an administrator, fifteen minutes
\* for the token of a reset code; nothing depends on it for a revoked login.
ExpireSession(jti) ==
    /\ ~session[jti].expired
    /\ jti \in revoked => session[jti].code # 0
    /\ session' = [session EXCEPT ![jti].expired = TRUE]
    /\ UNCHANGED <<rows, call, created, otp, revoked>>

\* The token passes require() and is not in the blacklist.
Logout(t, jti) ==
    /\ call[t] = NoCall
    /\ Cardinality(Open) < MaxOpen
    /\ Valid(jti)
    /\ call' = [call EXCEPT ![t] = [at |-> "leaving", jti |-> jti]]
    /\ UNCHANGED <<rows, created, otp, session, revoked>>

\* COMMIT of the blacklist row.  The second of two threads meets the primary
\* key, rolls back and answers 500.
Revoke(t) ==
    /\ call[t].at = "leaving"
    /\ revoked' = revoked \cup {call[t].jti}
    /\ call' = [call EXCEPT ![t] = NoCall]
    /\ UNCHANGED <<rows, created, otp, session>>

\* The process stops: what is not committed is rolled back.
Restart ==
    /\ Open # {}
    /\ call' = [t \in Threads |-> NoCall]
    /\ UNCHANGED <<rows, created, otp, session, revoked>>

\* Nothing is in flight; the system may stay as it is (no deadlock).
Finished ==
    /\ Open = {}
    /\ UNCHANGED vars

Serve(t) == TakeNumber(t) \/ Insert(t) \/ Commit(t) \/ Revoke(t)

Next ==
    \/ \E t \in Threads :
         \/ \E kind \in Kinds : \E email \in Emails[kind] : Register(t, kind, email)
         \/ TakeNumber(t)
         \/ Insert(t)
         \/ Commit(t)
         \/ \E jti \in DOMAIN session : Logout(t, jti)
         \/ Revoke(t)
    \/ \E user \in Watched, purpose \in Purposes : Generate(user, purpose)
    \/ \E c \in DOMAIN otp : Verify(c) \/ ExpireCode(c)
    \/ \E n \in Watched : Login("user", n)
    \/ \E n \in DOMAIN rows["admin"] : Login("admin", n)
    \/ \E jti \in DOMAIN session : ResetPassword(jti) \/ ExpireSession(jti)
    \/ Restart
    \/ Finished

\* The thread pool and the database let every call go on; each step of a
\* thread changes its call.
Fairness == \A t \in Threads : WF_call(Serve(t))

Spec == Init /\ [][Next]_vars /\ Fairness
------------------------------------------------------------------------------
(* Properties *)

\* Rows, calls, codes and tokens have the types of their columns and claims.
TypeOK ==
    /\ DOMAIN rows = Kinds
    /\ \A kind \in Kinds : DOMAIN rows[kind] \subseteq Nat
    /\ \A kind \in Kinds : rows[kind] \in [DOMAIN rows[kind] -> Row]
    /\ call \in [Threads -> {NoCall} \cup Registering \cup LoggingOut]
    /\ created \subseteq [kind : Kinds, email : Addresses, number : Nat]
    /\ otp \in Seq(Code)
    /\ session \in Seq(Session)
    /\ revoked \subseteq DOMAIN session

\* generate_znbnq_id promises a sequential identifier: although threads
\* compute it from what others have not committed, no number is left out.
\* The sequence ends one after the padded width, where the next identifier
\* of the code is one in use.
IdentifiersSequential ==
    \A kind \in Kinds : \E last \in 0 .. MaxPadded + 1 : Numbers(kind) = 1 .. last

\* A client that was told its number keeps it: no later registration takes
\* over its row, and no address has two rows.
CreatedOwnTheirRows ==
    \A a \in created :
       {n \in DOMAIN rows[a.kind] : rows[a.kind][n].email = a.email} = {a.number}

\* A code that was superseded, has expired or was accepted before is not
\* accepted, and brings no token, however late its answer comes.
StaleCodesRefused ==
    [][\A c \in DOMAIN otp :
          \/ otp'[c].verified /\ ~otp[c].verified
          \/ \E jti \in DOMAIN session' \ DOMAIN session : session'[jti].code = c
          => /\ ~otp[c].expired /\ ~otp[c].verified
             /\ \A d \in DOMAIN otp :
                   d > c => <<otp[d].user, otp[d].purpose>> # <<otp[c].user, otp[c].purpose>>]_vars

\* Whoever holds a token of a user has read a code sent to that user, unless
\* the account was verified before: a registration code if the token is of a
\* login, and else the reset code that brought it.
TokensFollowCodes ==
    \A jti \in DOMAIN session :
       session[jti].kind = "user" /\ session[jti].subject > Existing["user"] =>
          \E c \in DOMAIN otp :
             /\ otp[c].user = session[jti].subject /\ otp[c].verified
             /\ \/ session[jti].code = 0 /\ otp[c].purpose = "REGISTRATION"
                \/ session[jti].code = c /\ otp[c].purpose = "PASSWORD_RESET"

\* A password is changed only by one who has read a reset code of that user,
\* and while its token was valid: no login, and no code for another purpose,
\* is enough.
PasswordsFollowCodes ==
    [][\A n \in DOMAIN rows["user"] :
          rows'["user"][n].password # rows["user"][n].password =>
             \E jti \in DOMAIN session : \E c \in DOMAIN otp :
                /\ session[jti].code = c /\ ~session[jti].expired
                /\ otp[c].user = n /\ otp[c].purpose = "PASSWORD_RESET" /\ otp[c].verified
                /\ rows'["user"][n].password = c]_vars

\* Every call that began is answered, whatever unconfirmed row it waits for.
EveryCallAnswered == \A t \in Threads : call[t] # NoCall ~> call[t] = NoCall
==============================================================================
