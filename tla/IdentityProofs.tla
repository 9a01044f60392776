---------------------------- MODULE IdentityProofs -----------------------------
(***************************************************************************)
(* Registrations, codes and sessions for any number of threads, addresses  *)
(* and rows made before, and any bounds.  What is proved rests on two      *)
(* facts: a thread that has inserted a row keeps others from its number    *)
(* and address until it commits, and of the codes of a user and purpose    *)
(* only the last one can be unused.                                        *)
(***************************************************************************)
EXTENDS Identity, TLAPS

------------------------------------------------------------------------------
(* Types *)

LEMMA Constants ==
    /\ "user" \in Kinds /\ "admin" \in Kinds
    /\ \A kind \in Kinds : Emails[kind] \subseteq Addresses
    /\ NoEmail \notin Addresses
    /\ MaxPadded \in Nat /\ MaxPadded > 0
    /\ \A kind \in Kinds : Existing[kind] \in 0 .. MaxPadded
    /\ MaxOpen \in Nat /\ MaxCodes \in Nat /\ MaxSessions \in Nat
  BY IdentityAssumption DEF Kinds, Addresses

LEMMA TypeInit == Init => TypeOK
<1> SUFFICES ASSUME Init PROVE TypeOK
  OBVIOUS
<1>1. OldRow \in Row
  BY DEF OldRow, Row
<1>2. \A kind \in Kinds : DOMAIN rows[kind] \subseteq Nat
                          /\ rows[kind] \in [DOMAIN rows[kind] -> Row]
  <2>1. /\ rows["user"] = [n \in 1 .. Existing["user"] |-> OldRow]
        /\ rows["admin"] = [n \in 0 .. Existing["admin"] |-> OldRow]
    BY DEF Init
  <2>2. Existing["user"] \in Nat /\ Existing["admin"] \in Nat
    BY Constants
  <2>3. /\ DOMAIN rows["user"] = 1 .. Existing["user"]
        /\ DOMAIN rows["admin"] = 0 .. Existing["admin"]
    BY <2>1
  <2>4. QED
    BY <1>1, <2>1, <2>2, <2>3 DEF Kinds
<1>3. DOMAIN rows = Kinds
  BY DEF Init, Kinds
<1>4. otp \in Seq(Code) /\ session \in Seq(Session)
  BY DEF Init
<1>5. QED
  BY <1>2, <1>3, <1>4 DEF Init, TypeOK

\* What the steps of a registration or of a logout leave of a call.
LEMMA CallTypes ==
    ASSUME TypeOK, NEW t \in Threads
    PROVE  /\ call[t].at \in {"checked", "numbered", "inserted"} =>
                 /\ call[t] \in Registering
                 /\ call[t].kind \in Kinds
                 /\ call[t].email \in Addresses
                 /\ call[t].number \in Nat
           /\ call[t].at = "leaving" => call[t].jti \in Nat
           /\ call[t].at = "idle" <=> call[t] = NoCall
  BY DEF TypeOK, NoCall, Registering, LoggingOut

\* A logout names a token that was handed out.
Typed ==
    /\ TypeOK
    /\ \A t \in Threads : call[t].at = "leaving" => call[t].jti \in DOMAIN session

\* Calls that are answered or go on keep to their types.
LEMMA CallStep ==
    ASSUME TypeOK, NEW t \in Threads, NEW new \in {NoCall} \cup Registering \cup LoggingOut,
           call' = [call EXCEPT ![t] = new]
    PROVE  /\ call' \in [Threads -> {NoCall} \cup Registering \cup LoggingOut]
           /\ call'[t] = new
           /\ \A u \in Threads \ {t} : call'[u] = call[u]
  BY DEF TypeOK

\* Rows of one kind are changed.
LEMMA RowsStep ==
    ASSUME TypeOK, NEW kind \in Kinds, NEW new, DOMAIN new \subseteq Nat,
           new \in [DOMAIN new -> Row],
           rows' = [rows EXCEPT ![kind] = new]
    PROVE  /\ DOMAIN rows' = Kinds
           /\ rows'[kind] = new
           /\ \A k \in Kinds \ {kind} : rows'[k] = rows[k]
           /\ \A k \in Kinds :
                 DOMAIN rows'[k] \subseteq Nat /\ rows'[k] \in [DOMAIN rows'[k] -> Row]
  BY DEF TypeOK

\* The row that a COMMIT adds.
Added(t) ==
    [email |-> call[t].email, password |-> 0,
     status |-> IF call[t].kind = "user" THEN "UNVERIFIED" ELSE "ACTIVE"]

LEMMA Commits ==
    ASSUME TypeOK, NEW t \in Threads, Commit(t)
    PROVE  LET kind == call[t].kind
               number == call[t].number
           IN  /\ kind \in Kinds /\ number \in Nat /\ call[t].email \in Addresses
               /\ DOMAIN rows' = Kinds
               /\ DOMAIN rows'[kind] = DOMAIN rows[kind] \cup {number}
               /\ rows'[kind][number] = Added(t)
               /\ \A n \in DOMAIN rows[kind] \ {number} : rows'[kind][n] = rows[kind][n]
               /\ \A k \in Kinds \ {kind} : rows'[k] = rows[k]
               /\ \A k \in Kinds : /\ DOMAIN rows'[k] \subseteq Nat
                                   /\ rows'[k] \in [DOMAIN rows'[k] -> Row]
               /\ call' = [call EXCEPT ![t] = NoCall]
               /\ created' = created \cup
                     {[kind |-> kind, email |-> call[t].email, number |-> number]}
               /\ UNCHANGED <<otp, session, revoked>>
<1> DEFINE kind == call[t].kind
           number == call[t].number
           new == [n \in DOMAIN rows[kind] \cup {number} |->
                     IF n = number THEN Added(t) ELSE rows[kind][n]]
<1>1. kind \in Kinds /\ number \in Nat /\ call[t].email \in Addresses
  BY CallTypes DEF Commit
<1>2. Added(t) \in Row
  BY <1>1 DEF Added, Row
<1>3. rows' = [rows EXCEPT ![kind] = new]
  BY DEF Commit, Added
<1>4. DOMAIN rows[kind] \subseteq Nat /\ rows[kind] \in [DOMAIN rows[kind] -> Row]
  BY <1>1 DEF TypeOK
<1>5. DOMAIN new = DOMAIN rows[kind] \cup {number}
  OBVIOUS
<1>6. DOMAIN new \subseteq Nat /\ new \in [DOMAIN new -> Row]
  BY <1>1, <1>2, <1>4, <1>5
<1> HIDE DEF new
<1>7. /\ DOMAIN rows' = Kinds /\ rows'[kind] = new
      /\ \A k \in Kinds \ {kind} : rows'[k] = rows[k]
      /\ \A k \in Kinds : DOMAIN rows'[k] \subseteq Nat /\ rows'[k] \in [DOMAIN rows'[k] -> Row]
  BY <1>1, <1>3, <1>6, RowsStep
<1>8. new[number] = Added(t) /\ \A n \in DOMAIN rows[kind] \ {number} : new[n] = rows[kind][n]
  BY DEF new
<1>9. QED
  BY <1>1, <1>5, <1>7, <1>8 DEF Commit

\* A user's row is updated: its address stays, and others stay as they are.
LEMMA Updates ==
    ASSUME TypeOK, NEW n \in DOMAIN rows["user"], NEW new \in Row,
           new.email = rows["user"][n].email,
           rows' = [rows EXCEPT !["user"] = [rows["user"] EXCEPT ![n] = new]]
    PROVE  /\ DOMAIN rows' = Kinds
           /\ rows'["user"][n] = new
           /\ \A m \in DOMAIN rows["user"] \ {n} : rows'["user"][m] = rows["user"][m]
           /\ rows'["admin"] = rows["admin"]
           /\ \A k \in Kinds : /\ DOMAIN rows'[k] = DOMAIN rows[k]
                               /\ DOMAIN rows'[k] \subseteq Nat
                               /\ rows'[k] \in [DOMAIN rows'[k] -> Row]
                               /\ \A m \in DOMAIN rows[k] : rows'[k][m].email = rows[k][m].email
<1> DEFINE all == [rows["user"] EXCEPT ![n] = new]
<1>1. DOMAIN rows["user"] \subseteq Nat /\ rows["user"] \in [DOMAIN rows["user"] -> Row]
  BY Constants DEF TypeOK
<1>2. /\ DOMAIN all = DOMAIN rows["user"] /\ all \in [DOMAIN all -> Row]
      /\ all[n] = new /\ \A m \in DOMAIN rows["user"] \ {n} : all[m] = rows["user"][m]
  BY <1>1
<1>3. /\ DOMAIN rows' = Kinds /\ rows'["user"] = all
      /\ \A k \in Kinds \ {"user"} : rows'[k] = rows[k]
      /\ \A k \in Kinds : DOMAIN rows'[k] \subseteq Nat /\ rows'[k] \in [DOMAIN rows'[k] -> Row]
  <2> HIDE DEF all
  <2>1. rows' = [rows EXCEPT !["user"] = all]
    BY DEF all
  <2>2. QED
    BY <1>1, <1>2, <2>1, RowsStep, Constants
<1>4. QED
  BY <1>2, <1>3 DEF Kinds

\* One code of the table is replaced.
LEMMA CodeChanges ==
    ASSUME TypeOK, NEW c \in DOMAIN otp, NEW new \in Code, otp' = [otp EXCEPT ![c] = new]
    PROVE  /\ otp' \in Seq(Code) /\ DOMAIN otp' = DOMAIN otp /\ Len(otp') = Len(otp)
           /\ otp'[c] = new /\ \A d \in DOMAIN otp \ {c} : otp'[d] = otp[d]
<1>1. otp \in Seq(Code)
  BY DEF TypeOK
<1> HIDE DEF Code
<1>2. QED
  BY <1>1

\* A code is added, and those it supersedes are used up.
LEMMA Generates ==
    ASSUME TypeOK, NEW user \in Nat, NEW purpose \in Purposes, Generate(user, purpose)
    PROVE  /\ otp' \in Seq(Code)
           /\ Len(otp) \in Nat /\ DOMAIN otp = 1 .. Len(otp)
           /\ DOMAIN otp' = DOMAIN otp \cup {Len(otp) + 1}
           /\ otp'[Len(otp) + 1] = Fresh(user, purpose)
           /\ \A c \in DOMAIN otp :
                 /\ otp'[c].user = otp[c].user /\ otp'[c].purpose = otp[c].purpose
                 /\ otp'[c].verified = otp[c].verified /\ otp'[c].expired = otp[c].expired
                 /\ otp'[c].used = (otp[c].used \/ Live(c, user, purpose))
<1> DEFINE Superseded(c) == [otp[c] EXCEPT !.used = @ \/ Live(c, user, purpose)]
           old == [c \in DOMAIN otp |-> Superseded(c)]
<1>1. otp \in Seq(Code) /\ Len(otp) \in Nat /\ DOMAIN otp = 1 .. Len(otp)
  BY DEF TypeOK
<1>2. \A c \in DOMAIN otp : otp[c] \in Code
  BY <1>1
<1>3. \A c \in DOMAIN otp : Live(c, user, purpose) \in BOOLEAN
  BY DEF Live
<1>4. ASSUME NEW c \in DOMAIN otp
      PROVE  /\ Superseded(c) \in Code
             /\ Superseded(c).user = otp[c].user /\ Superseded(c).purpose = otp[c].purpose
             /\ Superseded(c).verified = otp[c].verified
             /\ Superseded(c).expired = otp[c].expired
             /\ Superseded(c).used = (otp[c].used \/ Live(c, user, purpose))
  <2>1. otp[c] \in Code /\ Live(c, user, purpose) \in BOOLEAN
    BY <1>2, <1>3
  <2>2. (otp[c].used \/ Live(c, user, purpose)) \in BOOLEAN
    OBVIOUS
  <2>3. QED
    BY <2>1, <2>2, Zenon DEF Code
<1>5. Fresh(user, purpose) \in Code
  BY DEF Fresh, Code
<1> HIDE DEF Superseded
<1>6. old \in Seq(Code) /\ Len(old) = Len(otp) /\ DOMAIN old = 1 .. Len(otp)
  BY <1>1, <1>4
<1>7. otp' = Append(old, Fresh(user, purpose))
  BY DEF Generate, Superseded
<1>8. /\ otp' \in Seq(Code) /\ DOMAIN otp' = DOMAIN otp \cup {Len(otp) + 1}
      /\ otp'[Len(otp) + 1] = Fresh(user, purpose)
      /\ \A c \in DOMAIN otp : otp'[c] = Superseded(c)
  BY <1>1, <1>5, <1>6, <1>7
<1>9. QED
  BY <1>1, <1>4, <1>8

\* What an accepted code changes.
LEMMA Accepts ==
    ASSUME TypeOK, NEW c \in DOMAIN otp, Accept(c)
    PROVE  LET new == [otp[c] EXCEPT !.verified = TRUE, !.used = TRUE]
           IN  /\ new \in Code /\ otp' = [otp EXCEPT ![c] = new]
               /\ new.user = otp[c].user /\ new.purpose = otp[c].purpose
               /\ new.verified /\ new.used /\ new.expired = otp[c].expired
               /\ UNCHANGED <<call, created, revoked>>
<1>1. otp[c] \in Code
  BY DEF TypeOK
<1>2. QED
  BY <1>1 DEF Accept, Code

\* A token is added.
LEMMA TokenAdded ==
    ASSUME TypeOK, NEW new \in Session, session' = Append(session, new)
    PROVE  /\ session' \in Seq(Session) /\ DOMAIN session \subseteq DOMAIN session'
           /\ \A jti \in DOMAIN session : session'[jti] = session[jti]
           /\ \A jti \in DOMAIN session' \ DOMAIN session : session'[jti] = new
<1>1. session \in Seq(Session) /\ Len(session) \in Nat /\ DOMAIN session = 1 .. Len(session)
  BY DEF TypeOK
<1> HIDE DEF Session
<1>2. QED
  BY <1>1

\* The token of a login.
LEMMA LoggedIn ==
    ASSUME TypeOK, NEW kind \in Kinds, NEW n \in Nat, Login(kind, n)
    PROVE  LET new == [kind |-> kind, subject |-> n, code |-> 0, expired |-> FALSE]
           IN  /\ session' \in Seq(Session) /\ DOMAIN session \subseteq DOMAIN session'
               /\ \A jti \in DOMAIN session : session'[jti] = session[jti]
               /\ \A jti \in DOMAIN session' \ DOMAIN session : session'[jti] = new
               /\ new.kind = kind /\ new.subject = n /\ new.code = 0
               /\ UNCHANGED <<rows, call, created, otp, revoked>>
<1> DEFINE new == [kind |-> kind, subject |-> n, code |-> 0, expired |-> FALSE]
<1>1. /\ new \in Session /\ session' = Append(session, new)
      /\ new.kind = kind /\ new.subject = n /\ new.code = 0
      /\ UNCHANGED <<rows, call, created, otp, revoked>>
  BY DEF Login, Session
<1> HIDE DEF new
<1>2. /\ session' \in Seq(Session) /\ DOMAIN session \subseteq DOMAIN session'
      /\ \A jti \in DOMAIN session : session'[jti] = session[jti]
      /\ \A jti \in DOMAIN session' \ DOMAIN session : session'[jti] = new
  BY <1>1, TokenAdded
<1>3. QED
  BY <1>1, <1>2 DEF new

\* Of a token that expires, kind, subject and code stay.
LEMMA SessionExpires ==
    ASSUME TypeOK, NEW jti \in DOMAIN session, ExpireSession(jti)
    PROVE  /\ session' \in Seq(Session) /\ DOMAIN session' = DOMAIN session
           /\ \A j \in DOMAIN session : /\ session'[j].kind = session[j].kind
                                        /\ session'[j].subject = session[j].subject
                                        /\ session'[j].code = session[j].code
           /\ UNCHANGED <<rows, call, created, otp, revoked>>
<1> DEFINE new == [session[jti] EXCEPT !.expired = TRUE]
<1>1. session \in Seq(Session) /\ session[jti] \in Session
  BY DEF TypeOK
<1>2. /\ new \in Session /\ new.kind = session[jti].kind
      /\ new.subject = session[jti].subject /\ new.code = session[jti].code
  BY <1>1 DEF Session
<1>3. session' = [session EXCEPT ![jti] = new] /\ UNCHANGED <<rows, call, created, otp, revoked>>
  BY DEF ExpireSession
<1> HIDE DEF new
<1>4. /\ session' \in Seq(Session) /\ DOMAIN session' = DOMAIN session
      /\ session'[jti] = new /\ \A j \in DOMAIN session \ {jti} : session'[j] = session[j]
  <2> HIDE DEF Session
  <2>1. QED
    BY <1>1, <1>2, <1>3
<1>5. QED
  BY <1>2, <1>3, <1>4

\* The token that an accepted reset code brings.
TokenOf(c) == [kind |-> "user", subject |-> otp[c].user, code |-> c, expired |-> FALSE]

LEMMA AcceptTokens ==
    ASSUME TypeOK, NEW c \in DOMAIN otp, Accept(c)
    PROVE  /\ session' \in Seq(Session) /\ DOMAIN session \subseteq DOMAIN session'
           /\ \A jti \in DOMAIN session : session'[jti] = session[jti]
           /\ \A jti \in DOMAIN session' \ DOMAIN session :
                 /\ session'[jti] = TokenOf(c)
                 /\ otp[c].purpose = "PASSWORD_RESET"
<1>1. otp[c] \in Code /\ c \in Nat /\ session \in Seq(Session)
  BY DEF TypeOK
<1>2. CASE otp[c].purpose = "REGISTRATION"
  <2>1. session' = session
    BY <1>2 DEF Accept
  <2>2. QED
    BY <1>1, <2>1
<1>3. CASE otp[c].purpose # "REGISTRATION"
  <2>1. session' = Append(session, TokenOf(c))
    BY <1>3 DEF Accept, TokenOf
  <2>2. TokenOf(c) \in Session
    BY <1>1 DEF TokenOf, Session, Code, Kinds
  <2>3. otp[c].purpose = "PASSWORD_RESET"
    BY <1>1, <1>3 DEF Code, Purposes
  <2>4. /\ session' \in Seq(Session) /\ DOMAIN session \subseteq DOMAIN session'
        /\ \A jti \in DOMAIN session : session'[jti] = session[jti]
        /\ \A jti \in DOMAIN session' \ DOMAIN session : session'[jti] = TokenOf(c)
    BY <2>1, <2>2, TokenAdded
  <2>5. QED
    BY <2>3, <2>4
<1>4. QED
  BY <1>2, <1>3

------------------------------------------------------------------------------
(* The inductive invariant *)

\* A number that a thread has taken follows one in use.
Numbered ==
    \A t \in Threads : call[t].at \in {"numbered", "inserted"} =>
       /\ call[t].number \in 1 .. MaxPadded + 1
       /\ call[t].number = 1 \/ call[t].number - 1 \in Numbers(call[t].kind)

\* A row that is inserted has its number and address for itself.
Exclusive ==
    \A t \in Threads : call[t].at = "inserted" =>
       /\ call[t].number \notin DOMAIN rows[call[t].kind]
       /\ ~Taken(call[t].kind, call[t].email)
       /\ \A u \in Threads \ {t} :
             call[u].at = "inserted" /\ call[u].kind = call[t].kind =>
                call[u].number # call[t].number /\ call[u].email # call[t].email

Registry ==
    /\ IdentifiersSequential
    /\ Numbered
    /\ Exclusive
    /\ CreatedOwnTheirRows

\* Codes belong to users; one that was accepted is used, and so is one that
\* another has followed.
Codes ==
    /\ \A c \in DOMAIN otp : /\ otp[c].user \in DOMAIN rows["user"]
                             /\ otp[c].verified => otp[c].used
    /\ \A c, d \in DOMAIN otp :
          d > c /\ otp[d].user = otp[c].user /\ otp[d].purpose = otp[c].purpose => otp[c].used

\* A registration code of the user was accepted.
Confirmed(n) ==
    \E c \in DOMAIN otp : otp[c].user = n /\ otp[c].purpose = "REGISTRATION" /\ otp[c].verified

ActiveConfirmed ==
    \A n \in DOMAIN rows["user"] :
       n > Existing["user"] /\ rows["user"][n].status = "ACTIVE" => Confirmed(n)

\* What brought a token: an accepted reset code, or the login of a user who
\* was confirmed.
Brought(token) ==
    /\ token.code = 0 /\ token.kind = "user" /\ token.subject > Existing["user"] =>
          Confirmed(token.subject)
    /\ token.code # 0 =>
          /\ token.kind = "user" /\ token.code \in DOMAIN otp
          /\ otp[token.code].user = token.subject
          /\ otp[token.code].purpose = "PASSWORD_RESET" /\ otp[token.code].verified

TokensBrought == \A jti \in DOMAIN session : Brought(session[jti])

Verification == Codes /\ ActiveConfirmed /\ TokensBrought

IInv == Typed /\ Registry /\ Verification

------------------------------------------------------------------------------
(* Numbers and calls *)

\* The last identifier in the order of text is one with a successor that fits.
LEMMA NextNumbers ==
    ASSUME NEW kind \in Kinds, IdentifiersSequential
    PROVE  /\ NextNumber(kind) \in 1 .. MaxPadded + 1
           /\ NextNumber(kind) = 1 \/ NextNumber(kind) - 1 \in Numbers(kind)
<1>1. PICK last \in 0 .. MaxPadded + 1 : Numbers(kind) = 1 .. last
  BY DEF IdentifiersSequential
<1>2. CASE last = 0
  BY <1>1, <1>2, Constants DEF NextNumber
<1>3. CASE last # 0
  <2> DEFINE m == IF last <= MaxPadded THEN last ELSE MaxPadded
             IsLast(n) == \A k \in Numbers(kind) : TextOrder(k) <= TextOrder(n)
  <2>1. m \in Numbers(kind) /\ m <= MaxPadded
    BY <1>1, <1>3, Constants
  <2>2. IsLast(m)
    BY <1>1, <1>3, Constants DEF TextOrder
  <2>3. Last(kind) = CHOOSE n \in Numbers(kind) : IsLast(n)
    BY DEF Last
  <2> HIDE DEF m, IsLast
  <2>4. Last(kind) \in Numbers(kind) /\ IsLast(Last(kind))
    BY <2>1, <2>2, <2>3
  <2>5. TextOrder(m) <= TextOrder(Last(kind))
    BY <2>1, <2>4 DEF IsLast
  <2>6. Last(kind) \in 1 .. MaxPadded
    <3>1. Last(kind) \in 1 .. MaxPadded + 1
      BY <1>1, <2>4, Constants
    <3>2. Last(kind) # MaxPadded + 1
      <4> SUFFICES ASSUME Last(kind) = MaxPadded + 1 PROVE FALSE
        OBVIOUS
      <4>1. last = MaxPadded + 1
        BY <1>1, <2>4, Constants
      <4>2. m = MaxPadded
        BY <4>1, Constants DEF m
      <4>3. QED
        BY <2>5, <4>2, Constants DEF TextOrder
    <3>3. QED
      BY <3>1, <3>2, Constants
  <2>7. NextNumber(kind) = Last(kind) + 1
    BY <2>4 DEF NextNumber
  <2>8. QED
    BY <2>4, <2>6, <2>7, Constants
<1>4. QED
  BY <1>2, <1>3

\* The steps of a call before its COMMIT.
Calling(t) ==
    \/ \E kind \in Kinds : \E email \in Emails[kind] : Register(t, kind, email)
    \/ TakeNumber(t)
    \/ Insert(t)
    \/ \E jti \in DOMAIN session : Logout(t, jti)

\* What such a step makes of the call.
LEMMA Callings ==
    ASSUME Typed, Registry, NEW t \in Threads, Calling(t)
    PROVE  /\ UNCHANGED <<rows, created, otp, session, revoked>>
           /\ call' \in [Threads -> {NoCall} \cup Registering \cup LoggingOut]
           /\ \A u \in Threads \ {t} : call'[u] = call[u]
           /\ call'[t].at = "leaving" => call'[t].jti \in DOMAIN session
           /\ call'[t].at = "numbered" =>
                 /\ call'[t].kind \in Kinds
                 /\ call'[t].number = NextNumber(call'[t].kind)
           /\ call'[t].at = "inserted" =>
                 /\ call[t].at = "numbered"
                 /\ call'[t].kind = call[t].kind
                 /\ call'[t].number = call[t].number
                 /\ call'[t].email = call[t].email
                 /\ ~Waits(t) /\ ~Duplicate(t)
<1>1. TypeOK
  BY DEF Typed
<1>2. ASSUME NEW kind \in Kinds, NEW email \in Emails[kind], Register(t, kind, email)
      PROVE  /\ UNCHANGED <<rows, created, otp, session, revoked>>
             /\ call' \in [Threads -> {NoCall} \cup Registering \cup LoggingOut]
             /\ \A u \in Threads \ {t} : call'[u] = call[u]
             /\ call'[t].at = "checked"
  <2> DEFINE new == [at |-> "checked", kind |-> kind, email |-> email, number |-> 0]
  <2>1. new \in Registering
    BY Constants DEF Registering
  <2>2. call' = [call EXCEPT ![t] = new]
    BY <1>2 DEF Register
  <2>3. /\ call' \in [Threads -> {NoCall} \cup Registering \cup LoggingOut] /\ call'[t] = new
        /\ \A u \in Threads \ {t} : call'[u] = call[u]
    <3> HIDE DEF new
    <3>1. QED
      BY <1>1, <2>1, <2>2, CallStep
  <2>4. QED
    BY <1>2, <2>3 DEF Register
<1>3. CASE TakeNumber(t)
  <2> DEFINE new == [call[t] EXCEPT !.at = "numbered", !.number = NextNumber(call[t].kind)]
  <2>1. call[t] \in Registering /\ call[t].kind \in Kinds
    BY <1>1, <1>3, CallTypes DEF TakeNumber
  <2>2. NextNumber(call[t].kind) \in Nat
    BY <2>1, NextNumbers, Constants DEF Registry
  <2>3. new \in Registering /\ new.at = "numbered" /\ new.kind = call[t].kind
        /\ new.number = NextNumber(call[t].kind)
    BY <2>1, <2>2 DEF Registering
  <2>4. call' = [call EXCEPT ![t] = new]
    BY <1>1, <1>3 DEF TakeNumber, TypeOK
  <2> HIDE DEF new
  <2>5. /\ call' \in [Threads -> {NoCall} \cup Registering \cup LoggingOut] /\ call'[t] = new
        /\ \A u \in Threads \ {t} : call'[u] = call[u]
    BY <1>1, <2>3, <2>4, CallStep
  <2>6. QED
    BY <1>3, <2>1, <2>3, <2>5 DEF TakeNumber
<1>4. CASE Insert(t)
  <2> DEFINE new == IF Duplicate(t) THEN NoCall ELSE [call[t] EXCEPT !.at = "inserted"]
  <2>1. call[t] \in Registering /\ call[t].at = "numbered" /\ ~Waits(t)
    BY <1>1, <1>4, CallTypes DEF Insert
  <2>2. /\ new \in {NoCall} \cup Registering \cup LoggingOut
        /\ new = NoCall \/ (~Duplicate(t) /\ new.at = "inserted" /\ new.kind = call[t].kind
                            /\ new.number = call[t].number /\ new.email = call[t].email)
    BY <2>1 DEF Registering
  <2>3. call' = [call EXCEPT ![t] = new]
    BY <1>1, <1>4 DEF Insert, TypeOK
  <2> HIDE DEF new
  <2>4. /\ call' \in [Threads -> {NoCall} \cup Registering \cup LoggingOut] /\ call'[t] = new
        /\ \A u \in Threads \ {t} : call'[u] = call[u]
    BY <1>1, <2>2, <2>3, CallStep
  <2>5. QED
    BY <1>4, <2>1, <2>2, <2>4 DEF Insert, NoCall
<1>5. ASSUME NEW jti \in DOMAIN session, Logout(t, jti)
      PROVE  /\ UNCHANGED <<rows, created, otp, session, revoked>>
             /\ call' \in [Threads -> {NoCall} \cup Registering \cup LoggingOut]
             /\ \A u \in Threads \ {t} : call'[u] = call[u]
             /\ call'[t].at = "leaving" /\ call'[t].jti = jti
  <2> DEFINE new == [at |-> "leaving", jti |-> jti]
  <2>1. jti \in Nat
    BY <1>1 DEF TypeOK
  <2>2. new \in LoggingOut
    BY <2>1 DEF LoggingOut
  <2>3. call' = [call EXCEPT ![t] = new]
    BY <1>5 DEF Logout
  <2>4. /\ call' \in [Threads -> {NoCall} \cup Registering \cup LoggingOut] /\ call'[t] = new
        /\ \A u \in Threads \ {t} : call'[u] = call[u]
    <3> HIDE DEF new
    <3>1. QED
      BY <1>1, <2>2, <2>3, CallStep
  <2>5. QED
    BY <1>5, <2>4 DEF Logout
<1>6. QED
  BY <1>2, <1>3, <1>4, <1>5 DEF Calling

------------------------------------------------------------------------------
(* Numbers and addresses *)

\* Rows that keep their numbers and addresses leave the registry as it is.
LEMMA RegistrySame ==
    ASSUME Typed, Registry, DOMAIN rows' = Kinds,
           \A k \in Kinds : /\ DOMAIN rows'[k] = DOMAIN rows[k]
                            /\ \A n \in DOMAIN rows[k] : rows'[k][n].email = rows[k][n].email,
           UNCHANGED <<call, created>>
    PROVE  Registry'
<1>1. \A k \in Kinds : Numbers(k)' = Numbers(k)
  BY DEF Numbers
<1>2. \A k \in Kinds, e \in Addresses : Taken(k, e)' = Taken(k, e)
  BY DEF Taken
<1>3. IdentifiersSequential'
  BY <1>1 DEF Registry, IdentifiersSequential
<1>4. Numbered'
  BY <1>1, CallTypes DEF Typed, Registry, Numbered
<1>5. Exclusive'
  BY <1>2, CallTypes DEF Typed, Registry, Exclusive
<1>6. CreatedOwnTheirRows'
  <2>1. ASSUME NEW a \in created
        PROVE  {n \in DOMAIN rows'[a.kind] : rows'[a.kind][n].email = a.email} =
                  {n \in DOMAIN rows[a.kind] : rows[a.kind][n].email = a.email}
    BY DEF Typed, TypeOK
  <2>2. QED
    BY <2>1 DEF Registry, CreatedOwnTheirRows
<1>7. QED
  BY <1>3, <1>4, <1>5, <1>6 DEF Registry

LEMMA RegistryCalling ==
    ASSUME Typed, Registry, NEW t \in Threads, Calling(t)
    PROVE  Registry'
<1>1. /\ UNCHANGED <<rows, created>>
      /\ \A u \in Threads \ {t} : call'[u] = call[u]
  BY Callings
<1>2. \A k : Numbers(k)' = Numbers(k)
  BY <1>1 DEF Numbers
<1>3. IdentifiersSequential' /\ CreatedOwnTheirRows'
  BY <1>1, <1>2 DEF Registry, IdentifiersSequential, CreatedOwnTheirRows
<1>4. Numbered'
  <2>1. call'[t].at \in {"numbered", "inserted"} =>
           /\ call'[t].number \in 1 .. MaxPadded + 1
           /\ call'[t].number = 1 \/ call'[t].number - 1 \in Numbers(call'[t].kind)
    <3>1. CASE call'[t].at = "numbered"
      BY <3>1, Callings, NextNumbers DEF Registry
    <3>2. CASE call'[t].at = "inserted"
      BY <3>2, Callings DEF Registry, Numbered
    <3>3. QED
      BY <3>1, <3>2
  <2>2. QED
    BY <1>1, <1>2, <2>1 DEF Registry, Numbered
<1>5. Exclusive'
  <2>1. CASE call'[t].at = "inserted"
    <3>1. /\ call[t].at = "numbered" /\ ~Waits(t) /\ ~Duplicate(t)
          /\ call'[t].kind = call[t].kind /\ call'[t].number = call[t].number
          /\ call'[t].email = call[t].email
      BY <2>1, Callings
    <3>2. \A u \in Threads \ {t} : call[u].at = "inserted" /\ call[u].kind = call[t].kind =>
             call[u].number # call[t].number /\ call[u].email # call[t].email
      BY <3>1, CallTypes DEF Waits, Open, Typed
    <3>3. ~Taken(call[t].kind, call[t].email) /\ call[t].number \notin DOMAIN rows[call[t].kind]
      BY <3>1 DEF Duplicate
    <3>4. QED
      BY <1>1, <3>1, <3>2, <3>3 DEF Registry, Exclusive, Taken
  <2>2. CASE call'[t].at # "inserted"
    BY <1>1, <2>2 DEF Registry, Exclusive, Taken
  <2>3. QED
    BY <2>1, <2>2
<1>6. QED
  BY <1>3, <1>4, <1>5 DEF Registry

\* A COMMIT adds the number after the last one, and an address that no row has.
LEMMA RegistryCommit ==
    ASSUME Typed, Registry, NEW t \in Threads, Commit(t)
    PROVE  Registry'
<1>1. PICK kind \in Kinds, number \in Nat, email \in Addresses :
         /\ kind = call[t].kind /\ number = call[t].number /\ email = call[t].email
  BY CallTypes DEF Commit, Typed
<1>2. /\ call[t].at = "inserted"
      /\ DOMAIN rows' = Kinds
      /\ DOMAIN rows'[kind] = DOMAIN rows[kind] \cup {number}
      /\ rows'[kind][number].email = email
      /\ \A n \in DOMAIN rows[kind] \ {number} : rows'[kind][n] = rows[kind][n]
      /\ \A k \in Kinds \ {kind} : rows'[k] = rows[k]
      /\ call' = [call EXCEPT ![t] = NoCall]
      /\ created' = created \cup {[kind |-> kind, email |-> email, number |-> number]}
  <2>1. Added(t).email = email
    BY <1>1 DEF Added
  <2>2. call[t].at = "inserted"
    BY DEF Commit
  <2>3. QED
    BY <1>1, <2>1, <2>2, Commits DEF Typed
<1>3. /\ number \notin DOMAIN rows[kind] /\ ~Taken(kind, email)
      /\ number \in 1 .. MaxPadded + 1
      /\ number = 1 \/ number - 1 \in Numbers(kind)
  BY <1>1, <1>2 DEF Registry, Exclusive, Numbered
<1>4. /\ Numbers(kind)' = Numbers(kind) \cup {number}
      /\ \A k \in Kinds \ {kind} : Numbers(k)' = Numbers(k)
  <2>1. number # Superadmin
    BY <1>3, Constants DEF Superadmin
  <2>2. QED
    BY <1>2, <2>1 DEF Numbers
<1>5. IdentifiersSequential'
  <2>1. PICK last \in 0 .. MaxPadded + 1 : Numbers(kind) = 1 .. last
    BY <1>2 DEF Registry, IdentifiersSequential
  <2>2. number \notin Numbers(kind)
    BY <1>3 DEF Numbers
  <2>3. number = last + 1
    BY <1>3, <2>1, <2>2, Constants
  <2>4. Numbers(kind)' = 1 .. last + 1 /\ last + 1 \in 0 .. MaxPadded + 1
    BY <1>3, <1>4, <2>1, <2>3, Constants
  <2>5. QED
    BY <1>4, <2>4 DEF Registry, IdentifiersSequential
<1>6. call'[t] = NoCall /\ \A u \in Threads \ {t} : call'[u] = call[u]
  BY <1>2 DEF Typed, TypeOK
<1>7. Numbered'
  <2> SUFFICES ASSUME NEW u \in Threads, call'[u].at \in {"numbered", "inserted"}
               PROVE  /\ call'[u].number \in 1 .. MaxPadded + 1
                      /\ \/ call'[u].number = 1
                         \/ call'[u].number - 1 \in Numbers(call[u].kind)'
    BY DEF Numbered
  <2>1. call'[u] = call[u] /\ call[u].kind \in Kinds
    BY <1>6, CallTypes DEF Typed, NoCall
  <2>2. PICK k \in Kinds : k = call[u].kind
    BY <2>1
  <2>3. /\ call[u].number \in 1 .. MaxPadded + 1
        /\ call[u].number = 1 \/ call[u].number - 1 \in Numbers(k)
    BY <2>1, <2>2 DEF Registry, Numbered
  <2>4. Numbers(k) \subseteq Numbers(k)'
    BY <1>4
  <2>5. call[u].number = 1 \/ call[u].number - 1 \in Numbers(k)'
    BY <2>3, <2>4
  <2>6. call'[u].kind = k
    BY <2>1, <2>2
  <2>7. QED
    BY <2>1, <2>3, <2>5, <2>6
<1>8. Exclusive'
  <2> SUFFICES ASSUME NEW u \in Threads \ {t}, call[u].at = "inserted"
               PROVE  /\ call[u].number \notin DOMAIN rows'[call[u].kind]
                      /\ ~Taken(call[u].kind, call[u].email)'
                      /\ \A v \in Threads \ {u} :
                            call'[v].at = "inserted" /\ call'[v].kind = call[u].kind =>
                               call'[v].number # call[u].number /\ call'[v].email # call[u].email
    BY <1>6 DEF Exclusive, NoCall, Taken
  <2>1. call[u].kind \in Kinds
    BY CallTypes DEF Typed
  <2>2. call[u].kind = kind => call[u].number # number /\ call[u].email # email
    BY <1>1, <1>2 DEF Registry, Exclusive
  <2>3. /\ call[u].number \notin DOMAIN rows[call[u].kind]
        /\ ~Taken(call[u].kind, call[u].email)
    BY DEF Registry, Exclusive
  <2>4. call[u].number \notin DOMAIN rows'[call[u].kind]
    BY <1>2, <2>1, <2>2, <2>3
  <2>5. ~Taken(call[u].kind, call[u].email)'
    BY <1>2, <1>3, <2>1, <2>2, <2>3 DEF Taken
  <2>6. \A v \in Threads \ {u} :
           call'[v].at = "inserted" /\ call'[v].kind = call[u].kind =>
              call'[v].number # call[u].number /\ call'[v].email # call[u].email
    BY <1>6 DEF Registry, Exclusive, NoCall
  <2>7. QED
    BY <2>4, <2>5, <2>6
<1>9. CreatedOwnTheirRows'
  <2> SUFFICES ASSUME NEW a \in created'
               PROVE  {n \in DOMAIN rows'[a.kind] : rows'[a.kind][n].email = a.email} = {a.number}
    BY DEF CreatedOwnTheirRows
  <2>1. CASE a \in created
    <3>1. {n \in DOMAIN rows[a.kind] : rows[a.kind][n].email = a.email} = {a.number}
      BY <2>1 DEF Registry, CreatedOwnTheirRows
    <3>2. a.kind = kind => a.email # email
      BY <1>3, <3>1 DEF Taken
    <3>3. a.kind \in Kinds
      BY <2>1 DEF Typed, TypeOK
    <3>4. QED
      BY <1>2, <1>3, <3>1, <3>2, <3>3
  <2>2. CASE a = [kind |-> kind, email |-> email, number |-> number]
    BY <1>2, <1>3, <2>2 DEF Taken
  <2>3. QED
    BY <1>2, <2>1, <2>2
<1>10. QED
  BY <1>5, <1>7, <1>8, <1>9 DEF Registry

\* A call that is dropped leaves nothing behind.
LEMMA RegistryDropped ==
    ASSUME Typed, Registry, UNCHANGED <<rows, created>>,
           \A t \in Threads : call'[t] = call[t] \/ call'[t] = NoCall
    PROVE  Registry'
<1>1. \A k : Numbers(k)' = Numbers(k)
  BY DEF Numbers
<1>2. IdentifiersSequential' /\ CreatedOwnTheirRows'
  BY <1>1 DEF Registry, IdentifiersSequential, CreatedOwnTheirRows
<1>3. Numbered'
  BY <1>1 DEF Registry, Numbered, NoCall
<1>4. Exclusive'
  BY DEF Registry, Exclusive, Taken, NoCall
<1>5. QED
  BY <1>2, <1>3, <1>4 DEF Registry

------------------------------------------------------------------------------
(* Codes and sessions *)

\* A code that was accepted stays so, and its user and purpose stay.
CodesStay ==
    \A c \in DOMAIN otp :
       /\ c \in DOMAIN otp'
       /\ otp'[c].user = otp[c].user /\ otp'[c].purpose = otp[c].purpose
       /\ otp[c].verified => otp'[c].verified

LEMMA ConfirmedStays ==
    ASSUME CodesStay
    PROVE  \A n : Confirmed(n) => Confirmed(n)'
  BY DEF CodesStay, Confirmed

LEMMA BroughtStays ==
    ASSUME CodesStay, NEW token, NEW old, Brought(old),
           token.kind = old.kind, token.subject = old.subject, token.code = old.code
    PROVE  Brought(token)'
<1>1. Confirmed(old.subject) => Confirmed(old.subject)'
  BY ConfirmedStays
<1>2. QED
  BY <1>1 DEF Brought, CodesStay

\* The tokens that there were keep what brought them.
LEMMA TokensStay ==
    ASSUME CodesStay, TokensBrought,
           \A jti \in DOMAIN session' :
              IF jti \in DOMAIN session
              THEN /\ session'[jti].kind = session[jti].kind
                   /\ session'[jti].subject = session[jti].subject
                   /\ session'[jti].code = session[jti].code
              ELSE \E token : token = session'[jti] /\ Brought(token)'
    PROVE  TokensBrought'
<1> SUFFICES ASSUME NEW jti \in DOMAIN session'
             PROVE  Brought(session[jti])'
  BY DEF TokensBrought
<1>1. PICK token : token = session'[jti]
  OBVIOUS
<1>2. Brought(token)'
  <2>1. CASE jti \in DOMAIN session
    <3>1. PICK old : old = session[jti]
      OBVIOUS
    <3>2. Brought(old)
      BY <2>1, <3>1 DEF TokensBrought
    <3>3. token.kind = old.kind /\ token.subject = old.subject /\ token.code = old.code
      BY <1>1, <2>1, <3>1
    <3>4. QED
      BY <3>2, <3>3, BroughtStays
  <2>2. CASE jti \notin DOMAIN session
    BY <1>1, <2>2
  <2>3. QED
    BY <2>1, <2>2
<1>3. QED
  BY <1>1, <1>2 DEF Brought, Confirmed

LEMMA VerificationSame ==
    ASSUME Verification, UNCHANGED <<rows, otp, session>>
    PROVE  Verification'
  BY DEF Verification, Codes, ActiveConfirmed, Confirmed, TokensBrought, Brought

\* A row that is committed is new, and UNVERIFIED.
LEMMA VerificationCommit ==
    ASSUME IInv, NEW t \in Threads, Commit(t)
    PROVE  Verification'
<1>1. UNCHANGED <<otp, session>>
  BY DEF Commit
<1>2. /\ DOMAIN rows["user"] \subseteq DOMAIN rows'["user"]
      /\ \A n \in DOMAIN rows'["user"] :
            \/ n \in DOMAIN rows["user"] /\ rows'["user"][n] = rows["user"][n]
            \/ rows'["user"][n].status = "UNVERIFIED"
  <2>1. call[t].number \notin DOMAIN rows[call[t].kind]
    BY DEF Commit, IInv, Registry, Exclusive
  <2>2. CASE call[t].kind = "user"
    <3>1. Added(t).status = "UNVERIFIED"
      BY <2>2 DEF Added
    <3>2. QED
      BY <2>1, <2>2, <3>1, Commits DEF IInv, Typed
  <2>3. CASE call[t].kind # "user"
    <3>1. rows'["user"] = rows["user"]
      BY <2>3, Commits, Constants DEF IInv, Typed
    <3>2. QED
      BY <3>1
  <2>4. QED
    BY <2>2, <2>3
<1>3. Codes'
  BY <1>1, <1>2 DEF IInv, Verification, Codes
<1>4. ActiveConfirmed'
  BY <1>1, <1>2 DEF IInv, Verification, ActiveConfirmed, Confirmed
<1>5. TokensBrought'
  BY <1>1 DEF IInv, Verification, TokensBrought, Brought, Confirmed
<1>6. QED
  BY <1>3, <1>4, <1>5 DEF Verification

\* What a user's password is does not matter here.
LEMMA Resets ==
    ASSUME IInv, NEW jti \in DOMAIN session, ResetPassword(jti)
    PROVE  LET c == session[jti].code
               n == otp[c].user
               new == [rows["user"][n] EXCEPT !.password = c]
           IN  /\ c \in DOMAIN otp /\ otp[c].purpose = "PASSWORD_RESET" /\ otp[c].verified
               /\ n \in DOMAIN rows["user"] /\ new \in Row
               /\ new.email = rows["user"][n].email
               /\ new.status = rows["user"][n].status /\ new.password = c
               /\ rows' = [rows EXCEPT !["user"] = [rows["user"] EXCEPT ![n] = new]]
<1> DEFINE c == session[jti].code
<1>1. /\ c \in DOMAIN otp /\ otp[c].user = session[jti].subject
      /\ otp[c].purpose = "PASSWORD_RESET" /\ otp[c].verified
  BY DEF ResetPassword, IInv, Verification, TokensBrought, Brought
<1>2. otp[c].user \in DOMAIN rows["user"]
  BY <1>1 DEF IInv, Verification, Codes
<1>3. rows["user"][otp[c].user] \in Row /\ c \in Nat
  BY <1>1, <1>2, Constants DEF IInv, Typed, TypeOK
<1>4. rows' = [rows EXCEPT !["user"][otp[c].user].password = c]
  BY <1>1 DEF ResetPassword
<1> HIDE DEF c
<1>5. QED
  <2>1. QED
    BY <1>1, <1>2, <1>3, <1>4, Constants DEF Row, IInv, Typed, TypeOK, c

LEMMA VerificationReset ==
    ASSUME IInv, NEW jti \in DOMAIN session, ResetPassword(jti)
    PROVE  Verification'
<1>1. UNCHANGED <<otp, session>>
  BY DEF ResetPassword
<1>2. /\ DOMAIN rows'["user"] = DOMAIN rows["user"]
      /\ \A n \in DOMAIN rows["user"] : rows'["user"][n].status = rows["user"][n].status
  <2> DEFINE c == session[jti].code
             n == otp[c].user
             new == [rows["user"][n] EXCEPT !.password = c]
  <2>1. /\ n \in DOMAIN rows["user"] /\ new \in Row
        /\ new.email = rows["user"][n].email /\ new.status = rows["user"][n].status
        /\ rows' = [rows EXCEPT !["user"] = [rows["user"] EXCEPT ![n] = new]]
    BY Resets
  <2> HIDE DEF c, n, new
  <2>2. /\ rows'["user"][n] = new
        /\ \A m \in DOMAIN rows["user"] \ {n} : rows'["user"][m] = rows["user"][m]
        /\ \A k \in Kinds : DOMAIN rows'[k] = DOMAIN rows[k]
    BY <2>1, Updates DEF IInv, Typed
  <2>3. QED
    BY <2>1, <2>2, Constants
<1>3. QED
  BY <1>1, <1>2
     DEF IInv, Verification, Codes, ActiveConfirmed, Confirmed, TokensBrought, Brought

\* A new code is the last one of its user and purpose.
LEMMA VerificationGenerate ==
    ASSUME IInv, NEW user \in Nat, NEW purpose \in Purposes, Generate(user, purpose)
    PROVE  Verification'
<1> DEFINE new == Len(otp) + 1
<1>1. /\ Len(otp) \in Nat /\ DOMAIN otp = 1 .. Len(otp) /\ DOMAIN otp' = DOMAIN otp \cup {new}
      /\ \A c \in DOMAIN otp :
            /\ otp'[c].user = otp[c].user /\ otp'[c].purpose = otp[c].purpose
            /\ otp'[c].verified = otp[c].verified
            /\ otp'[c].used = (otp[c].used \/ Live(c, user, purpose))
  BY Generates DEF IInv, Typed
<1>2. /\ otp'[new].user = user /\ otp'[new].purpose = purpose
      /\ otp'[new].used = FALSE /\ otp'[new].verified = FALSE
  <2>1. otp'[new] = Fresh(user, purpose)
    BY Generates DEF IInv, Typed
  <2>2. QED
    BY <2>1 DEF Fresh
<1>3. user \in DOMAIN rows["user"] /\ UNCHANGED <<rows, session>>
  BY DEF Generate
<1> HIDE DEF new
<1>5. \A c \in DOMAIN otp : otp[c].used => otp'[c].used
  BY <1>1
<1>6. \A c \in DOMAIN otp' : /\ otp'[c].user \in DOMAIN rows["user"]
                             /\ otp'[c].verified => otp'[c].used
  BY <1>1, <1>2, <1>3, <1>5 DEF IInv, Verification, Codes
<1>7. \A c, d \in DOMAIN otp' :
         d > c /\ otp'[d].user = otp'[c].user /\ otp'[d].purpose = otp'[c].purpose => otp'[c].used
  <2> SUFFICES ASSUME NEW c \in DOMAIN otp', NEW d \in DOMAIN otp', d > c,
                      otp'[d].user = otp'[c].user, otp'[d].purpose = otp'[c].purpose
               PROVE  otp'[c].used
    OBVIOUS
  <2>1. c \in DOMAIN otp
    BY <1>1 DEF new
  <2>2. CASE d \in DOMAIN otp
    BY <1>1, <1>5, <2>1, <2>2 DEF IInv, Verification, Codes
  <2>3. CASE d = new
    <3>1. otp[c].user = user /\ otp[c].purpose = purpose
      BY <1>1, <1>2, <2>1, <2>3
    <3>2. otp[c].used \/ Live(c, user, purpose)
      BY <2>1, <3>1 DEF Live
    <3>3. QED
      BY <1>1, <2>1, <3>2
  <2>4. QED
    BY <1>1, <2>2, <2>3
<1>9. Codes'
  BY <1>3, <1>6, <1>7 DEF Codes
<1>10. CodesStay
  BY <1>1 DEF CodesStay
<1>11. ActiveConfirmed'
  BY <1>3, <1>10, ConfirmedStays DEF IInv, Verification, ActiveConfirmed
<1>12. TokensBrought'
  BY <1>3, <1>10, TokensStay DEF IInv, Verification
<1>13. QED
  BY <1>9, <1>11, <1>12 DEF Verification

\* The user of an accepted registration code becomes ACTIVE.
LEMMA Activates ==
    ASSUME IInv, NEW c \in DOMAIN otp, Accept(c), otp[c].purpose = "REGISTRATION"
    PROVE  LET n == otp[c].user
               new == [rows["user"][n] EXCEPT !.status = "ACTIVE"]
           IN  /\ n \in DOMAIN rows["user"] /\ new \in Row
               /\ new.email = rows["user"][n].email
               /\ new.password = rows["user"][n].password
               /\ rows' = [rows EXCEPT !["user"] = [rows["user"] EXCEPT ![n] = new]]
<1>1. otp[c].user \in DOMAIN rows["user"]
  BY DEF IInv, Verification, Codes
<1>2. rows["user"][otp[c].user] \in Row
  BY <1>1, Constants DEF IInv, Typed, TypeOK
<1>3. QED
  BY <1>1, <1>2, Constants DEF Accept, Row, IInv, Typed, TypeOK

LEMMA AcceptRows ==
    ASSUME IInv, NEW c \in DOMAIN otp, Accept(c)
    PROVE  /\ DOMAIN rows' = Kinds
           /\ \A k \in Kinds : /\ DOMAIN rows'[k] = DOMAIN rows[k]
                               /\ DOMAIN rows'[k] \subseteq Nat
                               /\ rows'[k] \in [DOMAIN rows'[k] -> Row]
                               /\ \A m \in DOMAIN rows[k] : rows'[k][m].email = rows[k][m].email
           /\ \A n \in DOMAIN rows["user"] :
                 /\ rows'["user"][n].password = rows["user"][n].password
                 /\ \/ rows'["user"][n].status = rows["user"][n].status
                    \/ n = otp[c].user /\ otp[c].purpose = "REGISTRATION"
<1>1. CASE otp[c].purpose # "REGISTRATION"
  <2>1. rows' = rows
    BY <1>1 DEF Accept
  <2>2. QED
    BY <2>1 DEF IInv, Typed, TypeOK
<1>2. CASE otp[c].purpose = "REGISTRATION"
  <2> DEFINE n == otp[c].user
             new == [rows["user"][n] EXCEPT !.status = "ACTIVE"]
  <2>1. /\ n \in DOMAIN rows["user"] /\ new \in Row
        /\ new.email = rows["user"][n].email /\ new.password = rows["user"][n].password
        /\ rows' = [rows EXCEPT !["user"] = [rows["user"] EXCEPT ![n] = new]]
    BY <1>2, Activates
  <2>2. n = otp[c].user
    OBVIOUS
  <2> HIDE DEF n, new
  <2>3. /\ DOMAIN rows' = Kinds
        /\ rows'["user"][n] = new
        /\ \A m \in DOMAIN rows["user"] \ {n} : rows'["user"][m] = rows["user"][m]
        /\ \A k \in Kinds : /\ DOMAIN rows'[k] = DOMAIN rows[k]
                            /\ DOMAIN rows'[k] \subseteq Nat
                            /\ rows'[k] \in [DOMAIN rows'[k] -> Row]
                            /\ \A m \in DOMAIN rows[k] : rows'[k][m].email = rows[k][m].email
    BY <2>1, Updates DEF IInv, Typed
  <2>4. QED
    BY <1>2, <2>1, <2>2, <2>3
<1>3. QED
  BY <1>1, <1>2

\* The table of codes when one was accepted or has expired.
LEMMA AcceptCodes ==
    ASSUME TypeOK, NEW c \in DOMAIN otp, Accept(c)
    PROVE  /\ otp' \in Seq(Code) /\ DOMAIN otp' = DOMAIN otp
           /\ \A d \in DOMAIN otp \ {c} : otp'[d] = otp[d]
           /\ otp'[c].user = otp[c].user /\ otp'[c].purpose = otp[c].purpose
           /\ otp'[c].verified /\ otp'[c].used /\ otp'[c].expired = otp[c].expired
           /\ UNCHANGED <<call, created, revoked>>
<1> DEFINE new == [otp[c] EXCEPT !.verified = TRUE, !.used = TRUE]
<1>1. /\ new \in Code /\ otp' = [otp EXCEPT ![c] = new]
      /\ new.user = otp[c].user /\ new.purpose = otp[c].purpose
      /\ new.verified /\ new.used /\ new.expired = otp[c].expired
      /\ UNCHANGED <<call, created, revoked>>
  BY Accepts
<1> HIDE DEF new
<1>2. /\ otp' \in Seq(Code) /\ DOMAIN otp' = DOMAIN otp
      /\ otp'[c] = new /\ \A d \in DOMAIN otp \ {c} : otp'[d] = otp[d]
  BY <1>1, CodeChanges
<1>3. QED
  BY <1>1, <1>2

LEMMA VerificationVerify ==
    ASSUME IInv, NEW c \in DOMAIN otp, Verify(c)
    PROVE  Verification'
<1>1. Accept(c)
  BY DEF Verify
<1>2. /\ DOMAIN otp' = DOMAIN otp
      /\ \A d \in DOMAIN otp \ {c} : otp'[d] = otp[d]
      /\ otp'[c].user = otp[c].user /\ otp'[c].purpose = otp[c].purpose
      /\ otp'[c].verified /\ otp'[c].used
  BY <1>1, AcceptCodes DEF IInv, Typed
<1>3. /\ DOMAIN rows'["user"] = DOMAIN rows["user"]
      /\ \A n \in DOMAIN rows["user"] : \/ rows'["user"][n].status = rows["user"][n].status
                                        \/ n = otp[c].user /\ otp[c].purpose = "REGISTRATION"
  BY <1>1, AcceptRows, Constants
<1>5. Codes'
  BY <1>2, <1>3 DEF IInv, Verification, Codes
<1>6. CodesStay
  BY <1>2 DEF CodesStay
<1>7. ActiveConfirmed'
  <2> SUFFICES ASSUME NEW n \in DOMAIN rows["user"], n > Existing["user"],
                      rows'["user"][n].status = "ACTIVE"
               PROVE  Confirmed(n)'
    BY <1>3 DEF ActiveConfirmed
  <2>1. CASE rows'["user"][n].status = rows["user"][n].status
    <3>1. Confirmed(n)
      BY <2>1 DEF IInv, Verification, ActiveConfirmed
    <3>2. QED
      BY <3>1, <1>6, ConfirmedStays
  <2>2. CASE n = otp[c].user /\ otp[c].purpose = "REGISTRATION"
    BY <1>2, <2>2 DEF Confirmed
  <2>3. QED
    BY <1>3, <2>1, <2>2
<1>8. TokensBrought'
  <2>1. /\ \A jti \in DOMAIN session : session'[jti] = session[jti]
        /\ \A jti \in DOMAIN session' \ DOMAIN session :
              session'[jti] = TokenOf(c) /\ otp[c].purpose = "PASSWORD_RESET"
    BY <1>1, AcceptTokens DEF IInv, Typed
  <2>2. ASSUME NEW jti \in DOMAIN session' \ DOMAIN session
        PROVE  \E token : token = session'[jti] /\ Brought(token)'
    <3>1. PICK token : token = session'[jti]
      OBVIOUS
    <3>2. /\ token.kind = "user" /\ token.subject = otp[c].user /\ token.code = c
          /\ otp[c].purpose = "PASSWORD_RESET"
      BY <2>1, <2>2, <3>1 DEF TokenOf
    <3>3. c \in Nat /\ c # 0
      BY DEF IInv, Typed, TypeOK
    <3>4. Brought(token)'
      BY <1>2, <3>2, <3>3 DEF Brought
    <3>5. QED
      BY <3>1, <3>4
  <2>3. QED
    BY <1>6, <2>1, <2>2, TokensStay DEF IInv, Verification
<1>9. QED
  BY <1>5, <1>7, <1>8 DEF Verification

LEMMA Expires ==
    ASSUME TypeOK, NEW c \in DOMAIN otp, ExpireCode(c)
    PROVE  /\ otp' \in Seq(Code) /\ DOMAIN otp' = DOMAIN otp
           /\ \A d \in DOMAIN otp :
                 /\ otp'[d].user = otp[d].user /\ otp'[d].purpose = otp[d].purpose
                 /\ otp'[d].verified = otp[d].verified /\ otp'[d].used = otp[d].used
           /\ UNCHANGED <<rows, call, created, session, revoked>>
<1> DEFINE new == [otp[c] EXCEPT !.expired = TRUE]
<1>1. otp[c] \in Code
  BY DEF TypeOK
<1>2. /\ new \in Code /\ otp' = [otp EXCEPT ![c] = new]
      /\ new.user = otp[c].user /\ new.purpose = otp[c].purpose
      /\ new.verified = otp[c].verified /\ new.used = otp[c].used
      /\ UNCHANGED <<rows, call, created, session, revoked>>
  BY <1>1 DEF ExpireCode, Code
<1> HIDE DEF new
<1>3. /\ otp' \in Seq(Code) /\ DOMAIN otp' = DOMAIN otp
      /\ otp'[c] = new /\ \A d \in DOMAIN otp \ {c} : otp'[d] = otp[d]
  BY <1>2, CodeChanges
<1>4. QED
  BY <1>2, <1>3

LEMMA VerificationExpires ==
    ASSUME IInv, NEW c \in DOMAIN otp, ExpireCode(c)
    PROVE  Verification'
<1>1. /\ DOMAIN otp' = DOMAIN otp
      /\ \A d \in DOMAIN otp :
            /\ otp'[d].user = otp[d].user /\ otp'[d].purpose = otp[d].purpose
            /\ otp'[d].verified = otp[d].verified /\ otp'[d].used = otp[d].used
      /\ UNCHANGED <<rows, session>>
  BY Expires DEF IInv, Typed
<1>2. CodesStay
  BY <1>1 DEF CodesStay
<1>3. TokensBrought'
  BY <1>1, <1>2, TokensStay DEF IInv, Verification
<1>4. QED
  BY <1>1, <1>3 DEF IInv, Verification, Codes, ActiveConfirmed, Confirmed

\* A login is of an ACTIVE user, who was confirmed.
LEMMA VerificationLogin ==
    ASSUME IInv, NEW kind \in Kinds, NEW n \in Nat, Login(kind, n)
    PROVE  Verification'
<1> DEFINE new == [kind |-> kind, subject |-> n, code |-> 0, expired |-> FALSE]
<1>1. /\ \A jti \in DOMAIN session : session'[jti] = session[jti]
      /\ \A jti \in DOMAIN session' \ DOMAIN session : session'[jti] = new
      /\ new.kind = kind /\ new.subject = n /\ new.code = 0
      /\ UNCHANGED <<rows, otp>>
  BY LoggedIn DEF IInv, Typed
<1> HIDE DEF new
<1>2. CodesStay
  BY <1>1 DEF CodesStay
<1>3. kind = "user" /\ n > Existing["user"] => Confirmed(n)
  BY DEF Login, IInv, Verification, ActiveConfirmed
<1>4. kind = "user" /\ n > Existing["user"] => Confirmed(n)'
  BY <1>2, <1>3, ConfirmedStays
<1>5. ASSUME NEW jti \in DOMAIN session' \ DOMAIN session
      PROVE  \E token : token = session'[jti] /\ Brought(token)'
  <2>1. PICK token : token = session'[jti]
    OBVIOUS
  <2>2. token.kind = kind /\ token.subject = n /\ token.code = 0
    BY <1>1, <1>5, <2>1
  <2>3. Brought(token)'
    BY <1>4, <2>2 DEF Brought
  <2>4. QED
    BY <2>1, <2>3
<1>6. TokensBrought'
  BY <1>1, <1>2, <1>5, TokensStay DEF IInv, Verification
<1>7. QED
  BY <1>1, <1>6 DEF IInv, Verification, Codes, ActiveConfirmed, Confirmed

LEMMA VerificationSessionExpires ==
    ASSUME IInv, NEW jti \in DOMAIN session, ExpireSession(jti)
    PROVE  Verification'
<1>1. /\ DOMAIN session' = DOMAIN session
      /\ \A j \in DOMAIN session : /\ session'[j].kind = session[j].kind
                                   /\ session'[j].subject = session[j].subject
                                   /\ session'[j].code = session[j].code
      /\ UNCHANGED <<rows, otp>>
  BY SessionExpires DEF IInv, Typed
<1>2. CodesStay
  BY <1>1 DEF CodesStay
<1>3. TokensBrought'
  BY <1>1, <1>2, TokensStay DEF IInv, Verification
<1>4. QED
  BY <1>1, <1>3 DEF IInv, Verification, Codes, ActiveConfirmed, Confirmed

------------------------------------------------------------------------------
(* Every step *)

\* The steps of calls, those of the dispatcher and of users, and the rest.
Dispatched ==
    \/ \E user \in Nat, purpose \in Purposes : Generate(user, purpose)
    \/ \E c \in DOMAIN otp : Verify(c) \/ ExpireCode(c)
    \/ \E jti \in DOMAIN session : ResetPassword(jti)

Sessions ==
    \/ \E kind \in Kinds, n \in Nat : Login(kind, n)
    \/ \E jti \in DOMAIN session : ExpireSession(jti)

LEMMA Steps ==
    ASSUME TypeOK, Next
    PROVE  \/ \E t \in Threads : Calling(t) \/ Commit(t) \/ Revoke(t)
           \/ Dispatched
           \/ Sessions
           \/ Restart
           \/ Finished
<1>1. Watched \subseteq Nat
  BY IdentityAssumption
<1>2. DOMAIN rows["admin"] \subseteq Nat
  BY Constants DEF TypeOK
<1>3. QED
  BY <1>1, <1>2, Constants DEF Next, Calling, Dispatched, Sessions

\* The types of rows, calls and codes after a step of the dispatcher.
LEMMA DispatchedTypes ==
    ASSUME IInv, Dispatched
    PROVE  Typed' /\ Registry'
<1>1. TypeOK /\ Typed /\ Registry
  BY DEF IInv, Typed
<1>2. ASSUME NEW user \in Nat, NEW purpose \in Purposes, Generate(user, purpose)
      PROVE  Typed' /\ Registry'
  <2>1. /\ otp' \in Seq(Code) /\ DOMAIN otp \subseteq DOMAIN otp'
        /\ UNCHANGED <<rows, call, created, session, revoked>>
    BY <1>1, <1>2, Generates DEF Generate
  <2>2. Typed'
    BY <1>1, <2>1 DEF Typed, TypeOK
  <2>3. Registry'
    BY <1>1, <2>1, RegistryDropped
  <2>4. QED
    BY <2>2, <2>3
<1>3. ASSUME NEW c \in DOMAIN otp, Verify(c)
      PROVE  Typed' /\ Registry'
  <2>1. Accept(c)
    BY <1>3 DEF Verify
  <2>2. /\ otp' \in Seq(Code) /\ DOMAIN otp' = DOMAIN otp
        /\ UNCHANGED <<call, created, revoked>>
        /\ session' \in Seq(Session) /\ DOMAIN session \subseteq DOMAIN session'
    BY <1>1, <2>1, AcceptCodes, AcceptTokens
  <2>3. /\ DOMAIN rows' = Kinds
        /\ \A k \in Kinds : /\ DOMAIN rows'[k] = DOMAIN rows[k]
                            /\ DOMAIN rows'[k] \subseteq Nat
                            /\ rows'[k] \in [DOMAIN rows'[k] -> Row]
                            /\ \A m \in DOMAIN rows[k] : rows'[k][m].email = rows[k][m].email
    BY <2>1, AcceptRows
  <2>4. Typed'
    BY <1>1, <2>2, <2>3 DEF Typed, TypeOK
  <2>5. Registry'
    BY <1>1, <2>2, <2>3, RegistrySame
  <2>6. QED
    BY <2>4, <2>5
<1>4. ASSUME NEW jti \in DOMAIN session, ResetPassword(jti)
      PROVE  Typed' /\ Registry'
  <2> DEFINE c == session[jti].code
             n == otp[c].user
             new == [rows["user"][n] EXCEPT !.password = c]
  <2>1. /\ n \in DOMAIN rows["user"] /\ new \in Row
        /\ new.email = rows["user"][n].email
        /\ rows' = [rows EXCEPT !["user"] = [rows["user"] EXCEPT ![n] = new]]
    BY <1>4, Resets
  <2>2. UNCHANGED <<call, created, otp, session, revoked>>
    BY <1>4 DEF ResetPassword
  <2> HIDE DEF c, n, new
  <2>3. /\ DOMAIN rows' = Kinds
        /\ \A k \in Kinds : /\ DOMAIN rows'[k] = DOMAIN rows[k]
                            /\ DOMAIN rows'[k] \subseteq Nat
                            /\ rows'[k] \in [DOMAIN rows'[k] -> Row]
                            /\ \A m \in DOMAIN rows[k] : rows'[k][m].email = rows[k][m].email
    BY <1>1, <2>1, Updates
  <2>4. Typed'
    BY <1>1, <2>2, <2>3 DEF Typed, TypeOK
  <2>5. Registry'
    BY <1>1, <2>2, <2>3, RegistrySame
  <2>6. QED
    BY <2>4, <2>5
<1>5. ASSUME NEW c \in DOMAIN otp, ExpireCode(c)
      PROVE  Typed' /\ Registry'
  <2>1. /\ otp' \in Seq(Code) /\ DOMAIN otp' = DOMAIN otp
        /\ UNCHANGED <<rows, call, created, session, revoked>>
    BY <1>1, <1>5, Expires
  <2>2. Typed'
    BY <1>1, <2>1 DEF Typed, TypeOK
  <2>3. Registry'
    BY <1>1, <2>1, RegistryDropped
  <2>4. QED
    BY <2>2, <2>3
<1>6. QED
  BY <1>2, <1>3, <1>4, <1>5 DEF Dispatched

LEMMA DispatchedVerification ==
    ASSUME IInv, Dispatched
    PROVE  Verification'
  BY VerificationGenerate, VerificationVerify, VerificationExpires, VerificationReset
     DEF Dispatched

LEMMA IdentityInit == Init => IInv
<1> SUFFICES ASSUME Init PROVE IInv
  OBVIOUS
<1>1. Typed
  BY TypeInit DEF Init, Typed, NoCall
<1>2. /\ rows["user"] = [n \in 1 .. Existing["user"] |-> OldRow]
      /\ rows["admin"] = [n \in 0 .. Existing["admin"] |-> OldRow]
      /\ Existing["user"] \in 0 .. MaxPadded /\ Existing["admin"] \in 0 .. MaxPadded
  BY Constants DEF Init
<1>3. Numbers("user") = 1 .. Existing["user"] /\ Numbers("admin") = 1 .. Existing["admin"]
  BY <1>2, Constants DEF Numbers, Superadmin
<1>4. IdentifiersSequential
  BY <1>2, <1>3, Constants DEF IdentifiersSequential, Kinds
<1>5. Registry
  BY <1>4 DEF Init, Registry, Numbered, Exclusive, CreatedOwnTheirRows, NoCall
<1>6. Codes /\ TokensBrought
  BY DEF Init, Codes, TokensBrought
<1>7. ActiveConfirmed
  BY <1>2, Constants DEF ActiveConfirmed
<1>8. QED
  BY <1>1, <1>5, <1>6, <1>7 DEF IInv, Verification

LEMMA IdentityStep == IInv /\ [Next]_vars => IInv'
<1> SUFFICES ASSUME IInv, [Next]_vars PROVE IInv'
  OBVIOUS
<1>1. TypeOK /\ Typed /\ Registry /\ Verification
  BY DEF IInv, Typed
<1>2. ASSUME NEW t \in Threads, Calling(t)
      PROVE  IInv'
  <2>1. /\ UNCHANGED <<rows, created, otp, session, revoked>>
        /\ call' \in [Threads -> {NoCall} \cup Registering \cup LoggingOut]
        /\ \A u \in Threads \ {t} : call'[u] = call[u]
        /\ call'[t].at = "leaving" => call'[t].jti \in DOMAIN session
    BY <1>1, <1>2, Callings
  <2>2. Typed'
    BY <1>1, <2>1 DEF Typed, TypeOK
  <2>3. QED
    BY <1>1, <1>2, <2>1, <2>2, RegistryCalling, VerificationSame DEF IInv
<1>3. ASSUME NEW t \in Threads, Commit(t)
      PROVE  IInv'
  <2>1. /\ DOMAIN rows' = Kinds
        /\ \A k \in Kinds : DOMAIN rows'[k] \subseteq Nat /\ rows'[k] \in [DOMAIN rows'[k] -> Row]
        /\ call' = [call EXCEPT ![t] = NoCall]
        /\ UNCHANGED <<otp, session, revoked>>
    BY <1>1, <1>3, Commits
  <2>2. created' \subseteq [kind : Kinds, email : Addresses, number : Nat]
    BY <1>1, <1>3, Commits DEF TypeOK
  <2>3. /\ call' \in [Threads -> {NoCall} \cup Registering \cup LoggingOut]
        /\ \A u \in Threads : call'[u] = call[u] \/ call'[u] = NoCall
    BY <1>1, <2>1, CallStep
  <2>4. Typed'
    BY <1>1, <2>1, <2>2, <2>3 DEF Typed, TypeOK, NoCall
  <2>5. QED
    BY <1>1, <1>3, <2>4, RegistryCommit, VerificationCommit DEF IInv
<1>4. ASSUME NEW t \in Threads, Revoke(t)
      PROVE  IInv'
  <2>1. /\ UNCHANGED <<rows, created, otp, session>>
        /\ call' = [call EXCEPT ![t] = NoCall]
    BY <1>4 DEF Revoke
  <2>2. revoked' \subseteq DOMAIN session
    BY <1>1, <1>4 DEF Revoke, Typed, TypeOK
  <2>3. /\ call' \in [Threads -> {NoCall} \cup Registering \cup LoggingOut]
        /\ \A u \in Threads : call'[u] = call[u] \/ call'[u] = NoCall
    BY <1>1, <2>1, CallStep
  <2>4. Typed'
    BY <1>1, <2>1, <2>2, <2>3 DEF Typed, TypeOK, NoCall
  <2>5. QED
    BY <1>1, <2>1, <2>3, <2>4, RegistryDropped, VerificationSame DEF IInv
<1>5. CASE Dispatched
  BY <1>5, DispatchedTypes, DispatchedVerification DEF IInv
<1>6. CASE Sessions
  <2>1. /\ session' \in Seq(Session) /\ DOMAIN session \subseteq DOMAIN session'
        /\ UNCHANGED <<rows, call, created, otp, revoked>>
    BY <1>1, <1>6, LoggedIn, SessionExpires DEF Sessions
  <2>2. Typed'
    BY <1>1, <2>1 DEF Typed, TypeOK
  <2>3. QED
    BY <1>1, <1>6, <2>1, <2>2, RegistryDropped, VerificationLogin,
       VerificationSessionExpires DEF IInv, Sessions
<1>7. CASE Restart
  <2>1. /\ UNCHANGED <<rows, created, otp, session, revoked>>
        /\ call' = [t \in Threads |-> NoCall]
    BY <1>7 DEF Restart
  <2>2. Typed'
    BY <1>1, <2>1 DEF Typed, TypeOK, NoCall
  <2>3. QED
    BY <1>1, <2>1, <2>2, RegistryDropped, VerificationSame DEF IInv
<1>8. CASE UNCHANGED vars
  <2>1. UNCHANGED <<rows, call, created, otp, session, revoked>>
    BY <1>8 DEF vars
  <2>2. Typed'
    BY <1>1, <2>1 DEF Typed, TypeOK
  <2>3. QED
    BY <1>1, <2>1, <2>2, RegistryDropped, VerificationSame DEF IInv
<1>9. QED
  BY <1>1, <1>2, <1>3, <1>4, <1>5, <1>6, <1>7, <1>8, Steps DEF Finished

LEMMA IdentityInvariant == Spec => []IInv
  BY IdentityInit, IdentityStep, PTL DEF Spec

------------------------------------------------------------------------------
(* Theorems *)

\* Rows, calls, codes and tokens have their types in every reachable state.
THEOREM TypeCorrect == Spec => []TypeOK
<1>1. IInv => TypeOK
  BY DEF IInv, Typed
<1>2. QED
  BY <1>1, IdentityInvariant, PTL

\* However many threads compute identifiers at a time, none is left out, up to
\* one after the padded numbers.
THEOREM SequenceHasNoGaps == Spec => []IdentifiersSequential
<1>1. IInv => IdentifiersSequential
  BY DEF IInv, Registry
<1>2. QED
  BY <1>1, IdentityInvariant, PTL

\* A number and an address that were confirmed to a client stay its own.
THEOREM NumbersAreKept == Spec => []CreatedOwnTheirRows
<1>1. IInv => CreatedOwnTheirRows
  BY DEF IInv, Registry
<1>2. QED
  BY <1>1, IdentityInvariant, PTL

\* A token of a user comes from a login after the registration code of that
\* user was read, or from a reset code of that user that was read.
THEOREM TokensFollow == Spec => []TokensFollowCodes
<1>1. ASSUME IInv
      PROVE  TokensFollowCodes
  <2> SUFFICES ASSUME NEW jti \in DOMAIN session,
                      session[jti].kind = "user", session[jti].subject > Existing["user"]
               PROVE  \E c \in DOMAIN otp :
                         /\ otp[c].user = session[jti].subject /\ otp[c].verified
                         /\ \/ session[jti].code = 0 /\ otp[c].purpose = "REGISTRATION"
                            \/ session[jti].code = c /\ otp[c].purpose = "PASSWORD_RESET"
    BY DEF TokensFollowCodes
  <2>1. Brought(session[jti])
    BY <1>1 DEF IInv, Verification, TokensBrought
  <2>2. QED
    BY <2>1 DEF Brought, Confirmed
<1>2. QED
  BY <1>1, IdentityInvariant, PTL

\* A code is accepted once, in time, and not after another has followed it.
THEOREM StaleCodesAreRefused == Spec => StaleCodesRefused
<1> DEFINE Accepted(c) ==
              \/ otp'[c].verified /\ ~otp[c].verified
              \/ \E jti \in DOMAIN session' \ DOMAIN session : session'[jti].code = c
           InTime(c) ==
              /\ ~otp[c].expired /\ ~otp[c].verified
              /\ \A d \in DOMAIN otp :
                    d > c => <<otp[d].user, otp[d].purpose>> # <<otp[c].user, otp[c].purpose>>
<1>1. ASSUME IInv, Next, NEW c \in DOMAIN otp, Accepted(c)
      PROVE  InTime(c)
  <2>1. TypeOK /\ Typed /\ Registry /\ Codes /\ c \in Nat /\ c # 0
    BY <1>1 DEF IInv, Typed, TypeOK, Verification
  <2>2. \E d \in DOMAIN otp : Verify(d)
    <3>1. SUFFICES ASSUME \A d \in DOMAIN otp : ~Verify(d)
                   PROVE  /\ otp'[c].verified = otp[c].verified
                          /\ \A jti \in DOMAIN session' \ DOMAIN session : session'[jti].code # c
      BY <1>1
    <3>2. CASE Dispatched
      BY <2>1, <3>1, <3>2, Generates, Expires DEF Dispatched, Generate, ResetPassword
    <3>3. CASE Sessions
      BY <2>1, <3>3, LoggedIn, SessionExpires DEF Sessions
    <3>4. ASSUME NEW t \in Threads, Calling(t) \/ Commit(t) \/ Revoke(t)
          PROVE  UNCHANGED <<otp, session>>
      BY <2>1, <3>4, Callings DEF Commit, Revoke
    <3>5. CASE Restart \/ Finished
      BY <3>5 DEF Restart, Finished, vars
    <3>6. QED
      BY <1>1, <2>1, <3>2, <3>3, <3>4, <3>5, Steps
  <2>3. PICK d \in DOMAIN otp : Verify(d)
    BY <2>2
  <2>4. Accept(d)
    BY <2>3 DEF Verify
  <2>5. c = d
    <3>1. CASE otp'[c].verified /\ ~otp[c].verified
      BY <2>1, <2>4, <3>1, AcceptCodes
    <3>2. CASE \E jti \in DOMAIN session' \ DOMAIN session : session'[jti].code = c
      BY <2>1, <2>4, <3>2, AcceptTokens DEF TokenOf
    <3>3. QED
      BY <1>1, <3>1, <3>2
  <2>6. ~otp[c].expired /\ ~otp[c].used
    BY <2>3, <2>5 DEF Verify, LiveCodes, Live
  <2>7. ~otp[c].verified
    BY <2>1, <2>6 DEF Codes
  <2>8. QED
    BY <2>1, <2>6, <2>7 DEF Codes
<1>2. IInv /\ [Next]_vars => [\A c \in DOMAIN otp : Accepted(c) => InTime(c)]_vars
  BY <1>1
<1>3. QED
  BY <1>2, IdentityInvariant, PTL DEF Spec, StaleCodesRefused

\* A password changes with a reset code that its user has read, and no other
\* way.
THEOREM PasswordsFollow == Spec => PasswordsFollowCodes
<1> DEFINE Changed(n) == rows'["user"][n].password # rows["user"][n].password
           Read(n) ==
              \E jti \in DOMAIN session : \E c \in DOMAIN otp :
                 /\ session[jti].code = c /\ ~session[jti].expired
                 /\ otp[c].user = n /\ otp[c].purpose = "PASSWORD_RESET" /\ otp[c].verified
                 /\ rows'["user"][n].password = c
<1>1. ASSUME IInv, Next, NEW n \in DOMAIN rows["user"], Changed(n)
      PROVE  Read(n)
  <2>1. TypeOK /\ Codes /\ Typed /\ Registry
    BY <1>1 DEF IInv, Typed, Verification
  <2>2. \E jti \in DOMAIN session : ResetPassword(jti)
    <3>1. CASE Sessions
      BY <1>1, <2>1, <3>1, LoggedIn, SessionExpires DEF Sessions
    <3>2. ASSUME NEW t \in Threads, Calling(t) \/ Revoke(t)
          PROVE  UNCHANGED rows
      BY <2>1, <3>2, Callings DEF Revoke
    <3>3. ASSUME NEW t \in Threads, Commit(t)
          PROVE  ~Changed(n)
      <4>1. call[t].number \notin DOMAIN rows[call[t].kind]
        BY <2>1, <3>3 DEF Commit, Registry, Exclusive
      <4>2. rows'["user"][n] = rows["user"][n]
        BY <2>1, <3>3, <4>1, Commits, Constants
      <4>3. QED
        BY <4>2
    <3>4. ASSUME NEW c \in DOMAIN otp, Verify(c)
          PROVE  ~Changed(n)
      BY <1>1, <3>4, AcceptRows DEF Verify
    <3>5. CASE Restart \/ Finished
      BY <1>1, <3>5 DEF Restart, Finished, vars
    <3>6. ASSUME NEW c \in DOMAIN otp, ExpireCode(c)
          PROVE  UNCHANGED rows
      BY <3>6 DEF ExpireCode
    <3>7. CASE Dispatched
      BY <1>1, <3>4, <3>6, <3>7 DEF Dispatched, Generate
    <3>8. QED
      BY <1>1, <2>1, <3>1, <3>2, <3>3, <3>5, <3>7, Steps
  <2>3. PICK jti \in DOMAIN session : ResetPassword(jti)
    BY <2>2
  <2> DEFINE c == session[jti].code
             m == otp[c].user
             new == [rows["user"][m] EXCEPT !.password = c]
  <2>4. /\ c \in DOMAIN otp /\ otp[c].purpose = "PASSWORD_RESET" /\ otp[c].verified
        /\ m \in DOMAIN rows["user"] /\ new \in Row /\ new.password = c
        /\ new.email = rows["user"][m].email
        /\ rows' = [rows EXCEPT !["user"] = [rows["user"] EXCEPT ![m] = new]]
    BY <1>1, <2>3, Resets
  <2>5. m = otp[c].user /\ c = session[jti].code
    OBVIOUS
  <2> HIDE DEF c, m, new
  <2>6. /\ rows'["user"][m] = new
        /\ \A k \in DOMAIN rows["user"] \ {m} : rows'["user"][k] = rows["user"][k]
    BY <2>1, <2>4, Updates
  <2>7. n = m
    BY <1>1, <2>6
  <2>8. ~session[jti].expired
    BY <2>3 DEF ResetPassword
  <2>9. QED
    BY <2>4, <2>5, <2>6, <2>7, <2>8
<1>2. IInv /\ [Next]_vars => [\A n \in DOMAIN rows["user"] : Changed(n) => Read(n)]_vars
  BY <1>1
<1>3. QED
  BY <1>2, IdentityInvariant, PTL DEF Spec, PasswordsFollowCodes
==============================================================================
