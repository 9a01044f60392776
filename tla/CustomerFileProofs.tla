-------------------------- MODULE CustomerFileProofs --------------------------
(***************************************************************************)
(* The file of a customer, for any number of threads, tokens and files.    *)
(* What a request has read may be stale when it commits; the invariant     *)
(* says what of it still holds, for any interleaving and for requests that *)
(* do not overlap.                                                         *)
(***************************************************************************)
EXTENDS CustomerFile, TLAPS

\* What a request has read and no other request can take back.
Lasting ==
    \A r \in Requests :
       /\ request[r].command = "section" =>
             \A s \in Prerequisites[request[r].section] : count[s] > 0
       /\ request[r].command = "submit" => count["financial"] > 0
       /\ request[r].command = "upload" => user.cif
       /\ request[r].command = "upload" /\ request[r].written =>
             file[request[r].path] = request[r].document

\* The event loop: one upload at most is between its file and its COMMIT.
OneWritten ==
    \A r, q \in Requests :
       /\ request[r].command = "upload" /\ request[q].command = "upload"
       /\ request[r].written /\ request[q].written
       => r = q

\* What a request has read still holds if it is alone.
Alone ==
    ~overlapped =>
       /\ \A r, q \in Open : r = q
       /\ \A r \in Requests :
             /\ request[r].command \in {"personal", "section", "submit"} => ~user.cif
             /\ request[r].command = "section" => count[request[r].section] = 0
             /\ request[r].command = "submit" /\ profile.fatca => count["fatca"] > 0
             /\ request[r].command = "upload" => ~user.kyc

FInv == TypeOK /\ Lasting /\ OneWritten /\ Alone
             /\ StagesFollow /\ EnteredOnce /\ UsPersonsDeclare /\ DocumentsStored

Reads(r) ==
    \E jti \in Tokens :
       \/ \E country \in Countries : EnterPersonal(r, jti, country)
       \/ \E section \in Sections : EnterSection(r, jti, section)
       \/ Submit(r, jti)
       \/ \E path \in Paths, document \in Documents : Upload(r, jti, path, document)
       \/ Logout(r, jti)

Commits(r) ==
    Block(r) \/ SavePersonal(r) \/ SaveSection(r) \/ Complete(r)
    \/ WriteDocument(r) \/ StoreDocument(r) \/ Revoke(r)

LEMMA Steps ==
    ASSUME Next
    PROVE  (\E r \in Requests : Reads(r) \/ Commits(r)) \/ Restart \/ Finished
  BY DEF Next, Reads, Commits

\* Every read leaves all but its request and files as they are.
LEMMA Begins ==
    ASSUME TypeOK, NEW r \in Requests, Reads(r)
    PROVE  /\ request[r] = Idle
           /\ \E new \in Request \ {Idle} : request' = [request EXCEPT ![r] = new]
           /\ overlapped' = (overlapped \/ Open # {})
           /\ UNCHANGED <<user, profile, count, blacklist, submission>>
<1> USE DEF Begin, Request, Idle
<1>1. PICK jti \in Tokens :
         \/ \E country \in Countries : EnterPersonal(r, jti, country)
         \/ \E section \in Sections : EnterSection(r, jti, section)
         \/ Submit(r, jti)
         \/ \E path \in Paths, document \in Documents : Upload(r, jti, path, document)
         \/ Logout(r, jti)
  BY DEF Reads
<1>2. CASE \E country \in Countries : EnterPersonal(r, jti, country)
  BY <1>2 DEF EnterPersonal, TypeOK
<1>3. CASE \E section \in Sections : EnterSection(r, jti, section)
  BY <1>3 DEF EnterSection
<1>4. CASE Submit(r, jti)
  BY <1>4 DEF Submit
<1>5. CASE \E path \in Paths, document \in Documents : Upload(r, jti, path, document)
  BY <1>5 DEF Upload
<1>6. CASE Logout(r, jti)
  BY <1>6 DEF Logout
<1>7. QED
  BY <1>1, <1>2, <1>3, <1>4, <1>5, <1>6

LEMMA IdleRequest == Idle \in Request
  BY DEF Request

LEMMA TypeInit == Init => TypeOK
<1> SUFFICES ASSUME Init PROVE TypeOK
  OBVIOUS
<1>1. profile \in [country : (Countries \ {"restricted"}) \cup {"none"},
                  status : CustomerStatuses, fatca : BOOLEAN]
  BY DEF Init, CustomerStatuses
<1>2. request \in [Requests -> Request]
  BY IdleRequest DEF Init
<1>3. QED
  BY <1>1, <1>2 DEF Init, TypeOK

LEMMA TypeReads ==
    ASSUME TypeOK, NEW r \in Requests, Reads(r)
    PROVE  TypeOK'
<1>1. file' \in [Paths -> Documents \cup {None}]
  BY DEF TypeOK, Reads, EnterPersonal, EnterSection, Submit, Upload, Logout
<1>2. request' \in [Requests -> Request]
  <2>1. PICK new \in Request : request' = [request EXCEPT ![r] = new]
    BY Begins
  <2>2. QED
    BY <2>1 DEF TypeOK
<1>3. overlapped' \in BOOLEAN
  BY Begins DEF TypeOK
<1>4. QED
  BY <1>1, <1>2, <1>3, Begins DEF TypeOK

LEMMA TypeCommits ==
    ASSUME TypeOK, NEW r \in Requests, Commits(r)
    PROVE  TypeOK'
<1>1. Done(r) => request' \in [Requests -> Request] /\ overlapped' \in BOOLEAN
  BY IdleRequest DEF Done, TypeOK
<1>2. CASE Block(r)
  <2>1. request[r].jti \in Tokens
    BY <1>2 DEF Block, TypeOK, Request, Idle
  <2>2. blacklist' \subseteq Tokens
    BY <1>2, <2>1 DEF Block, TypeOK
  <2>3. profile' = profile \/ profile' = [profile EXCEPT !.status = "BLOCKED"]
    BY <1>2 DEF Block
  <2>4. QED
    BY <1>1, <1>2, <2>2, <2>3 DEF Block, TypeOK, CustomerStatuses
<1>3. CASE SavePersonal(r)
  <2>1. request[r].country \in Countries \ {"restricted"}
    BY <1>3 DEF SavePersonal, TypeOK, Request, Idle
  <2>2. QED
    BY <1>1, <1>3, <2>1 DEF SavePersonal, TypeOK
<1>4. CASE SaveSection(r)
  <2>1. count' = count \/ count' = [count EXCEPT ![request[r].section] = @ + 1]
    BY <1>4 DEF SaveSection
  <2>2. count' \in [Sections -> Nat]
    BY <2>1 DEF TypeOK
  <2>3. QED
    BY <1>1, <1>4, <2>2 DEF SaveSection, TypeOK
<1>5. CASE Complete(r)
  BY <1>1, <1>5 DEF Complete, TypeOK, CustomerStatuses
<1>6. CASE WriteDocument(r)
  <2>1. request[r] \in [command : {"upload"}, path : Paths, document : Documents,
                        written : BOOLEAN]
    BY <1>6 DEF WriteDocument, TypeOK, Request, Idle
  <2>2. [request[r] EXCEPT !.written = TRUE] \in
           [command : {"upload"}, path : Paths, document : Documents, written : BOOLEAN]
    BY <2>1
  <2>3. [request[r] EXCEPT !.written = TRUE] \in Request
    BY <2>2 DEF Request
  <2>4. request' \in [Requests -> Request]
    BY <1>6, <2>3 DEF WriteDocument, TypeOK
  <2>5. file' \in [Paths -> Documents \cup {None}]
    BY <1>6, <2>1 DEF WriteDocument, TypeOK
  <2>6. QED
    BY <1>6, <2>4, <2>5 DEF WriteDocument, TypeOK
<1>7. CASE StoreDocument(r)
  <2>1. request[r].path \in Paths /\ request[r].document \in Documents
    BY <1>7 DEF StoreDocument, TypeOK, Request, Idle
  <2>2. submission' \subseteq [path : Paths, document : Documents]
    BY <1>7, <2>1 DEF StoreDocument, TypeOK
  <2>3. user' \in [cif : BOOLEAN, kyc : BOOLEAN]
    BY <1>7 DEF StoreDocument, TypeOK
  <2>4. QED
    BY <1>1, <1>7, <2>2, <2>3 DEF StoreDocument, TypeOK
<1>8. CASE Revoke(r)
  <2>1. request[r].jti \in Tokens
    BY <1>8 DEF Revoke, TypeOK, Request, Idle
  <2>2. QED
    BY <1>1, <1>8, <2>1 DEF Revoke, TypeOK
<1>9. QED
  BY <1>2, <1>3, <1>4, <1>5, <1>6, <1>7, <1>8 DEF Commits

LEMMA TypeStep == TypeOK /\ [Next]_vars => TypeOK'
<1> SUFFICES ASSUME TypeOK, [Next]_vars PROVE TypeOK'
  OBVIOUS
<1>1. CASE Restart
  BY <1>1, IdleRequest DEF Restart, TypeOK
<1>2. CASE UNCHANGED vars
  BY <1>2 DEF vars, TypeOK
<1>3. QED
  BY <1>1, <1>2, Steps, TypeReads, TypeCommits DEF Finished

\* Rows, files and requests have their types in every reachable state.
THEOREM TypeCorrect == Spec => []TypeOK
  BY TypeInit, TypeStep, PTL DEF Spec
------------------------------------------------------------------------------
(* What a read finds *)

LEMMA Found ==
    ASSUME TypeOK, NEW r \in Requests, Reads(r)
    PROVE  /\ request'[r].command \in {"personal", "section", "submit"} => ~user.cif
           /\ request'[r].command = "section" =>
                 /\ request'[r].section \in Sections
                 /\ count[request'[r].section] = 0
                 /\ \A s \in Prerequisites[request'[r].section] : count[s] > 0
           /\ request'[r].command = "submit" =>
                 count["financial"] > 0 /\ (profile.fatca => count["fatca"] > 0)
           /\ request'[r].command = "upload" => user.cif /\ ~user.kyc /\ ~request'[r].written
           /\ file' = file \/ (LoopFree /\ ~user.kyc)
<1> USE DEF TypeOK, Begin
<1>1. PICK jti \in Tokens :
         \/ \E country \in Countries : EnterPersonal(r, jti, country)
         \/ \E section \in Sections : EnterSection(r, jti, section)
         \/ Submit(r, jti)
         \/ \E path \in Paths, document \in Documents : Upload(r, jti, path, document)
         \/ Logout(r, jti)
  BY DEF Reads
<1>2. CASE \E country \in Countries : EnterPersonal(r, jti, country)
  BY <1>2 DEF EnterPersonal
<1>3. CASE \E section \in Sections : EnterSection(r, jti, section)
  <2>1. PICK section \in Sections : EnterSection(r, jti, section)
    BY <1>3
  <2>2. request'[r] = [command |-> "section", section |-> section]
    BY <2>1 DEF EnterSection
  <2>3. QED
    BY <2>1, <2>2 DEF EnterSection
<1>4. CASE Submit(r, jti)
  BY <1>4 DEF Submit, Sections
<1>5. CASE \E path \in Paths, document \in Documents : Upload(r, jti, path, document)
  BY <1>5 DEF Upload
<1>6. CASE Logout(r, jti)
  BY <1>6 DEF Logout
<1>7. QED
  BY <1>1, <1>2, <1>3, <1>4, <1>5, <1>6

LEMMA ReadsKeep ==
    ASSUME FInv, NEW r \in Requests, Reads(r)
    PROVE  FInv'
<1> USE DEF FInv
<1>1. TypeOK'
  BY TypeReads
<1>2. \A q \in Requests \ {r} : request'[q] = request[q]
  BY Begins DEF TypeOK
<1>3. Lasting'
  <2> SUFFICES ASSUME NEW q \in Requests
               PROVE  /\ request'[q].command = "section" =>
                            \A s \in Prerequisites[request'[q].section] : count[s] > 0
                      /\ request'[q].command = "submit" => count["financial"] > 0
                      /\ request'[q].command = "upload" => user.cif
                      /\ request'[q].command = "upload" /\ request'[q].written =>
                            file'[request'[q].path] = request'[q].document
    BY Begins DEF Lasting
  <2>1. CASE q = r
    BY <2>1, Found
  <2>2. CASE q # r
    <3>1. request[q].command = "upload" /\ request[q].written => file' = file
      BY <2>2, Found DEF LoopFree, Open, Idle
    <3>2. QED
      BY <2>2, <1>2, <3>1 DEF Lasting
  <2>3. QED
    BY <2>1, <2>2
<1>4. OneWritten'
  BY <1>2, Found DEF OneWritten
<1>5. Alone'
  <2>1. ~overlapped' => ~overlapped /\ Open = {}
    BY Begins
  <2>2. ~overlapped' => \A q \in Requests \ {r} : request'[q] = Idle
    BY <1>2, <2>1 DEF Open
  <2>3. QED
    BY <2>2, Found, Begins DEF Alone, Open, Idle
<1>6. StagesFollow' /\ UsPersonsDeclare'
  BY Begins DEF StagesFollow, UsPersonsDeclare
<1>7. EnteredOnce'
  BY Begins DEF EnteredOnce
<1>8. DocumentsStored'
  <2>1. submission # {} => user.kyc
    BY DEF StagesFollow
  <2>2. submission # {} => file' = file
    BY <2>1, Found
  <2>3. QED
    BY <2>2, Begins DEF DocumentsStored
<1>9. QED
  BY <1>1, <1>3, <1>4, <1>5, <1>6, <1>7, <1>8
------------------------------------------------------------------------------
(* What a commit keeps *)

\* The rows only grow, and the request that is answered is gone.
LEMMA Answered ==
    ASSUME TypeOK, NEW r \in Requests, Done(r)
    PROVE  /\ overlapped' = overlapped
           /\ request'[r] = Idle
           /\ \A q \in Requests \ {r} : request'[q] = request[q]
           /\ Open' = Open \ {r}
  BY DEF Done, TypeOK, Open

\* What is left of a request's findings when rows are added.
LEMMA LastingKept ==
    ASSUME FInv, NEW r \in Requests, Done(r), file' = file,
           count' \in [Sections -> Nat],
           \A s \in Sections : count[s] > 0 => count'[s] > 0,
           user.cif => user'.cif
    PROVE  Lasting' /\ OneWritten'
<1>1. Lasting'
  <2> SUFFICES ASSUME NEW q \in Requests
               PROVE  /\ request'[q].command = "section" =>
                            \A s \in Prerequisites[request'[q].section] : count'[s] > 0
                      /\ request'[q].command = "submit" => count'["financial"] > 0
                      /\ request'[q].command = "upload" => user'.cif
                      /\ request'[q].command = "upload" /\ request'[q].written =>
                            file[request'[q].path] = request'[q].document
    BY DEF Lasting
  <2>1. CASE q = r
    BY <2>1, Answered DEF FInv, Idle
  <2>2. CASE q # r
    <3>1. request'[q] = request[q]
      BY <2>2, Answered DEF FInv
    <3>2. request[q].command = "section" => request[q].section \in Sections
      BY DEF FInv, TypeOK, Request, Idle
    <3>3. \A s \in Sections : Prerequisites[s] \subseteq Sections
      BY DEF Prerequisites, Sections
    <3>4. QED
      BY <3>1, <3>2, <3>3 DEF FInv, Lasting, Sections
  <2>3. QED
    BY <2>1, <2>2
<1>2. OneWritten'
  BY Answered DEF FInv, OneWritten, Idle
<1>3. QED
  BY <1>1, <1>2

\* A request that is alone leaves none behind.
LEMMA AloneKept ==
    ASSUME FInv, NEW r \in Requests, request[r] # Idle, Done(r)
    PROVE  Alone' /\ (~overlapped' => ~overlapped)
<1>1. ~overlapped => Open' = {}
  BY Answered DEF FInv, Alone, Open
<1>2. ~overlapped => \A q \in Requests : request'[q] = Idle
  BY <1>1 DEF Open
<1>3. QED
  BY <1>1, <1>2, Answered DEF FInv, Alone, Idle

LEMMA CommitsKeep ==
    ASSUME FInv, NEW r \in Requests, Commits(r)
    PROVE  FInv'
<1>1. TypeOK'
  BY TypeCommits DEF FInv
<1>2. request[r] # Idle
  BY DEF Commits, Block, SavePersonal, SaveSection, Complete, WriteDocument, StoreDocument,
         Revoke, Idle
<1>3. CASE Block(r)
  <2>1. Done(r) /\ UNCHANGED <<user, count, file, submission>>
        /\ profile'.country = profile.country /\ profile'.fatca = profile.fatca
    BY <1>3 DEF Block, FInv, TypeOK
  <2>2. Lasting' /\ OneWritten' /\ Alone' /\ (~overlapped' => ~overlapped)
    BY <1>2, <2>1, LastingKept, AloneKept DEF FInv, TypeOK
  <2>3. QED
    BY <1>1, <2>1, <2>2
       DEF FInv, StagesFollow, EnteredOnce, UsPersonsDeclare, DocumentsStored
<1>4. CASE SavePersonal(r)
  <2>1. Done(r) /\ UNCHANGED <<user, count, file, submission>>
        /\ (profile'.country = "usa" => profile'.fatca)
    BY <1>4 DEF SavePersonal, FInv, TypeOK
  <2>2. Lasting' /\ OneWritten' /\ Alone' /\ (~overlapped' => ~overlapped)
    BY <1>2, <2>1, LastingKept, AloneKept DEF FInv, TypeOK
  <2>3. ~overlapped => ~user.cif
    BY <1>4 DEF SavePersonal, FInv, Alone
  <2>4. QED
    BY <1>1, <2>1, <2>2, <2>3
       DEF FInv, StagesFollow, EnteredOnce, UsPersonsDeclare, DocumentsStored
<1>5. CASE SaveSection(r)
  <2> DEFINE section == request[r].section
  <2>1. section \in Sections
    BY <1>5 DEF SaveSection, FInv, TypeOK, Request, Idle
  <2>2. Done(r) /\ UNCHANGED <<user, profile, file, submission>>
    BY <1>5 DEF SaveSection
  <2>3. /\ \A s \in Sections \ {section} : count'[s] = count[s]
        /\ IF section = "fatca" /\ count[section] > 0 THEN count'[section] = count[section]
           ELSE count'[section] = count[section] + 1
    BY <1>5, <2>1 DEF SaveSection, FInv, TypeOK
  <2>4. /\ count' \in [Sections -> Nat]
        /\ \A s \in Sections : count[s] > 0 => count'[s] > 0
    BY <1>1, <2>1, <2>3 DEF FInv, TypeOK
  <2>5. Lasting' /\ OneWritten' /\ Alone' /\ (~overlapped' => ~overlapped)
    BY <1>2, <2>2, <2>4, LastingKept, AloneKept
  <2>6. StagesFollow'
    <3>1. \A s \in Prerequisites[section] : count[s] > 0
      BY <1>5 DEF SaveSection, FInv, Lasting
    <3>2. QED
      BY <2>1, <2>2, <2>3, <2>4, <3>1
         DEF FInv, StagesFollow, Sections, Prerequisites, TypeOK
  <2>7. EnteredOnce'
    <3>1. ~overlapped => count[section] = 0
      BY <1>5 DEF SaveSection, FInv, Alone
    <3>2. QED
      BY <2>1, <2>3, <2>5, <3>1 DEF FInv, EnteredOnce, Sections, TypeOK
  <2>8. UsPersonsDeclare'
    <3>1. ~overlapped => ~user.cif
      BY <1>5 DEF SaveSection, FInv, Alone
    <3>2. QED
      BY <2>2, <2>5, <3>1 DEF FInv, UsPersonsDeclare
  <2>9. DocumentsStored'
    BY <2>2, <2>5 DEF FInv, DocumentsStored
  <2>10. QED
    BY <1>1, <2>5, <2>6, <2>7, <2>8, <2>9 DEF FInv
<1>6. CASE Complete(r)
  <2>1. /\ Done(r) /\ UNCHANGED <<count, file, submission>>
        /\ user'.cif /\ user'.kyc = user.kyc
        /\ profile'.country = profile.country /\ profile'.fatca = profile.fatca
    BY <1>6 DEF Complete, FInv, TypeOK
  <2>2. Lasting' /\ OneWritten' /\ Alone' /\ (~overlapped' => ~overlapped)
    BY <1>2, <2>1, LastingKept, AloneKept DEF FInv, TypeOK
  <2>3. /\ count["financial"] > 0
        /\ ~overlapped /\ profile.fatca => count["fatca"] > 0
    BY <1>6 DEF Complete, FInv, Lasting, Alone
  <2>4. UsPersonsDeclare'
    BY <2>1, <2>2, <2>3 DEF FInv, UsPersonsDeclare, EnteredOnce, TypeOK, Sections
  <2>5. QED
    BY <1>1, <2>1, <2>2, <2>3, <2>4
       DEF FInv, StagesFollow, EnteredOnce, DocumentsStored
<1>7. CASE WriteDocument(r)
  <2>1. /\ UNCHANGED <<user, profile, count, submission, overlapped>>
        /\ request[r].command = "upload" /\ LoopFree
        /\ request[r].path \in Paths /\ request[r].document \in Documents
    BY <1>7 DEF WriteDocument, FInv, TypeOK, Request, Idle
  <2>2. /\ \A q \in Requests \ {r} : request'[q] = request[q]
        /\ request'[r].command = "upload" /\ request'[r].written
        /\ request'[r].path = request[r].path /\ request'[r].document = request[r].document
    <3>1. request[r] \in [command : {"upload"}, path : Paths, document : Documents,
                          written : BOOLEAN]
      BY <2>1 DEF FInv, TypeOK, Request, Idle
    <3>2. QED
      BY <1>7, <3>1 DEF WriteDocument, FInv, TypeOK
  <2>3. file'[request[r].path] = request[r].document
    BY <1>7, <2>1 DEF WriteDocument, FInv, TypeOK
  <2>4. \A q \in Requests \ {r} : request'[q].command = "upload" => ~request'[q].written
    BY <2>1, <2>2 DEF LoopFree, Open, Idle
  <2>5. OneWritten'
    BY <2>4 DEF OneWritten
  <2>6. Lasting'
    BY <2>1, <2>2, <2>3, <2>4 DEF FInv, Lasting
  <2>7. Alone'
    <3>1. Open' = Open
      BY <1>2, <2>2 DEF Open, Idle
    <3>2. QED
      BY <2>1, <2>2, <3>1 DEF FInv, Alone
  <2>8. DocumentsStored'
    <3>1. ~overlapped => submission = {}
      BY <2>1 DEF FInv, Alone, StagesFollow
    <3>2. \A p \in Paths : file'[p] = file[p] \/ file'[p] \in Documents
      BY <1>7, <2>1 DEF WriteDocument, FInv, TypeOK
    <3>3. \A s \in submission : s.path \in Paths
      BY DEF FInv, TypeOK
    <3>4. QED
      BY <2>1, <3>1, <3>2, <3>3, CustomerFileAssumption DEF FInv, DocumentsStored
  <2>9. QED
    BY <1>1, <2>1, <2>5, <2>6, <2>7, <2>8
       DEF FInv, StagesFollow, EnteredOnce, UsPersonsDeclare
<1>8. CASE StoreDocument(r)
  <2> DEFINE new == [path |-> request[r].path, document |-> request[r].document]
  <2>1. /\ Done(r) /\ UNCHANGED <<profile, count, file>>
        /\ submission' = submission \cup {new}
        /\ user'.cif = user.cif /\ user'.kyc
        /\ request[r].command = "upload" /\ request[r].written
        /\ request[r].document \in Documents
    BY <1>8 DEF StoreDocument, FInv, TypeOK, Request, Idle
  <2>2. Lasting' /\ OneWritten' /\ Alone' /\ (~overlapped' => ~overlapped)
    BY <1>2, <2>1, LastingKept, AloneKept DEF FInv, TypeOK
  <2>3. user.cif /\ file[request[r].path] = request[r].document
    BY <2>1 DEF FInv, Lasting
  <2>4. DocumentsStored'
    BY <2>1, <2>2, <2>3, CustomerFileAssumption DEF FInv, DocumentsStored
  <2>5. submission' # {}
    BY <2>1
  <2>6. QED
    BY <1>1, <2>1, <2>2, <2>3, <2>4, <2>5
       DEF FInv, StagesFollow, EnteredOnce, UsPersonsDeclare
<1>9. CASE Revoke(r)
  <2>1. Done(r) /\ UNCHANGED <<user, profile, count, file, submission>>
    BY <1>9 DEF Revoke
  <2>2. Lasting' /\ OneWritten' /\ Alone' /\ (~overlapped' => ~overlapped)
    BY <1>2, <2>1, LastingKept, AloneKept DEF FInv, TypeOK
  <2>3. QED
    BY <1>1, <2>1, <2>2
       DEF FInv, StagesFollow, EnteredOnce, UsPersonsDeclare, DocumentsStored
<1>10. QED
  BY <1>3, <1>4, <1>5, <1>6, <1>7, <1>8, <1>9 DEF Commits
------------------------------------------------------------------------------
(* The invariant *)

LEMMA FileInit == Init => FInv
<1> SUFFICES ASSUME Init PROVE FInv
  OBVIOUS
<1>1. Lasting /\ OneWritten /\ Alone
  BY DEF Init, Lasting, OneWritten, Alone, Open, Idle
<1>2. StagesFollow /\ EnteredOnce /\ UsPersonsDeclare /\ DocumentsStored
  BY DEF Init, StagesFollow, EnteredOnce, UsPersonsDeclare, DocumentsStored, Sections
<1>3. QED
  BY <1>1, <1>2, TypeInit DEF FInv

LEMMA FileStep == FInv /\ [Next]_vars => FInv'
<1> SUFFICES ASSUME FInv, [Next]_vars PROVE FInv'
  OBVIOUS
<1>1. TypeOK'
  BY TypeStep DEF FInv
<1>2. CASE Restart
  <2>1. Open' = {} /\ \A r \in Requests : request'[r] = Idle
    BY <1>2 DEF Restart, Open
  <2>2. QED
    BY <1>1, <1>2, <2>1
       DEF Restart, FInv, Lasting, OneWritten, Alone, Idle, StagesFollow, EnteredOnce,
           UsPersonsDeclare, DocumentsStored
<1>3. CASE UNCHANGED vars
  BY <1>3 DEF vars, FInv, TypeOK, Lasting, OneWritten, Alone, Open, StagesFollow, EnteredOnce,
              UsPersonsDeclare, DocumentsStored
<1>4. QED
  BY <1>2, <1>3, Steps, ReadsKeep, CommitsKeep DEF Finished

LEMMA FileInvariant == Spec => []FInv
  BY FileInit, FileStep, PTL DEF Spec

\* No interleaving and no restart lets a stage of the file overtake another.
THEOREM StagesInOrder == Spec => []StagesFollow
<1>1. FInv => StagesFollow
  BY DEF FInv
<1>2. QED
  BY <1>1, FileInvariant, PTL

\* A section is entered once by requests that do not overlap, a declaration
\* by any.
THEOREM SectionsOnce == Spec => []EnteredOnce
<1>1. FInv => EnteredOnce
  BY DEF FInv
<1>2. QED
  BY <1>1, FileInvariant, PTL

\* Ties to the USA are never forgotten, and declared in a completed file.
THEOREM DeclarationsMade == Spec => []UsPersonsDeclare
<1>1. FInv => UsPersonsDeclare
  BY DEF FInv
<1>2. QED
  BY <1>1, FileInvariant, PTL

\* Every submission has a document, however uploads share a name.
THEOREM DocumentsKept == Spec => []DocumentsStored
<1>1. FInv => DocumentsStored
  BY DEF FInv
<1>2. QED
  BY <1>1, FileInvariant, PTL

\* Blocking is one with the loss of the token.
THEOREM BlocksTakeTokens == Spec => BlockTakesToken
<1>1. ASSUME FInv, [Next]_vars
      PROVE  [profile.status # "BLOCKED" /\ profile'.status = "BLOCKED" =>
                 blacklist' # blacklist]_vars
  <2> SUFFICES ASSUME profile.status # "BLOCKED", profile'.status = "BLOCKED", Next
               PROVE  blacklist' # blacklist
    BY <1>1 DEF vars
  <2>1. PICK r \in Requests : Reads(r) \/ Commits(r)
    BY Steps DEF Restart, Finished, vars
  <2>2. CASE Block(r)
    BY <2>2 DEF Block
  <2>3. CASE ~Block(r)
    <3>1. profile' = profile \/ SavePersonal(r) \/ Complete(r)
      BY <1>1, <2>1, <2>3, Begins
         DEF FInv, Commits, SaveSection, WriteDocument, StoreDocument, Revoke
    <3>2. QED
      BY <1>1, <3>1 DEF SavePersonal, Complete, FInv, TypeOK
  <2>4. QED
    BY <2>2, <2>3
<1>2. QED
  BY <1>1, FileInvariant, PTL DEF Spec, BlockTakesToken
==============================================================================
