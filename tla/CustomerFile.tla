---------------------------- MODULE CustomerFile -----------------------------
(***************************************************************************)
(* The information file (CIF) and the identity document (KYC) of one       *)
(* customer.  The steps of the file run in the thread pool: a thread reads *)
(* the rows and decides, and writes in a COMMIT of its own; rows are only  *)
(* ever added, so that reading them at one instant loses no outcome.  An   *)
(* upload is a coroutine that checks, opens the file and awaits the        *)
(* document, and then has the event loop for itself until its COMMIT.      *)
(***************************************************************************)
EXTENDS Naturals, FiniteSets

CONSTANTS
    Requests,   \* threads and coroutines
    Tokens,     \* access tokens the customer may log in for
    Paths,      \* names of files: type of the document, second of the upload
    Documents,  \* documents that are uploaded
    None,       \* no file
    MaxOpen,    \* bound: requests in flight
    MaxRows     \* bound: rows of a section, and submissions

ASSUME CustomerFileAssumption ==
    /\ None \notin Documents
    /\ {MaxOpen, MaxRows} \subseteq Nat

VARIABLES
    user,        \* is_cif_completed, is_kyc_completed
    profile,     \* country, customer_status, fatca_required
    count,       \* count[section]: rows (batches of addresses)
    blacklist,   \* revoked tokens
    file,        \* file[path]: what is stored under the name
    submission,  \* rows of kyc_document_submissions
    request,     \* request[r]: what r is about to do
    overlapped   \* two requests have been in flight at a time

vars == <<user, profile, count, blacklist, file, submission, request, overlapped>>

Sections == {"address", "employment", "financial", "fatca"}
Countries == {"restricted", "usa", "other"}
CustomerStatuses == {"IN_PROGRESS", "ACTIVE", "BLOCKED"}

\* Mutation of Prerequisites: the address may come later.
PrerequisitesNoAddress ==
    [address |-> {}, employment |-> {}, financial |-> {"employment"}, fatca |-> {"financial"}]

\* What a section asks for.  (The profile, which all ask for, exists since
\* the registration.)
Prerequisites ==
    [address |-> {}, employment |-> {"address"}, financial |-> {"employment"},
     fatca |-> {"financial"}]

Idle == [command |-> "none"]
Request ==
    {Idle}
    \cup [command : {"personal"}, country : Countries, jti : Tokens, status : CustomerStatuses]
    \cup [command : {"section"}, section : Sections]
    \cup [command : {"submit"}]
    \cup [command : {"upload"}, path : Paths, document : Documents, written : BOOLEAN]
    \cup [command : {"logout"}, jti : Tokens]

Open == {r \in Requests : request[r] # Idle}

\* The registration made the user and the profile.
Init ==
    /\ user = [cif |-> FALSE, kyc |-> FALSE]
    /\ profile = [country |-> "none", status |-> "IN_PROGRESS", fatca |-> FALSE]
    /\ count = [s \in Sections |-> 0]
    /\ blacklist = {}
    /\ file = [p \in Paths |-> None]
    /\ submission = {}
    /\ request = [r \in Requests |-> Idle]
    /\ overlapped = FALSE
------------------------------------------------------------------------------
(* What a request reads *)

Begin(r, jti, new) ==
    /\ request[r] = Idle
    /\ Cardinality(Open) < MaxOpen
    /\ jti \notin blacklist
    /\ request' = [request EXCEPT ![r] = new]
    /\ overlapped' = (overlapped \/ Open # {})
    /\ UNCHANGED <<user, profile, count, blacklist, submission>>

\* Personal details: not entered before, the date of birth the registered
\* one, at an age of 18 to 100.
EnterPersonal(r, jti, country) ==
    /\ ~user.cif
    /\ profile.country = "none"
    /\ Begin(r, jti, [command |-> "personal", country |-> country, jti |-> jti,
                      status |-> profile.status])
    /\ UNCHANGED file

EnterSection(r, jti, section) ==
    /\ ~user.cif
    /\ \A s \in Prerequisites[section] : count[s] > 0
    /\ count[section] = 0
    /\ Begin(r, jti, [command |-> "section", section |-> section])
    /\ UNCHANGED file

\* Mutation of Submit: the declaration is not asked for.
SubmitUndeclared(r, jti) ==
    /\ ~user.cif
    /\ count["employment"] > 0 /\ count["financial"] > 0
    /\ Begin(r, jti, [command |-> "submit"])
    /\ UNCHANGED file

\* submit_cif looks for the last sections only.
Submit(r, jti) ==
    /\ ~user.cif
    /\ count["employment"] > 0 /\ count["financial"] > 0
    /\ profile.fatca => count["fatca"] > 0
    /\ Begin(r, jti, [command |-> "submit"])
    /\ UNCHANGED file

\* An upload that has written its file holds the event loop.
LoopFree == \A r \in Open : request[r].command = "upload" => ~request[r].written

\* conduct_kyc up to its await: the file is opened, and emptied.
Upload(r, jti, path, document) ==
    /\ LoopFree
    /\ user.cif
    /\ ~user.kyc
    /\ Begin(r, jti, [command |-> "upload", path |-> path, document |-> document,
                      written |-> FALSE])
    /\ file' = [file EXCEPT ![path] = None]

Logout(r, jti) ==
    /\ Begin(r, jti, [command |-> "logout", jti |-> jti])
    /\ UNCHANGED file
------------------------------------------------------------------------------
(* What a request commits *)

Done(r) == request' = [request EXCEPT ![r] = Idle] /\ UNCHANGED overlapped

\* Mutation of Block: a token that is revoked already does not matter.
BlockAnyway(r) ==
    /\ request[r].command = "personal" /\ request[r].country = "restricted"
    /\ blacklist' = blacklist \cup {request[r].jti}
    /\ profile' = [profile EXCEPT !.status = "BLOCKED"]
    /\ Done(r)
    /\ UNCHANGED <<user, count, file, submission>>

\* GEO_RESTRICTION: one COMMIT revokes the token and blocks the customer.
\* It fails as a whole when the token is revoked already, and writes the
\* status only if it is not the one read.
Block(r) ==
    /\ request[r].command = "personal" /\ request[r].country = "restricted"
    /\ IF request[r].jti \in blacklist
       THEN UNCHANGED <<blacklist, profile>>
       ELSE /\ blacklist' = blacklist \cup {request[r].jti}
            /\ profile' = IF request[r].status = "BLOCKED" THEN profile
                          ELSE [profile EXCEPT !.status = "BLOCKED"]
    /\ Done(r)
    /\ UNCHANGED <<user, count, file, submission>>

\* The flag was FALSE when it was read: setting it to FALSE writes nothing.
SavePersonal(r) ==
    /\ request[r].command = "personal" /\ request[r].country # "restricted"
    /\ profile' = [profile EXCEPT !.country = request[r].country,
                                  !.fatca = @ \/ request[r].country = "usa"]
    /\ Done(r)
    /\ UNCHANGED <<user, count, blacklist, file, submission>>

\* Only the declaration has a unique index, and fails on a second row.
SaveSection(r) ==
    /\ request[r].command = "section"
    /\ LET s == request[r].section
       IN count' = IF s = "fatca" /\ count[s] > 0 THEN count
                   ELSE [count EXCEPT ![s] = @ + 1]
    /\ Done(r)
    /\ UNCHANGED <<user, profile, blacklist, file, submission>>

\* The status is written whatever it was.
Complete(r) ==
    /\ request[r].command = "submit"
    /\ user' = [user EXCEPT !.cif = TRUE]
    /\ profile' = [profile EXCEPT !.status = "ACTIVE"]
    /\ Done(r)
    /\ UNCHANGED <<count, blacklist, file, submission>>

WriteDocument(r) ==
    /\ request[r].command = "upload"
    /\ LoopFree
    /\ file' = [file EXCEPT ![request[r].path] = request[r].document]
    /\ request' = [request EXCEPT ![r].written = TRUE]
    /\ UNCHANGED <<user, profile, count, blacklist, submission, overlapped>>

\* Mutation of StoreDocument: the row is committed before the file.
StoreDocumentEarly(r) ==
    /\ request[r].command = "upload"
    /\ submission' = submission \cup {[path |-> request[r].path, document |-> request[r].document]}
    /\ user' = [user EXCEPT !.kyc = TRUE]
    /\ Done(r)
    /\ UNCHANGED <<profile, count, blacklist, file>>

StoreDocument(r) ==
    /\ request[r].command = "upload"
    /\ request[r].written
    /\ submission' = submission \cup {[path |-> request[r].path, document |-> request[r].document]}
    /\ user' = [user EXCEPT !.kyc = TRUE]
    /\ Done(r)
    /\ UNCHANGED <<profile, count, blacklist, file>>

Revoke(r) ==
    /\ request[r].command = "logout"
    /\ blacklist' = blacklist \cup {request[r].jti}
    /\ Done(r)
    /\ UNCHANGED <<user, profile, count, file, submission>>

\* The process stops: what is not committed is rolled back, files stay.
Restart ==
    /\ Open # {}
    /\ request' = [r \in Requests |-> Idle]
    /\ UNCHANGED <<user, profile, count, blacklist, file, submission, overlapped>>

\* Nothing is in flight; the customer may stop here (no deadlock).
Finished ==
    /\ Open = {}
    /\ UNCHANGED vars

Next ==
    \/ \E r \in Requests :
         \/ \E jti \in Tokens :
              \/ \E country \in Countries : EnterPersonal(r, jti, country)
              \/ \E section \in Sections : EnterSection(r, jti, section)
              \/ Submit(r, jti)
              \/ \E path \in Paths, document \in Documents : Upload(r, jti, path, document)
              \/ Logout(r, jti)
         \/ Block(r)
         \/ SavePersonal(r)
         \/ SaveSection(r)
         \/ Complete(r)
         \/ WriteDocument(r)
         \/ StoreDocument(r)
         \/ Revoke(r)
    \/ Restart
    \/ Finished

Spec == Init /\ [][Next]_vars
------------------------------------------------------------------------------
(* Properties *)

\* Flags, rows, files and requests have the values of their columns.
TypeOK ==
    /\ user \in [cif : BOOLEAN, kyc : BOOLEAN]
    /\ profile \in [country : (Countries \ {"restricted"}) \cup {"none"},
                    status : CustomerStatuses, fatca : BOOLEAN]
    /\ count \in [Sections -> Nat]
    /\ blacklist \subseteq Tokens
    /\ file \in [Paths -> Documents \cup {None}]
    /\ submission \subseteq [path : Paths, document : Documents]
    /\ request \in [Requests -> Request]
    /\ overlapped \in BOOLEAN

\* The stages of the file follow each other, whichever threads enter them
\* and however often the process stops: a document needs a completed file,
\* and a completed file the chain of sections up to the finances.
StagesFollow ==
    /\ user.kyc <=> submission # {}
    /\ user.kyc => user.cif
    /\ user.cif => count["financial"] > 0
    /\ count["fatca"] > 0 => count["financial"] > 0
    /\ count["financial"] > 0 => count["employment"] > 0
    /\ count["employment"] > 0 => count["address"] > 0

\* No section is entered twice by requests that do not overlap, and the
\* declaration not even by those that do ("already entered").
EnteredOnce ==
    /\ ~overlapped => \A s \in Sections : count[s] <= 1
    /\ count["fatca"] <= 1

\* A customer with ties to the USA is known to need a declaration, also when
\* personal details were entered by several threads at once; and none
\* completes the file without one, unless requests overlap.
UsPersonsDeclare ==
    profile.country = "usa" =>
        /\ profile.fatca
        /\ user.cif /\ ~overlapped => count["fatca"] = 1

\* A submission has a document in the file system, whatever uploads shared
\* its name and wherever the process stopped; uploads that do not overlap
\* keep their own.
DocumentsStored ==
    \A s \in submission :
       /\ file[s.path] # None
       /\ ~overlapped => file[s.path] = s.document

\* Blocking a customer takes the token it was asked with: a request that
\* races a logout of that token either does both or nothing.
BlockTakesToken ==
    [][profile.status # "BLOCKED" /\ profile'.status = "BLOCKED" => blacklist' # blacklist]_vars
==============================================================================
