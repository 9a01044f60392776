------------------------------ MODULE BatchJobs ------------------------------
(***************************************************************************)
(* The clearing and settlement jobs an administrator starts through        *)
(* /jobs/clearing and /jobs/settlements.  Each request is a coroutine with *)
(* a session of its own: it selects transactions, changes the objects it   *)
(* read, and commits.  The selection takes no lock, so whatever commits    *)
(* between the SELECT and the COMMIT of a job is overwritten by it.  The    *)
(* answer is built after the COMMIT, and may fail or never be sent.        *)
(***************************************************************************)
EXTENDS Money, FiniteSets, FiniteSetsExt

CONSTANTS
    Txns,        \* transactions that may be authorized
    Days,        \* days, UTC
    DayOf,       \* the day of Transaction.created_at
    Amount,      \* Transaction.amount, in paise
    Jobs,        \* requests to the two endpoints
    MaxRunning   \* bound: jobs between their SELECT and their answer

ASSUME BatchJobsAssumption ==
    /\ IsFiniteSet(Jobs)
    /\ DayOf \in [Txns -> Days]
    /\ Amount \in [Txns -> Nat]
    /\ "malformed" \notin Days
    /\ MaxRunning \in Nat

\* The date comes from the URL; "malformed" is one strptime refuses.
Request == [kind : {"clearing", "settlement"}, date : Days \cup {"malformed"}]

VARIABLES
    status,    \* Transaction.status; "none" before the row exists
    request,   \* request[j]: what the administrator asks for
    pc,        \* pc[j]: where the coroutine of j is
    selected,  \* selected[j]: the transactions j read
    answer,    \* answer[j]: how j was answered
    met        \* history, met[j]: the jobs between SELECT and COMMIT with j

vars == <<status, request, pc, selected, answer, met>>

Statuses == {"none", "AUTHORIZED", "CLEARED", "SETTLED"}
Rank == [none |-> 0, AUTHORIZED |-> 1, CLEARED |-> 2, SETTLED |-> 3]

\* The status a job looks for and the status it writes.
From(j) == IF request[j].kind = "clearing" THEN "AUTHORIZED" ELSE "CLEARED"
To(j) == IF request[j].kind = "clearing" THEN "CLEARED" ELSE "SETTLED"

\* Jobs whose transaction is open, and jobs that are being served.
Open == {j \in Jobs : pc[j] = "selected"}
Running == {j \in Jobs : pc[j] \in {"selected", "committed"}}

Init ==
    /\ status = [t \in Txns |-> "none"]
    /\ request \in [Jobs -> Request]
    /\ pc = [j \in Jobs |-> "idle"]
    /\ selected = [j \in Jobs |-> {}]
    /\ answer = [j \in Jobs |-> "none"]
    /\ met = [j \in Jobs |-> {}]

\* TransactionEngine.authorize commits the transaction.
Authorize(t) ==
    /\ status[t] = "none"
    /\ status' = [status EXCEPT ![t] = "AUTHORIZED"]
    /\ UNCHANGED <<request, pc, selected, answer, met>>

\* Mutations of Selection: a clearing takes its day's transactions whatever
\* their status; a settlement also takes what is not cleared yet.
SelectionAnyStatus(j) ==
    {t \in Txns : IF request[j].kind = "clearing"
                  THEN status[t] # "none" /\ DayOf[t] = request[j].date
                  ELSE status[t] = From(j)}
SelectionUncleared(j) ==
    IF request[j].kind = "clearing"
    THEN {t \in Txns : status[t] = From(j) /\ DayOf[t] = request[j].date}
    ELSE {t \in Txns : status[t] \in {"AUTHORIZED", "CLEARED"}}

\* A clearing job takes the transactions of its day, a settlement every
\* CLEARED one: it makes no use of its date.
Selection(j) ==
    {t \in Txns : /\ status[t] = From(j)
                  /\ request[j].kind = "clearing" => DayOf[t] = request[j].date}

\* A clearing whose date cannot be parsed fails before its SELECT.
Malformed(j) == request[j].date = "malformed"
Refuse(j) ==
    /\ pc[j] = "idle" /\ request[j].kind = "clearing" /\ Malformed(j)
    /\ pc' = [pc EXCEPT ![j] = "done"]
    /\ answer' = [answer EXCEPT ![j] = "INTERNAL_ERROR"]
    /\ UNCHANGED <<status, request, selected, met>>

\* The SELECT of a job.
Select(j) ==
    /\ pc[j] = "idle" /\ (request[j].kind = "clearing" => ~Malformed(j))
    /\ Cardinality(Running) < MaxRunning
    /\ pc' = [pc EXCEPT ![j] = "selected"]
    /\ selected' = [selected EXCEPT ![j] = Selection(j)]
    /\ met' = [i \in Jobs |-> IF i = j THEN Open
                             ELSE IF i \in Open THEN met[i] \cup {j} ELSE met[i]]
    /\ UNCHANGED <<status, request, answer>>

\* Mutation of Commit: a job leaves one of the rows it read as it was.
CommitAllButOne(j) ==
    /\ pc[j] = "selected"
    /\ \E missed \in SUBSET selected[j] :
         /\ Cardinality(missed) = 1
         /\ status' = [t \in Txns |->
                         IF t \in selected[j] \ missed THEN To(j) ELSE status[t]]
    /\ pc' = [pc EXCEPT ![j] = "committed"]
    /\ UNCHANGED <<request, selected, answer, met>>

\* UPDATE of every row read, by primary key, and COMMIT.
Commit(j) ==
    /\ pc[j] = "selected"
    /\ status' = [t \in Txns |-> IF t \in selected[j] THEN To(j) ELSE status[t]]
    /\ pc' = [pc EXCEPT ![j] = "committed"]
    /\ UNCHANGED <<request, selected, answer, met>>

\* The report of a settlement: its date is parsed only now, and 98% of its
\* total must be whole paise for the response model to accept it.
Total(S) == MapThenSumSet(LAMBDA t : Amount[t], S)
Reportable(j) ==
    request[j].kind = "settlement" =>
        ~Malformed(j) /\ WholePaise(98 * Total(selected[j]))

\* The response is built from the objects in memory and validated; the
\* transaction is committed whatever comes of it.
Answer(j) ==
    /\ pc[j] = "committed"
    /\ pc' = [pc EXCEPT ![j] = "done"]
    /\ \/ /\ Reportable(j)
          /\ answer' = [answer EXCEPT ![j] = "COMPLETED"]
       \/ /\ ~Reportable(j)
          /\ answer' = [answer EXCEPT ![j] = "INTERNAL_ERROR"]
    /\ UNCHANGED <<status, request, selected, met>>

\* The process stops: jobs that have not committed are rolled back, the
\* others keep their rows, and none of them is answered.
Restart ==
    /\ Running # {}
    /\ pc' = [j \in Jobs |-> IF j \in Running THEN "done" ELSE pc[j]]
    /\ answer' = [j \in Jobs |->
                     IF j \in Running THEN "NO_RESPONSE" ELSE answer[j]]
    /\ selected' = [j \in Jobs |-> IF j \in Open THEN {} ELSE selected[j]]
    /\ UNCHANGED <<status, request, met>>

\* Nothing is left to do (no deadlock).
Finished ==
    /\ \A j \in Jobs : pc[j] = "done"
    /\ \A t \in Txns : status[t] # "none"
    /\ UNCHANGED vars

Next ==
    \/ \E t \in Txns : Authorize(t)
    \/ \E j \in Jobs : Refuse(j) \/ Select(j) \/ Commit(j) \/ Answer(j)
    \/ Restart
    \/ Finished

Spec == Init /\ [][Next]_vars
------------------------------------------------------------------------------
(* Properties *)

\* A transaction has one of the statuses the jobs know, and a job one of the
\* answers of its endpoint.
TypeOK ==
    /\ status \in [Txns -> Statuses]
    /\ request \in [Jobs -> Request]
    /\ pc \in [Jobs -> {"idle", "selected", "committed", "done"}]
    /\ selected \in [Jobs -> SUBSET Txns]
    /\ answer \in [Jobs -> {"none", "COMPLETED", "INTERNAL_ERROR", "NO_RESPONSE"}]
    /\ met \in [Jobs -> SUBSET Jobs]

\* Jobs of a kind that are past their SELECT and did not roll back: those that
\* did have selected nothing.  "Taken" says that one of them committed t, and
\* "TakenTogether" that two did which were open at the same time.
Committed(kind) ==
    {j \in Jobs : pc[j] \in {"committed", "done"} /\ request[j].kind = kind}
Taken(kind, t) == \E j \in Committed(kind) : t \in selected[j]
TakenTogether(kind, t) ==
    \E i, j \in Committed(kind) :
        i # j /\ j \in met[i] /\ t \in selected[i] \cap selected[j]

\* total_amount_cleared and total_settled_amount count a transaction once,
\* whatever fails or stops, except where jobs ran together: two clearings that
\* both report t met each other, and two settlements of t met, or came after
\* two clearings that did and put t back.
CountedOnceUnlessTogether ==
    \A t \in Txns, kind \in {"clearing", "settlement"} :
        \A i, j \in Committed(kind) :
            i # j /\ t \in selected[i] \cap selected[j] =>
                \/ j \in met[i]
                \/ kind = "settlement" /\ TakenTogether("clearing", t)

\* A transaction moves from AUTHORIZED to CLEARED to SETTLED, one status at a
\* time.  The one way back is from SETTLED to CLEARED, by the later of two
\* clearings that ran together and both took it.
StatusAdvancesUnlessTogether ==
    [][\A t \in Txns :
          \/ Rank[status'[t]] - Rank[status[t]] \in {0, 1}
          \/ /\ status[t] = "SETTLED" /\ status'[t] = "CLEARED"
             /\ TakenTogether("clearing", t)']_vars

\* Every row that moved is in the batch of a job that committed it, answered
\* or not, and stays where that batch put it unless two clearings ran
\* together.  A clearing that was answered 500 moved nothing; a settlement
\* answered 500 has moved its batch if its date is malformed or its net
\* obligation has a fraction of a paisa, and is answered so only then.
RowsAccountedFor ==
    /\ \A t \in Txns :
          /\ status[t] \in {"CLEARED", "SETTLED"} <=> Taken("clearing", t)
          /\ status[t] = "SETTLED" => Taken("settlement", t)
          /\ Taken("settlement", t) =>
                 status[t] = "SETTLED" \/ TakenTogether("clearing", t)
    /\ \A j \in Jobs : answer[j] = "INTERNAL_ERROR" =>
          /\ request[j].kind = "clearing" => selected[j] = {}
          /\ request[j].kind = "settlement" =>
                 Malformed(j) \/ ~WholePaise(98 * Total(selected[j]))
==============================================================================
