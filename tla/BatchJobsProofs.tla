--------------------------- MODULE BatchJobsProofs ---------------------------
(***************************************************************************)
(* Clearing and settlement for any number of transactions, days, jobs and  *)
(* jobs that run at a time: what is counted twice, and what falls back     *)
(* from SETTLED, was taken by jobs that ran together, and every row that   *)
(* moved is in a committed batch.                                          *)
(***************************************************************************)
EXTENDS BatchJobs, TLAPS

Kinds == {"clearing", "settlement"}

\* The types of the variables, in every reachable state.
THEOREM TypeCorrect == Spec => []TypeOK
<1>1. Init => TypeOK
  BY DEF Init, TypeOK, Statuses
<1>2. TypeOK /\ [Next]_vars => TypeOK'
  <2> SUFFICES ASSUME TypeOK, [Next]_vars PROVE TypeOK'
    OBVIOUS
  <2> USE DEF TypeOK
  <2>1. ASSUME NEW t \in Txns, Authorize(t) PROVE TypeOK'
    BY <2>1 DEF Authorize, Statuses
  <2>2. ASSUME NEW j \in Jobs, Refuse(j) PROVE TypeOK'
    BY <2>2 DEF Refuse
  <2>3. ASSUME NEW j \in Jobs, Select(j) PROVE TypeOK'
    <3>1. Open \subseteq Jobs /\ Selection(j) \subseteq Txns
      BY DEF Open, Selection
    <3>2. QED
      BY <2>3, <3>1 DEF Select
  <2>4. ASSUME NEW j \in Jobs, Commit(j) PROVE TypeOK'
    <3>1. To(j) \in Statuses
      BY DEF To, Statuses
    <3>2. status' \in [Txns -> Statuses]
      BY <2>4, <3>1 DEF Commit
    <3>3. pc' \in [Jobs -> {"idle", "selected", "committed", "done"}]
      BY <2>4 DEF Commit
    <3>4. QED
      BY <2>4, <3>2, <3>3 DEF Commit
  <2>5. ASSUME NEW j \in Jobs, Answer(j) PROVE TypeOK'
    BY <2>5 DEF Answer
  <2>6. ASSUME Restart PROVE TypeOK'
    BY <2>6 DEF Restart
  <2>7. ASSUME Finished \/ UNCHANGED vars PROVE TypeOK'
    BY <2>7 DEF Finished, vars
  <2>8. QED
    BY <2>1, <2>2, <2>3, <2>4, <2>5, <2>6, <2>7 DEF Next
<1>3. QED
  BY <1>1, <1>2, PTL DEF Spec
------------------------------------------------------------------------------
(* The inductive invariant *)

\* Jobs that are open at the same time have met.  A job that has not begun
\* read nothing, and what an open job read has not gone back before the
\* status it looks for.
OpenMet == \A i, j \in Open : i # j => j \in met[i]
IdleReadNothing == \A j \in Jobs : pc[j] = "idle" => selected[j] = {}
OpenReads ==
    \A j \in Open : \A t \in selected[j] :
        /\ status[t] # "none"
        /\ request[j].kind = "settlement" => status[t] \in {"CLEARED", "SETTLED"}

\* A job that reads, or has read, what another of its kind committed has met
\* it, or settles what two clearings put back.
Readers(kind) == {j \in Jobs : pc[j] # "idle" /\ request[j].kind = kind}
Explained(kind, t, i, j) ==
    \/ i \in met[j] /\ j \in met[i]
    \/ kind = "settlement" /\ TakenTogether("clearing", t)
RepeatsExplained ==
    \A kind \in Kinds, t \in Txns : \A i \in Committed(kind), j \in Readers(kind) :
        i # j /\ t \in selected[i] \cap selected[j] => Explained(kind, t, i, j)

\* The rows against the batches, as in RowsAccountedFor.
RowOfBatches(t) ==
    /\ status[t] \in {"CLEARED", "SETTLED"} <=> Taken("clearing", t)
    /\ status[t] = "SETTLED" => Taken("settlement", t)
    /\ Taken("settlement", t) =>
           status[t] = "SETTLED" \/ TakenTogether("clearing", t)
RowsOfBatches == \A t \in Txns : RowOfBatches(t)

IInv ==
    /\ TypeOK /\ OpenMet /\ IdleReadNothing /\ OpenReads
    /\ RepeatsExplained /\ RowsOfBatches

\* Steps that commit nothing: a job keeps its batch and those it met, and one
\* that ends without a COMMIT has an empty batch.
Quiet ==
    /\ UNCHANGED request
    /\ \A kind \in Kinds :
          /\ \A i \in Committed(kind) : /\ i \in Committed(kind)'
                                        /\ selected'[i] = selected[i]
                                        /\ met'[i] = met[i]
          /\ \A i \in Committed(kind)' : i \in Committed(kind) \/ selected'[i] = {}

\* A quiet step changes neither what is taken nor what is taken together.
LEMMA QuietTakes ==
    ASSUME Quiet, NEW kind \in Kinds, NEW t
    PROVE  /\ Taken(kind, t)' <=> Taken(kind, t)
           /\ TakenTogether(kind, t)' <=> TakenTogether(kind, t)
<1>1. Taken(kind, t)' <=> Taken(kind, t)
  BY DEF Quiet, Taken
<1>2. TakenTogether(kind, t) => TakenTogether(kind, t)'
  BY DEF Quiet, TakenTogether
<1>3. TakenTogether(kind, t)' => TakenTogether(kind, t)
  <2> SUFFICES ASSUME TakenTogether(kind, t)' PROVE TakenTogether(kind, t)
    OBVIOUS
  <2>1. PICK i \in Committed(kind)', j \in Committed(kind)' :
            i # j /\ j \in met'[i] /\ t \in selected'[i] \cap selected'[j]
    BY DEF TakenTogether
  <2>2. i \in Committed(kind) /\ j \in Committed(kind)
    BY <2>1 DEF Quiet
  <2>3. QED
    BY <2>1, <2>2 DEF Quiet, TakenTogether
<1>4. QED
  BY <1>1, <1>2, <1>3

\* A quiet step that leaves the rows alone keeps them accounted for, and one
\* whose readers are old or read nothing keeps the repeats explained.
LEMMA QuietRows ==
    ASSUME RowsOfBatches, Quiet, UNCHANGED status
    PROVE  RowsOfBatches'
<1>1. \A t \in Txns, kind \in Kinds :
          /\ Taken(kind, t)' <=> Taken(kind, t)
          /\ TakenTogether(kind, t)' <=> TakenTogether(kind, t)
  BY QuietTakes
<1>2. QED
  BY <1>1 DEF RowsOfBatches, RowOfBatches, Kinds
LEMMA QuietRepeats ==
    ASSUME RepeatsExplained, Quiet,
           \A kind \in Kinds : \A j \in Readers(kind)' :
               \/ /\ j \in Readers(kind) /\ selected'[j] = selected[j]
                  /\ met[j] \subseteq met'[j]
               \/ selected'[j] = {}
    PROVE  RepeatsExplained'
<1> SUFFICES ASSUME NEW kind \in Kinds, NEW t \in Txns,
                    NEW i \in Committed(kind)', NEW j \in Readers(kind)',
                    i # j, t \in selected'[i] \cap selected'[j]
             PROVE  Explained(kind, t, i, j)'
  BY DEF RepeatsExplained
<1>1. i \in Committed(kind) /\ selected'[i] = selected[i] /\ met'[i] = met[i]
  BY DEF Quiet
<1>2. j \in Readers(kind) /\ selected'[j] = selected[j] /\ met[j] \subseteq met'[j]
  OBVIOUS
<1>3. Explained(kind, t, i, j)
  BY <1>1, <1>2 DEF RepeatsExplained
<1>4. TakenTogether("clearing", t) => TakenTogether("clearing", t)'
  BY QuietTakes DEF Kinds
<1>5. QED
  BY <1>1, <1>2, <1>3, <1>4 DEF Explained

\* A SELECT reads rows in the status the job looks for: what a clearing finds
\* AUTHORIZED no batch holds, and a settlement finds CLEARED only what is not
\* settled yet or was put back.
LEMMA SelectIInv ==
    ASSUME IInv, TypeOK', NEW j \in Jobs, Select(j)
    PROVE  IInv'
<1> USE DEF IInv
<1>1. /\ pc[j] = "idle" /\ pc' = [pc EXCEPT ![j] = "selected"]
      /\ selected' = [selected EXCEPT ![j] = Selection(j)]
      /\ met' = [i \in Jobs |-> IF i = j THEN Open
                             ELSE IF i \in Open THEN met[i] \cup {j} ELSE met[i]]
      /\ UNCHANGED <<status, request>>
  BY DEF Select
<1>2. /\ pc'[j] = "selected" /\ selected'[j] = Selection(j) /\ met'[j] = Open
      /\ \A i \in Jobs \ {j} :
            /\ pc'[i] = pc[i] /\ selected'[i] = selected[i]
            /\ met'[i] = IF i \in Open THEN met[i] \cup {j} ELSE met[i]
  BY <1>1 DEF TypeOK
<1>3. Open' = Open \cup {j} /\ j \notin Open
  BY <1>1, <1>2 DEF Open
<1>4. \A kind \in Kinds : Committed(kind)' = Committed(kind) /\ j \notin Committed(kind)
  BY <1>1, <1>2 DEF Committed
<1>5. \A kind \in Kinds : \A i \in Committed(kind) :
          i # j /\ i \in Jobs /\ i \notin Open
  BY <1>4 DEF Committed, Open
<1>6. Quiet
  BY <1>1, <1>2, <1>4, <1>5 DEF Quiet
<1>7. OpenMet'
  BY <1>2, <1>3 DEF OpenMet, Open
<1>8. IdleReadNothing'
  BY <1>2 DEF IdleReadNothing
<1>9. OpenReads'
  <2>1. \A t \in Selection(j) : status[t] = From(j)
    BY DEF Selection
  <2>2. request[j].kind \in {"clearing", "settlement"}
    BY DEF TypeOK, Request
  <2>3. \A t \in selected'[j] :
            /\ status'[t] # "none"
            /\ request'[j].kind = "settlement" => status'[t] \in {"CLEARED", "SETTLED"}
    BY <1>1, <1>2, <2>1, <2>2 DEF From
  <2>4. QED
    BY <1>1, <1>2, <1>3, <2>3 DEF OpenReads, Open
<1>10. RowsOfBatches'
  BY <1>1, <1>6, QuietRows
<1>11. RepeatsExplained'
  <2> SUFFICES ASSUME NEW kind \in Kinds, NEW t \in Txns,
                      NEW i \in Committed(kind)', NEW k \in Readers(kind)',
                      i # k, t \in selected'[i] \cap selected'[k]
               PROVE  Explained(kind, t, i, k)'
    BY DEF RepeatsExplained
  <2>1. i \in Committed(kind) /\ selected'[i] = selected[i] /\ met'[i] = met[i]
    BY <1>2, <1>4, <1>5
  <2>2. TakenTogether("clearing", t) => TakenTogether("clearing", t)'
    BY <1>6, QuietTakes DEF Kinds
  <2>3. CASE k = j
    <3>1. status[t] = From(j) /\ request[j].kind = kind
      BY <1>1, <1>2, <2>3 DEF Selection, Readers
    <3>2. Taken(kind, t)
      BY <2>1 DEF Taken
    <3>3. kind = "settlement" /\ TakenTogether("clearing", t)
      BY <3>1, <3>2 DEF From, RowsOfBatches, RowOfBatches, Kinds
    <3>4. QED
      BY <2>2, <3>3 DEF Explained
  <2>4. CASE k # j
    <3>1. /\ k \in Readers(kind) /\ selected'[k] = selected[k]
          /\ met[k] \subseteq met'[k]
      BY <1>1, <1>2, <2>4 DEF Readers
    <3>2. Explained(kind, t, i, k)
      BY <2>1, <3>1 DEF RepeatsExplained
    <3>3. QED
      BY <2>1, <2>2, <3>1, <3>2 DEF Explained
  <2>5. QED
    BY <2>3, <2>4
<1>12. QED
  BY <1>7, <1>8, <1>9, <1>10, <1>11

\* The COMMIT of a job adds it to the batches of its kind: whoever holds a
\* row that it commits is open with it, or explained already.
LEMMA CommitIInv ==
    ASSUME IInv, TypeOK', NEW j \in Jobs, Commit(j)
    PROVE  /\ IInv'
           /\ \A t \in Txns : status[t] = "SETTLED" /\ status'[t] = "CLEARED" =>
                  TakenTogether("clearing", t)'
<1> USE DEF IInv
<1>1. /\ pc[j] = "selected" /\ pc' = [pc EXCEPT ![j] = "committed"]
      /\ UNCHANGED <<request, selected, answer, met>>
      /\ \A t \in Txns : status'[t] = IF t \in selected[j] THEN To(j) ELSE status[t]
  BY DEF Commit
<1>2. pc'[j] = "committed" /\ \A i \in Jobs \ {j} : pc'[i] = pc[i]
  BY <1>1 DEF TypeOK
<1>3. PICK own \in Kinds : request[j].kind = own
  BY DEF TypeOK, Request, Kinds
<1>4. \A kind \in Kinds :
          /\ Committed(kind)' = Committed(kind) \cup (IF kind = own THEN {j} ELSE {})
          /\ Readers(kind)' = Readers(kind)
  BY <1>1, <1>2, <1>3 DEF Committed, Readers
<1>5. j \in Open /\ j \in Readers(own) /\ Open' = Open \ {j} /\ selected[j] \subseteq Txns
  BY <1>1, <1>2, <1>3 DEF Open, Readers, TypeOK
<1>6. \A kind \in Kinds, t \in Txns :
          /\ Taken(kind, t)' <=> \/ Taken(kind, t)
                                 \/ kind = own /\ t \in selected[j]
          /\ TakenTogether(kind, t) => TakenTogether(kind, t)'
  BY <1>1, <1>4 DEF Taken, TakenTogether
<1>7. ASSUME NEW t \in selected[j], own = "clearing", Taken("clearing", t)
      PROVE  TakenTogether("clearing", t)'
  <2>1. PICK i \in Committed("clearing") : t \in selected[i]
    BY <1>7 DEF Taken
  <2>2. i # j
    BY <1>1 DEF Committed
  <2>3. Explained("clearing", t, i, j)
    BY <1>5, <1>7, <2>1, <2>2 DEF RepeatsExplained, Kinds
  <2>4. j \in met[i]
    BY <2>3 DEF Explained
  <2>5. i \in Committed("clearing")' /\ j \in Committed("clearing")'
    BY <1>4, <1>7, <2>1 DEF Kinds
  <2>6. QED
    BY <1>1, <1>7, <2>1, <2>2, <2>4, <2>5 DEF TakenTogether
<1>8. OpenMet' /\ IdleReadNothing'
  BY <1>1, <1>2, <1>5 DEF OpenMet, IdleReadNothing
<1>9. OpenReads'
  <2>1. To(j) \in {"CLEARED", "SETTLED"}
    BY DEF To
  <2>2. QED
    BY <1>1, <1>5, <2>1 DEF OpenReads, TypeOK, Open
<1>10. RepeatsExplained'
  <2> SUFFICES ASSUME NEW kind \in Kinds, NEW t \in Txns,
                      NEW i \in Committed(kind)', NEW k \in Readers(kind)',
                      i # k, t \in selected'[i] \cap selected'[k]
               PROVE  Explained(kind, t, i, k)'
    BY DEF RepeatsExplained
  <2>1. k \in Readers(kind) /\ t \in selected[i] \cap selected[k]
    BY <1>1, <1>4
  <2>2. CASE i \in Committed(kind)
    <3>1. Explained(kind, t, i, k)
      BY <2>1, <2>2 DEF RepeatsExplained
    <3>2. QED
      BY <1>1, <1>6, <3>1 DEF Explained, Kinds
  <2>3. CASE i = j /\ kind = own
    <3>1. CASE k \in Open
      <4>1. k \in met[j] /\ j \in met[k]
        BY <1>5, <2>3, <3>1 DEF OpenMet
      <4>2. QED
        BY <1>1, <2>3, <4>1 DEF Explained
    <3>2. CASE k \notin Open
      <4>1. k \in Committed(kind)
        BY <2>1, <3>2 DEF Readers, Committed, Open, TypeOK
      <4>2. Explained(kind, t, k, j)
        BY <1>5, <2>1, <2>3, <4>1 DEF RepeatsExplained
      <4>3. QED
        BY <1>1, <1>6, <2>3, <4>2 DEF Explained, Kinds
    <3>3. QED
      BY <3>1, <3>2
  <2>4. QED
    BY <1>4, <2>2, <2>3
<1>11. RowsOfBatches'
  <2> SUFFICES ASSUME NEW t \in Txns PROVE RowOfBatches(t)'
    BY DEF RowsOfBatches
  <2>1. RowOfBatches(t)
    BY DEF RowsOfBatches
  <2>2. CASE t \notin selected[j]
    BY <1>1, <1>6, <2>1, <2>2 DEF RowOfBatches, Kinds
  <2>3. CASE t \in selected[j] /\ own = "clearing"
    <3>1. status'[t] = "CLEARED"
      BY <1>1, <1>3, <2>3 DEF To
    <3>2. Taken("settlement", t) => TakenTogether("clearing", t)'
      BY <1>6, <1>7, <2>1, <2>3 DEF RowOfBatches, Kinds
    <3>3. QED
      BY <1>6, <2>3, <3>1, <3>2 DEF RowOfBatches, Kinds
  <2>4. CASE t \in selected[j] /\ own = "settlement"
    <3>1. status'[t] = "SETTLED"
      BY <1>1, <1>3, <2>4 DEF To
    <3>2. Taken("clearing", t)
      BY <1>3, <1>5, <2>1, <2>4 DEF RowOfBatches, OpenReads
    <3>3. QED
      BY <1>6, <2>4, <3>1, <3>2 DEF RowOfBatches, Kinds
  <2>5. QED
    BY <2>2, <2>3, <2>4 DEF Kinds
<1>12. ASSUME NEW t \in Txns, status[t] = "SETTLED", status'[t] = "CLEARED"
       PROVE  TakenTogether("clearing", t)'
  <2>1. t \in selected[j] /\ own = "clearing"
    BY <1>1, <1>3, <1>12 DEF To, Kinds
  <2>2. Taken("clearing", t)
    BY <1>12 DEF RowsOfBatches, RowOfBatches
  <2>3. QED
    BY <1>7, <2>1, <2>2
<1>13. QED
  BY <1>8, <1>9, <1>10, <1>11, <1>12

\* The other steps of a job, and the stop of the process, commit nothing.
LEMMA QuietIInv ==
    ASSUME IInv, TypeOK', NEW S \in SUBSET Jobs,
           UNCHANGED <<status, request, met>>,
           \A i \in Jobs \ S : pc'[i] = pc[i] /\ selected'[i] = selected[i],
           \A i \in S : /\ pc'[i] = "done"
                        /\ \/ pc[i] = "committed" /\ selected'[i] = selected[i]
                           \/ pc[i] \in {"idle", "selected"} /\ selected'[i] = {}
    PROVE  IInv'
<1> USE DEF IInv
<1>1. \A kind \in Kinds :
          /\ \A i \in Committed(kind) : /\ i \in Committed(kind)'
                                        /\ selected'[i] = selected[i]
          /\ \A i \in Committed(kind)' : i \in Committed(kind) \/ selected'[i] = {}
  BY DEF Committed
<1>2. Quiet
  BY <1>1 DEF Quiet
<1>3. RowsOfBatches'
  BY <1>2, QuietRows
<1>4. \A kind \in Kinds : \A i \in Readers(kind)' :
          \/ /\ i \in Readers(kind) /\ selected'[i] = selected[i]
             /\ met[i] \subseteq met'[i]
          \/ selected'[i] = {}
  BY DEF Readers
<1>5. RepeatsExplained'
  BY <1>2, <1>4, QuietRepeats
<1>6. OpenMet' /\ OpenReads' /\ IdleReadNothing'
  BY DEF OpenMet, OpenReads, IdleReadNothing, Open
<1>7. QED
  BY <1>3, <1>5, <1>6

\* Every step keeps the invariant, for any number of jobs at a time.
LEMMA NextIInv ==
    ASSUME IInv, TypeOK', [Next]_vars
    PROVE  IInv'
<1>1. ASSUME NEW t \in Txns, Authorize(t) PROVE IInv'
  <2>1. /\ UNCHANGED <<request, pc, selected, answer, met>> /\ status[t] = "none"
        /\ status'[t] = "AUTHORIZED" /\ \A u \in Txns \ {t} : status'[u] = status[u]
    BY <1>1 DEF Authorize, IInv, TypeOK
  <2>2. OpenMet' /\ IdleReadNothing'
    BY <2>1 DEF IInv, OpenMet, IdleReadNothing, Open
  <2>3. OpenReads'
    BY <2>1 DEF IInv, OpenReads, Open, TypeOK
  <2>4. \A kind \in Kinds, u \in Txns :
            /\ Taken(kind, u)' <=> Taken(kind, u)
            /\ TakenTogether(kind, u)' <=> TakenTogether(kind, u)
    BY <2>1 DEF Taken, TakenTogether, Committed
  <2>5. RepeatsExplained'
    BY <2>1 DEF IInv, RepeatsExplained, Explained, Readers, Committed, TakenTogether
  <2>6. RowsOfBatches'
    BY <2>1, <2>4 DEF IInv, RowsOfBatches, RowOfBatches, Kinds
  <2>7. QED
    BY <2>2, <2>3, <2>5, <2>6 DEF IInv
<1>2. ASSUME NEW j \in Jobs, Refuse(j) PROVE IInv'
  <2>1. /\ pc[j] = "idle" /\ pc'[j] = "done" /\ selected'[j] = {}
        /\ UNCHANGED <<status, request, met>>
        /\ \A i \in Jobs \ {j} : pc'[i] = pc[i] /\ selected'[i] = selected[i]
    BY <1>2 DEF Refuse, IInv, TypeOK, IdleReadNothing
  <2>2. {j} \in SUBSET Jobs
    OBVIOUS
  <2>3. QED
    BY <2>1, <2>2, QuietIInv
<1>3. ASSUME NEW j \in Jobs, Select(j) PROVE IInv'
  BY <1>3, SelectIInv
<1>4. ASSUME NEW j \in Jobs, Commit(j) PROVE IInv'
  BY <1>4, CommitIInv
<1>5. ASSUME NEW j \in Jobs, Answer(j) PROVE IInv'
  <2>1. /\ pc[j] = "committed" /\ pc'[j] = "done" /\ selected'[j] = selected[j]
        /\ UNCHANGED <<status, request, met>>
        /\ \A i \in Jobs \ {j} : pc'[i] = pc[i] /\ selected'[i] = selected[i]
    BY <1>5 DEF Answer, IInv, TypeOK
  <2>2. {j} \in SUBSET Jobs
    OBVIOUS
  <2>3. QED
    BY <2>1, <2>2, QuietIInv
<1>6. ASSUME Restart PROVE IInv'
  <2>1. /\ UNCHANGED <<status, request, met>>
        /\ \A i \in Jobs \ Running : pc'[i] = pc[i] /\ selected'[i] = selected[i]
        /\ \A i \in Running :
              /\ pc'[i] = "done"
              /\ \/ pc[i] = "committed" /\ selected'[i] = selected[i]
                 \/ pc[i] \in {"idle", "selected"} /\ selected'[i] = {}
    BY <1>6 DEF Restart, Running, Open
  <2>2. Running \in SUBSET Jobs
    BY DEF Running
  <2>3. QED
    BY <2>1, <2>2, QuietIInv
<1>7. ASSUME Finished \/ UNCHANGED vars PROVE IInv'
  <2>1. /\ UNCHANGED <<status, request, met>>
        /\ \A i \in Jobs \ {} : pc'[i] = pc[i] /\ selected'[i] = selected[i]
    BY <1>7 DEF Finished, vars
  <2>2. {} \in SUBSET Jobs
    OBVIOUS
  <2>3. QED
    BY <2>1, <2>2, QuietIInv
<1>8. QED
  BY <1>1, <1>2, <1>3, <1>4, <1>5, <1>6, <1>7 DEF Next

\* Open jobs have met, and what was taken twice is explained, always.
THEOREM InductiveInvariant == Spec => []IInv
<1>1. Init => IInv
  <2> SUFFICES ASSUME Init PROVE IInv
    OBVIOUS
  <2>1. TypeOK
    BY DEF Init, TypeOK, Statuses
  <2>2. \A j \in Jobs : pc[j] = "idle" /\ selected[j] = {}
    BY DEF Init
  <2>3. \A t \in Txns : status[t] = "none"
    BY DEF Init
  <2>4. \A kind : Committed(kind) = {} /\ Open = {}
    BY <2>2 DEF Committed, Open
  <2>5. OpenMet /\ IdleReadNothing /\ OpenReads /\ RepeatsExplained
    BY <2>2, <2>4 DEF OpenMet, IdleReadNothing, OpenReads, RepeatsExplained
  <2>6. RowsOfBatches
    BY <2>3, <2>4 DEF RowsOfBatches, RowOfBatches, Taken
  <2>7. QED
    BY <2>1, <2>5, <2>6 DEF IInv
<1>2. IInv /\ TypeOK' /\ [Next]_vars => IInv'
  BY NextIInv
<1>3. QED
  BY <1>1, <1>2, TypeCorrect, PTL DEF Spec
------------------------------------------------------------------------------
(* What the jobs guarantee *)

\* However many jobs run at a time, a transaction that two reports count was
\* taken by jobs that ran together.
THEOREM CountsExplained == Spec => []CountedOnceUnlessTogether
<1>1. IInv => CountedOnceUnlessTogether
  <2> SUFFICES ASSUME IInv, NEW t \in Txns, NEW kind \in Kinds,
                      NEW i \in Committed(kind), NEW j \in Committed(kind),
                      i # j, t \in selected[i] \cap selected[j]
               PROVE  \/ j \in met[i]
                      \/ kind = "settlement" /\ TakenTogether("clearing", t)
    BY DEF CountedOnceUnlessTogether, Kinds
  <2>1. j \in Readers(kind)
    BY DEF Committed, Readers
  <2>2. Explained(kind, t, i, j)
    BY <2>1 DEF IInv, RepeatsExplained
  <2>3. QED
    BY <2>2 DEF Explained
<1>2. QED
  BY <1>1, InductiveInvariant, PTL

\* However many jobs run at a time, no transaction skips a status, and only
\* the later of two clearings that ran together takes one back.
THEOREM FallsExplained == Spec => StatusAdvancesUnlessTogether
<1>1. IInv /\ TypeOK' /\ [Next]_vars =>
          [\A t \in Txns :
              \/ Rank[status'[t]] - Rank[status[t]] \in {0, 1}
              \/ /\ status[t] = "SETTLED" /\ status'[t] = "CLEARED"
                 /\ TakenTogether("clearing", t)']_vars
  <2> SUFFICES ASSUME IInv, TypeOK', [Next]_vars, NEW t \in Txns
               PROVE  \/ Rank[status'[t]] - Rank[status[t]] \in {0, 1}
                      \/ /\ status[t] = "SETTLED" /\ status'[t] = "CLEARED"
                         /\ TakenTogether("clearing", t)'
    OBVIOUS
  <2>1. \A s \in Statuses : Rank[s] - Rank[s] = 0
    BY DEF Rank, Statuses
  <2>2. CASE status'[t] = status[t]
    BY <2>1, <2>2 DEF IInv, TypeOK
  <2>3. ASSUME NEW u \in Txns, Authorize(u), status'[t] # status[t]
        PROVE  status[t] = "none" /\ status'[t] = "AUTHORIZED"
    BY <2>3 DEF Authorize, IInv, TypeOK
  <2>4. ASSUME NEW j \in Jobs, Commit(j), status'[t] # status[t]
        PROVE  \/ status[t] = "AUTHORIZED" /\ status'[t] = "CLEARED"
               \/ status[t] = "CLEARED" /\ status'[t] = "SETTLED"
               \/ status[t] = "SETTLED" /\ status'[t] = "CLEARED"
    <3>1. j \in Open /\ t \in selected[j] /\ status'[t] = To(j)
      BY <2>4 DEF Commit, Open
    <3>2. request[j].kind \in {"clearing", "settlement"} /\ status[t] \in Statuses
      BY DEF IInv, TypeOK, Request
    <3>3. CASE request[j].kind = "clearing"
      BY <2>4, <3>1, <3>2, <3>3 DEF IInv, OpenReads, To, Statuses
    <3>4. CASE request[j].kind = "settlement"
      BY <2>4, <3>1, <3>4 DEF IInv, OpenReads, To
    <3>5. QED
      BY <3>2, <3>3, <3>4
  <2>5. ASSUME NEW j \in Jobs, Commit(j), status[t] = "SETTLED", status'[t] = "CLEARED"
        PROVE  TakenTogether("clearing", t)'
    BY <2>5, CommitIInv
  <2>6. Rank["AUTHORIZED"] - Rank["none"] = 1 /\ Rank["CLEARED"] - Rank["AUTHORIZED"] = 1
        /\ Rank["SETTLED"] - Rank["CLEARED"] = 1
    BY DEF Rank
  <2>7. ASSUME status'[t] # status[t]
        PROVE  (\E u \in Txns : Authorize(u)) \/ (\E j \in Jobs : Commit(j))
    BY <2>7 DEF Next, Refuse, Select, Answer, Restart, Finished, vars
  <2>8. QED
    BY <2>2, <2>3, <2>4, <2>5, <2>6, <2>7
<1>2. QED
  BY <1>1, InductiveInvariant, TypeCorrect, PTL DEF Spec, StatusAdvancesUnlessTogether

\* A job is answered at its end, with 500 only for what it is due to.
AnswersDue ==
    \A j \in Jobs :
        /\ answer[j] # "none" => pc[j] = "done"
        /\ answer[j] = "INTERNAL_ERROR" =>
              /\ request[j].kind = "clearing" => selected[j] = {}
              /\ request[j].kind = "settlement" =>
                     Malformed(j) \/ ~WholePaise(98 * Total(selected[j]))

\* Whatever fails, stops or overlaps, every row that moved is in a committed
\* batch and stays where it put it unless two clearings ran together, and an
\* answer 500 says whether rows moved.
THEOREM RowsExplained == Spec => []RowsAccountedFor
<1>1. Init => AnswersDue
  BY DEF Init, AnswersDue
<1>2. IInv /\ AnswersDue /\ [Next]_vars => AnswersDue'
  <2> SUFFICES ASSUME IInv, AnswersDue, [Next]_vars, NEW k \in Jobs
               PROVE  /\ answer'[k] # "none" => pc'[k] = "done"
                      /\ answer'[k] = "INTERNAL_ERROR" =>
                            /\ request'[k].kind = "clearing" => selected'[k] = {}
                            /\ request'[k].kind = "settlement" =>
                                  Malformed(k)' \/ ~WholePaise(98 * Total(selected'[k]))
    BY DEF AnswersDue
  <2>1. UNCHANGED request
    BY DEF Next, Authorize, Refuse, Select, Commit, Answer, Restart, Finished, vars
  <2>2. Malformed(k)' <=> Malformed(k)
    BY <2>1 DEF Malformed
  <2>3. CASE answer'[k] = answer[k] /\ pc'[k] = pc[k] /\ selected'[k] = selected[k]
    BY <2>1, <2>2, <2>3 DEF AnswersDue
  <2>4. CASE answer'[k] = answer[k] /\ pc[k] # "done"
    BY <2>4 DEF AnswersDue
  <2>5. CASE Refuse(k)
    BY <2>1, <2>5 DEF Refuse, IInv, TypeOK, IdleReadNothing
  <2>6. CASE Answer(k)
    <3>1. /\ pc'[k] = "done" /\ selected' = selected /\ request[k].kind \in Kinds
          /\ answer'[k] = "INTERNAL_ERROR" => ~Reportable(k)
      BY <2>6 DEF Answer, IInv, TypeOK, Request, Kinds
    <3>2. QED
      BY <2>1, <2>2, <3>1 DEF Reportable, Kinds
  <2>7. CASE Restart /\ k \in Running
    BY <2>7 DEF Restart, IInv, TypeOK
  <2>8. \/ answer'[k] = answer[k] /\ pc'[k] = pc[k] /\ selected'[k] = selected[k]
        \/ answer'[k] = answer[k] /\ pc[k] # "done"
        \/ Refuse(k)
        \/ Answer(k)
        \/ Restart /\ k \in Running
    <3>1. ASSUME NEW j \in Jobs, Refuse(j) \/ Select(j) \/ Commit(j) \/ Answer(j), j # k
          PROVE  answer'[k] = answer[k] /\ pc'[k] = pc[k] /\ selected'[k] = selected[k]
      BY <3>1 DEF Refuse, Select, Commit, Answer, IInv, TypeOK
    <3>2. ASSUME Select(k) \/ Commit(k) PROVE answer'[k] = answer[k] /\ pc[k] # "done"
      BY <3>2 DEF Select, Commit
    <3>3. ASSUME Restart, k \notin Running
          PROVE  answer'[k] = answer[k] /\ pc'[k] = pc[k] /\ selected'[k] = selected[k]
      BY <3>3 DEF Restart, Open, Running
    <3>4. ASSUME (\E t \in Txns : Authorize(t)) \/ Finished \/ UNCHANGED vars
          PROVE  answer'[k] = answer[k] /\ pc'[k] = pc[k] /\ selected'[k] = selected[k]
      BY <3>4 DEF Authorize, Finished, vars
    <3>5. QED
      BY <3>1, <3>2, <3>3, <3>4 DEF Next
  <2>9. QED
    BY <2>3, <2>4, <2>5, <2>6, <2>7, <2>8
<1>3. IInv /\ AnswersDue => RowsAccountedFor
  BY DEF IInv, RowsOfBatches, RowOfBatches, AnswersDue, RowsAccountedFor
<1>4. QED
  BY <1>1, <1>2, <1>3, InductiveInvariant, PTL DEF Spec
==============================================================================
