-------------------------- MODULE AuthorizationProofs --------------------------
(***************************************************************************)
(* Theorems about Authorization for any number of requests, cards,         *)
(* accounts and keys, proved with TLAPS.                                   *)
(***************************************************************************)
EXTENDS Authorization, TLAPS, FiniteSetTheorems

------------------------------------------------------------------------------
(* The arithmetic of holds and stored amounts *)

\* A hold is a positive number of hundredths of a paisa, and a whole number
\* of paise unless it carries the foreign fee.
LEMMA HoldAmountFacts ==
    ASSUME NEW amount \in Nat \ {0}, NEW foreign \in BOOLEAN
    PROVE  /\ HoldAmount(amount, foreign) \in Nat \ {0}
           /\ ~foreign => HoldAmount(amount, foreign) = 100 * amount
BY DEF HoldAmount, Exact, ForeignFee

\* Storing available - hold keeps a covered balance non-negative.
LEMMA StoredNonNegative ==
    ASSUME NEW paise \in Int, NEW hold \in Nat, hold <= Exact(paise)
    PROVE  Stored(Exact(paise) - hold) \in Nat
BY DEF Stored, Exact

\* Storing both balances adds at most one paisa to their sum.
LEMMA StoredDrift ==
    ASSUME NEW a \in Int, NEW o \in Int, NEW hold \in Nat
    PROVE  /\ Stored(Exact(a) - hold) \in Int
           /\ Stored(Exact(o) + hold) \in Int
           /\ Stored(Exact(a) - hold) + Stored(Exact(o) + hold)
                  \in (a + o) .. (a + o + 1)
           /\ \A n \in Nat : hold = 100 * n =>
                  Stored(Exact(a) - hold) + Stored(Exact(o) + hold) = a + o
BY DEF Stored, Exact

\* A whole number of paise leaves their sum as it was.
LEMMA StoredWhole ==
    ASSUME NEW a \in Int, NEW o \in Int, NEW hold \in Nat,
           NEW paise \in Nat, hold = 100 * paise
    PROVE  Stored(Exact(a) - hold) + Stored(Exact(o) + hold) = a + o
BY DEF Stored, Exact

------------------------------------------------------------------------------
(* Type correctness *)

\* The hold of a request is a positive number, whole for a domestic one.
LEMMA HoldFacts ==
    ASSUME TypeOK, NEW r \in Requests
    PROVE  /\ Hold(r) \in Nat \ {0}
           /\ ~Foreign(r) => Hold(r) = 100 * input[r].amount
           /\ input[r].amount \in Nat \ {0}
           /\ input[r].key \in Keys
           /\ input[r].card \in Cards => Account(r) \in Accounts
<1>1. input[r] \in Payload
  BY AuthorizationAssumption DEF TypeOK
<1>2. input[r].amount \in Nat \ {0} /\ input[r].key \in Keys
  BY <1>1 DEF Payload
<1>3. input[r].card \in Cards => Account(r) \in Accounts
  BY AuthorizationAssumption DEF Account
<1>4. QED
  BY <1>2, <1>3, HoldAmountFacts DEF Hold, Foreign

\* The process starts with every variable in its type.
LEMMA InitTypeOK == Init => TypeOK
<1> SUFFICES ASSUME Init PROVE TypeOK
  OBVIOUS
<1>1. CreditLimit \in [Accounts -> Nat] /\ MaxRestarts \in Nat
  BY AuthorizationAssumption
<1>2. available \in [Accounts -> Int]
  <2>1. \A a \in Accounts : CreditLimit[a] \in Int
    BY <1>1
  <2>2. QED
    BY <1>1, <2>1 DEF Init
<1>3. outstanding \in [Accounts -> Int]
  BY DEF Init
<1>4. pc \in [Requests -> PCs] /\ outcome \in [Requests -> Outcomes]
  BY DEF Init, PCs, Outcomes
<1>5. cardStatus \in [Cards -> CardStatuses]
  BY DEF Init, CardStatuses
<1>6. restarts \in 0 .. MaxRestarts
  BY <1>1 DEF Init
<1>7. QED
  BY <1>2, <1>3, <1>4, <1>5, <1>6 DEF Init, TypeOK

\* No step of a coroutine, a lifecycle handler or the clock leaves the types.
LEMMA NextTypeOK == TypeOK /\ [Next]_vars => TypeOK'
<1> SUFFICES ASSUME TypeOK, [Next]_vars PROVE TypeOK'
  OBVIOUS
<1> USE DEF TypeOK, cards, ledger, window, process
<1>1. ASSUME NEW r \in Requests, CheckIdempotency(r) PROVE TypeOK'
  BY <1>1 DEF CheckIdempotency, Goto, Finish, PCs, Outcomes, Conflicts
<1>2. ASSUME NEW r \in Requests, LockCard(r) PROVE TypeOK'
  BY <1>2 DEF LockCard, Goto, Finish, PCs, Outcomes, Declined
<1>3. ASSUME NEW r \in Requests, LockAccount(r) PROVE TypeOK'
  BY <1>3 DEF LockAccount, Goto, Finish, PCs, Outcomes, Declined
<1>4. ASSUME NEW r \in Requests, Insert(r) PROVE TypeOK'
  BY <1>4 DEF Insert, Goto, Finish, PCs, Outcomes, Conflicts
<1>5. ASSUME NEW r \in Requests, Commit(r) PROVE TypeOK'
  <2>1. Hold(r) \in Nat /\ input[r].key \in Keys
    BY HoldFacts
  <2>2. available' \in [Accounts -> Int] /\ outstanding' \in [Accounts -> Int]
    <3>1. \A a \in Accounts :
              /\ Stored(Exact(available[a]) - Hold(r)) \in Int
              /\ Stored(Exact(outstanding[a]) + Hold(r)) \in Int
      BY <2>1, StoredDrift
    <3>2. QED
      BY <1>5, <3>1 DEF Commit
  <2>3. QED
    BY <1>5, <2>1, <2>2 DEF Commit, Goto, PCs
<1>6. ASSUME NEW r \in Requests, Record(r) PROVE TypeOK'
  BY <1>6 DEF Record, Finish, PCs, Outcomes
<1>7. ASSUME NEW r \in Requests, LeaveWindow(r) PROVE TypeOK'
  BY <1>7 DEF LeaveWindow
<1>8. ASSUME NEW c \in ExpiringCards, CardExpires(c) PROVE TypeOK'
  BY <1>8, AuthorizationAssumption DEF CardExpires
<1>9. ASSUME NEW c \in Cards, NEW s \in LifecycleStatuses, LifecycleWrite(c, s)
      PROVE TypeOK'
  BY <1>9, AuthorizationAssumption DEF LifecycleWrite
<1>10. ASSUME NEW k \in Keys, ForgetKey(k) PROVE TypeOK'
  BY <1>10 DEF ForgetKey
<1>11. ASSUME Restart PROVE TypeOK'
  <2>1. restarts' \in 0 .. MaxRestarts
    <3>1. MaxRestarts \in Nat
      BY AuthorizationAssumption
    <3>2. QED
      BY <1>11, <3>1 DEF Restart
  <2>2. pc' \in [Requests -> PCs] /\ outcome' \in [Requests -> Outcomes]
    BY <1>11 DEF Restart, PCs, Outcomes
  <2>3. QED
    BY <1>11, <2>1, <2>2 DEF Restart
<1>12. ASSUME Quiescent \/ UNCHANGED vars PROVE TypeOK'
  BY <1>12 DEF Quiescent, vars
<1>13. QED
  BY <1>1, <1>2, <1>3, <1>4, <1>5, <1>6, <1>7, <1>8, <1>9, <1>10, <1>11,
     <1>12 DEF Next, Serve

\* Every reachable state assigns every variable a value of its type.
THEOREM TypeCorrect == Spec => []TypeOK
BY InitTypeOK, NextTypeOK, PTL DEF Spec

------------------------------------------------------------------------------
(* The lock discipline, and what it protects *)

\* The inductive invariant.  OneTransactionPerKey and NoOverdraft alone are
\* not inductive: that the next COMMIT keeps them follows from what its
\* coroutine established under locks in earlier steps.
IInv == TypeOK /\ LockDiscipline /\ OneTransactionPerKey /\ NoOverdraft

\* Before any request nothing is locked, posted or reserved.
LEMMA InitIInv == Init => IInv
<1> SUFFICES ASSUME Init PROVE IInv
  OBVIOUS
<1>1. TypeOK
  BY InitTypeOK
<1>2. CreditLimit \in [Accounts -> Nat]
  BY AuthorizationAssumption
<1>3. NoOverdraft
  BY <1>2 DEF Init, NoOverdraft
<1>4. \A r \in Requests : pc[r] = "idle"
  BY DEF Init
<1>5. LockDiscipline
  BY <1>4 DEF Init, LockDiscipline, CardLockExclusive, AccountLockExclusive,
     LockedCardActive, HoldCovered, KeyReserved, PostedOver, HoldsCardLock,
     HoldsAccountLock
<1>6. QED
  BY <1>1, <1>3, <1>5 DEF Init, IInv, OneTransactionPerKey

\* A step that gives no coroutine a lock or a reservation, and writes
\* neither the ledger nor a card, keeps what the others rely on.
LEMMA Releases ==
    ASSUME IInv, TypeOK',
           UNCHANGED <<input, cardStatus, available, posted>>,
           \A r \in Requests : \/ pc'[r] = pc[r]
                               \/ pc'[r] = "done"
                               \/ pc[r] = "idle" /\ pc'[r] = "card"
    PROVE  IInv'
<1> USE DEF IInv, LockDiscipline
<1>1. \A r \in Requests : /\ HoldsCardLock(r)' => HoldsCardLock(r)
                          /\ HoldsAccountLock(r)' => HoldsAccountLock(r)
                          /\ pc'[r] = "commit" => pc[r] = "commit"
  BY DEF HoldsCardLock, HoldsAccountLock
<1>2. CardLockExclusive' /\ AccountLockExclusive'
  BY <1>1 DEF CardLockExclusive, AccountLockExclusive, Account
<1>3. LockedCardActive' /\ HoldCovered'
  BY <1>1 DEF LockedCardActive, HoldCovered, Account, Hold
<1>4. KeyReserved'
  BY <1>1 DEF KeyReserved, SameKey
<1>5. PostedOver'
  BY DEF PostedOver, TypeOK
<1>6. OneTransactionPerKey' /\ NoOverdraft'
  BY DEF OneTransactionPerKey, SameKey, NoOverdraft
<1>7. QED
  BY <1>2, <1>3, <1>4, <1>5, <1>6

\* The same for a coroutine that takes the card row or the account row or
\* reserves its key: what the step adds is what its guard has checked.
LEMMA Takes ==
    ASSUME IInv, TypeOK', NEW r \in Requests,
           UNCHANGED <<input, cardStatus, available, posted>>,
           \/ /\ pc[r] = "card" /\ pc' = [pc EXCEPT ![r] = "account"]
              /\ ~CardLocked(input[r].card)
              /\ input[r].card \in Cards /\ cardStatus[input[r].card] = "ACTIVE"
           \/ /\ pc[r] = "account" /\ pc' = [pc EXCEPT ![r] = "insert"]
              /\ ~AccountLocked(Account(r)) /\ ~ShortOfCredit(r)
           \/ /\ pc[r] = "insert" /\ pc' = [pc EXCEPT ![r] = "commit"]
              /\ ~ \E s \in Requests : pc[s] = "commit" /\ SameKey(r, s)
              /\ ~ \E s \in posted : SameKey(r, s)
    PROVE  IInv'
<1> USE DEF IInv, LockDiscipline
<1>1. /\ pc \in [Requests -> PCs] /\ pc'[r] # pc[r]
      /\ \A s \in Requests \ {r} : pc'[s] = pc[s]
  BY DEF TypeOK
<1>2. \A s \in Requests \ {r} : /\ HoldsCardLock(s)' = HoldsCardLock(s)
                                /\ HoldsAccountLock(s)' = HoldsAccountLock(s)
  BY <1>1 DEF HoldsCardLock, HoldsAccountLock
<1>3. \/ HoldsCardLock(r)
      \/ /\ ~CardLocked(input[r].card) /\ input[r].card \in Cards
         /\ cardStatus[input[r].card] = "ACTIVE"
  BY DEF HoldsCardLock
<1>4. CardLockExclusive'
  BY <1>2, <1>3 DEF CardLockExclusive, CardLocked
<1>5. LockedCardActive'
  BY <1>2, <1>3 DEF LockedCardActive
<1>6. HoldsAccountLock(r)' =>
          HoldsAccountLock(r) \/ (~AccountLocked(Account(r)) /\ ~ShortOfCredit(r))
  BY <1>1 DEF HoldsAccountLock
<1>7. AccountLockExclusive'
  BY <1>2, <1>6 DEF AccountLockExclusive, AccountLocked, Account
<1>8. HoldCovered'
  <2>1. HoldsAccountLock(r)' => Hold(r) <= Exact(available[Account(r)])
    <3>1. CASE HoldsAccountLock(r)
      BY <3>1 DEF HoldCovered
    <3>2. CASE HoldsAccountLock(r)' /\ ~HoldsAccountLock(r)
      <4>1. ~ShortOfCredit(r) /\ HoldsCardLock(r)
        BY <1>1, <1>6, <3>2 DEF HoldsAccountLock, HoldsCardLock
      <4>2. Account(r) \in Accounts /\ Hold(r) \in Nat
        BY <4>1, HoldFacts DEF LockedCardActive
      <4>3. available[Account(r)] \in Int
        BY <4>2 DEF TypeOK
      <4>4. QED
        BY <4>1, <4>2, <4>3 DEF ShortOfCredit, Exact
    <3>3. QED
      BY <3>1, <3>2
  <2>2. QED
    BY <1>2, <2>1 DEF HoldCovered, Account, Hold
<1>9. KeyReserved'
  BY <1>1 DEF KeyReserved, SameKey
<1>10. PostedOver'
  BY <1>1 DEF PostedOver, TypeOK
<1>11. OneTransactionPerKey' /\ NoOverdraft'
  BY DEF OneTransactionPerKey, SameKey, NoOverdraft
<1>12. QED
  BY <1>4, <1>5, <1>7, <1>8, <1>9, <1>10, <1>11

\* A COMMIT spends the reservation of its coroutine.
LEMMA CommitIInv ==
    ASSUME IInv, TypeOK', NEW r \in Requests, Commit(r)
    PROVE  IInv'
<1> USE DEF IInv, LockDiscipline
<1>1. /\ pc \in [Requests -> PCs] /\ pc[r] = "commit" /\ pc'[r] = "record"
      /\ \A s \in Requests \ {r} : pc'[s] = pc[s]
      /\ posted' = posted \cup {r} /\ posted \subseteq Requests
      /\ UNCHANGED <<input, cardStatus>>
  BY DEF Commit, Goto, TypeOK, cards
<1>2. \A s \in Requests : /\ HoldsCardLock(s)' => HoldsCardLock(s)
                          /\ HoldsAccountLock(s)' => HoldsAccountLock(s) /\ s # r
                          /\ pc'[s] = "commit" => pc[s] = "commit" /\ s # r
  BY <1>1 DEF HoldsCardLock, HoldsAccountLock
<1>3. HoldsCardLock(r) /\ HoldsAccountLock(r)
  BY <1>1 DEF HoldsCardLock, HoldsAccountLock
<1>4. Account(r) \in Accounts /\ Hold(r) \in Nat
  BY <1>3, HoldFacts DEF LockedCardActive
<1>5. /\ available[Account(r)] \in Int
      /\ available'[Account(r)] = Stored(Exact(available[Account(r)]) - Hold(r))
      /\ \A a \in Accounts \ {Account(r)} : available'[a] = available[a]
  BY <1>4 DEF Commit, TypeOK
<1>6. CardLockExclusive' /\ AccountLockExclusive' /\ LockedCardActive'
  BY <1>1, <1>2 DEF CardLockExclusive, AccountLockExclusive, LockedCardActive, Account
<1>7. HoldCovered'
  <2> SUFFICES ASSUME NEW s \in Requests, HoldsAccountLock(s)'
               PROVE  (Hold(s) <= Exact(available[Account(s)]))'
    BY DEF HoldCovered
  <2>1. Account(s) # Account(r)
    BY <1>2, <1>3 DEF AccountLockExclusive
  <2>2. Account(s) \in Accounts
    BY <1>2, HoldFacts DEF LockedCardActive, HoldsAccountLock, HoldsCardLock
  <2>3. QED
    BY <1>1, <1>2, <1>5, <2>1, <2>2 DEF HoldCovered, Account, Hold, Exact
<1>8. KeyReserved'
  BY <1>1, <1>2 DEF KeyReserved, SameKey
<1>9. PostedOver'
  BY <1>1, <1>3 DEF PostedOver, LockedCardActive
<1>10. OneTransactionPerKey'
  BY <1>1 DEF OneTransactionPerKey, KeyReserved, SameKey
<1>11. NoOverdraft'
  <2>1. Hold(r) <= Exact(available[Account(r)])
    BY <1>3 DEF HoldCovered
  <2>2. available'[Account(r)] >= 0
    BY <1>4, <1>5, <2>1, StoredNonNegative
  <2>3. QED
    BY <1>5, <2>2 DEF NoOverdraft
<1>12. QED
  BY <1>6, <1>7, <1>8, <1>9, <1>10, <1>11

\* Every step keeps what the coroutines in flight rely on.
LEMMA NextIInv == IInv /\ [Next]_vars => IInv'
<1> SUFFICES ASSUME IInv, [Next]_vars PROVE IInv'
  OBVIOUS
<1> USE DEF cards, ledger, window, process
<1>1. TypeOK /\ TypeOK'
  BY NextTypeOK DEF IInv
<1>2. pc \in [Requests -> PCs]
  BY <1>1 DEF TypeOK
<1>3. ASSUME NEW r \in Requests, CheckIdempotency(r) PROVE IInv'
  BY <1>1, <1>2, <1>3, Releases DEF CheckIdempotency, Goto, Finish
<1>4. ASSUME NEW r \in Requests, LockCard(r) PROVE IInv'
  <2>1. UNCHANGED <<input, cardStatus, available, posted>>
    BY <1>4 DEF LockCard
  <2>2. CASE pc' = [pc EXCEPT ![r] = "done"]
    BY <1>1, <1>2, <2>1, <2>2, Releases
  <2>3. CASE pc' # [pc EXCEPT ![r] = "done"]
    BY <1>1, <1>4, <2>1, <2>3, Takes DEF LockCard, Goto, Finish
  <2>4. QED
    BY <2>2, <2>3
<1>5. ASSUME NEW r \in Requests, LockAccount(r) PROVE IInv'
  <2>1. UNCHANGED <<input, cardStatus, available, posted>>
    BY <1>5 DEF LockAccount
  <2>2. CASE pc' = [pc EXCEPT ![r] = "done"]
    BY <1>1, <1>2, <2>1, <2>2, Releases
  <2>3. CASE pc' # [pc EXCEPT ![r] = "done"]
    BY <1>1, <1>5, <2>1, <2>3, Takes DEF LockAccount, Goto, Finish
  <2>4. QED
    BY <2>2, <2>3
<1>6. ASSUME NEW r \in Requests, Insert(r) PROVE IInv'
  <2>1. UNCHANGED <<input, cardStatus, available, posted>>
    BY <1>6 DEF Insert
  <2>2. CASE pc' = [pc EXCEPT ![r] = "done"]
    BY <1>1, <1>2, <2>1, <2>2, Releases
  <2>3. CASE pc' # [pc EXCEPT ![r] = "done"]
    BY <1>1, <1>6, <2>1, <2>3, Takes DEF Insert, Goto, Finish
  <2>4. QED
    BY <2>2, <2>3
<1>7. ASSUME NEW r \in Requests, Commit(r) PROVE IInv'
  BY <1>1, <1>7, CommitIInv
<1>8. ASSUME NEW r \in Requests, Record(r) PROVE IInv'
  BY <1>1, <1>2, <1>8, Releases DEF Record, Finish
<1>9. ASSUME NEW c \in Cards, NEW s \in LifecycleStatuses, LifecycleWrite(c, s)
      PROVE IInv'
  <2>1. UNCHANGED <<input, pc, available, posted>>
    BY <1>9 DEF LifecycleWrite
  <2>2. LockedCardActive'
    BY <1>1, <1>9 DEF LifecycleWrite, IInv, LockDiscipline, LockedCardActive,
       CardLocked, HoldsCardLock, TypeOK
  <2>3. QED
    BY <1>1, <2>1, <2>2 DEF IInv, LockDiscipline, CardLockExclusive,
       AccountLockExclusive, HoldCovered, KeyReserved, PostedOver, HoldsCardLock,
       HoldsAccountLock, Account, Hold, SameKey, OneTransactionPerKey, NoOverdraft
<1>10. ASSUME Restart PROVE IInv'
  BY <1>1, <1>2, <1>10, Releases DEF Restart
<1>11. ASSUME UNCHANGED <<input, pc, cardStatus, available, posted>> PROVE IInv'
  BY <1>1, <1>11, Releases
<1>12. ASSUME \/ \E r \in Requests : LeaveWindow(r)
              \/ \E c \in ExpiringCards : CardExpires(c)
              \/ \E k \in Keys : ForgetKey(k)
              \/ Quiescent \/ UNCHANGED vars
       PROVE  IInv'
  BY <1>11, <1>12 DEF LeaveWindow, CardExpires, ForgetKey, Quiescent, vars
<1>13. QED
  BY <1>3, <1>4, <1>5, <1>6, <1>7, <1>8, <1>9, <1>10, <1>12 DEF Next, Serve

\* In every reachable state the locks, the reservations and the ledger agree.
THEOREM InductiveInvariant == Spec => []IInv
BY InitIInv, NextIInv, PTL DEF Spec

\* Row locks exclude other coroutines and lifecycle writes until COMMIT,
\* and what was checked under them still holds at COMMIT.
THEOREM LocksHold == Spec => []LockDiscipline
BY InductiveInvariant, PTL DEF IInv

\* No idempotency key is charged twice.
THEOREM ChargedOncePerKey == Spec => []OneTransactionPerKey
BY InductiveInvariant, PTL DEF IInv

\* No account is overdrawn.
THEOREM NeverOverdrawn == Spec => []NoOverdraft
BY InductiveInvariant, PTL DEF IInv

\* Only the COMMIT of an authorization changes the ledger.
LEMMA LedgerByCommit ==
    ASSUME [Next]_vars
    PROVE  \/ UNCHANGED <<input, available, outstanding, posted>>
           \/ \E r \in Requests : Commit(r)
BY DEF Next, Serve, CheckIdempotency, LockCard, LockAccount, Insert, Record,
   LeaveWindow, CardExpires, LifecycleWrite, ForgetKey, Restart, Quiescent, vars,
   ledger

\* The card status checked when the row was locked is still ACTIVE when the
\* charge is committed.
THEOREM ChargesActive == Spec => ChargesOnlyActiveCards
<1>1. IInv /\ [Next]_vars =>
          [\A r \in posted' \ posted : cardStatus[input[r].card] = "ACTIVE"]_vars
  <2> SUFFICES ASSUME IInv, [Next]_vars, NEW r \in posted' \ posted
               PROVE  cardStatus[input[r].card] = "ACTIVE"
    OBVIOUS
  <2>1. PICK q \in Requests : Commit(q)
    BY LedgerByCommit
  <2>2. r = q /\ HoldsCardLock(q)
    BY <2>1 DEF Commit, HoldsCardLock
  <2>3. QED
    BY <2>1, <2>2 DEF IInv, LockDiscipline, LockedCardActive
<1>2. QED
  BY <1>1, InductiveInvariant, PTL DEF Spec, ChargesOnlyActiveCards

------------------------------------------------------------------------------
(* The drift between the two balances *)

ForeignPosted(a) == {r \in Posted(a) : Foreign(r)}

\* The number of posted requests with a foreign fee is a natural number.
LEMMA CountersTypes ==
    ASSUME TypeOK, NEW a \in Accounts
    PROVE  /\ available[a] \in Int /\ outstanding[a] \in Int
           /\ CreditLimit[a] \in Nat
           /\ IsFiniteSet(ForeignPosted(a))
           /\ Cardinality(ForeignPosted(a)) \in Nat
<1>1. IsFiniteSet(Requests) /\ CreditLimit \in [Accounts -> Nat]
  BY AuthorizationAssumption
<1>2. ForeignPosted(a) \subseteq Requests
  BY DEF ForeignPosted, Posted, TypeOK
<1>3. IsFiniteSet(ForeignPosted(a))
  BY <1>1, <1>2, FS_Subset
<1>4. QED
  BY <1>1, <1>3, FS_CardinalityType DEF TypeOK

\* A COMMIT moves the sum of the balances of its account by at most one
\* paisa, and not at all when the hold is a whole number of paise.
LEMMA CommitDrift ==
    ASSUME IInv, TypeOK', LedgerBounds, NEW q \in Requests, Commit(q)
    PROVE  LedgerBounds'
<1> SUFFICES ASSUME NEW a \in Accounts
             PROVE  available'[a] + outstanding'[a] \in
                        CreditLimit[a] ..
                        CreditLimit[a] + Cardinality(ForeignPosted(a)')
  BY DEF LedgerBounds, ForeignPosted, Posted, Foreign
<1> DEFINE n == Cardinality(ForeignPosted(a))
<1>1. /\ available[a] \in Int /\ outstanding[a] \in Int
      /\ CreditLimit[a] \in Nat /\ IsFiniteSet(ForeignPosted(a)) /\ n \in Nat
  BY CountersTypes DEF IInv
<1>2. available[a] + outstanding[a] \in CreditLimit[a] .. CreditLimit[a] + n
  BY DEF LedgerBounds, ForeignPosted
<1>3. /\ posted' = posted \cup {q} /\ q \notin posted /\ UNCHANGED input
      /\ Hold(q) \in Nat
  BY HoldFacts DEF Commit, IInv, LockDiscipline, PostedOver
<1>4. CASE a # Account(q)
  <2>1. UNCHANGED <<available[a], outstanding[a]>>
    BY <1>4 DEF Commit, IInv, TypeOK
  <2>2. ForeignPosted(a)' = ForeignPosted(a)
    BY <1>3, <1>4 DEF ForeignPosted, Posted, Foreign, Account
  <2>3. QED
    BY <1>2, <2>1, <2>2
<1>5. CASE a = Account(q)
  <2>1. /\ available'[a] = Stored(Exact(available[a]) - Hold(q))
        /\ outstanding'[a] = Stored(Exact(outstanding[a]) + Hold(q))
    BY <1>5 DEF Commit, IInv, TypeOK
  <2>2. CASE Foreign(q)
    <3>1. ForeignPosted(a)' = ForeignPosted(a) \cup {q} /\ q \notin ForeignPosted(a)
      BY <1>3, <1>5, <2>2 DEF ForeignPosted, Posted, Foreign, Account
    <3>2. Cardinality(ForeignPosted(a)') = n + 1
      BY <1>1, <3>1, FS_AddElement
    <3>3. available'[a] + outstanding'[a] \in
              (available[a] + outstanding[a]) .. (available[a] + outstanding[a] + 1)
      BY <1>1, <1>3, <2>1, StoredDrift
    <3>4. QED
      BY <1>1, <1>2, <3>2, <3>3
  <2>3. CASE ~Foreign(q)
    <3>1. ForeignPosted(a)' = ForeignPosted(a)
      BY <1>3, <2>3 DEF ForeignPosted, Posted, Foreign, Account
    <3>2. PICK paise \in Nat : Hold(q) = 100 * paise
      BY <2>3, HoldFacts DEF IInv
    <3>3. available'[a] + outstanding'[a] = available[a] + outstanding[a]
      BY <1>1, <1>3, <2>1, <3>2, StoredWhole
    <3>4. QED
      BY <1>2, <3>1, <3>3
  <2>4. QED
    BY <2>2, <2>3
<1>6. QED
  BY <1>4, <1>5

\* The balances of an account add up to its limit, give or take the rounding
\* of its foreign fees.
THEOREM BalancesAddUp == Spec => []LedgerBounds
<1>1. Init => LedgerBounds
  <2> SUFFICES ASSUME Init, NEW a \in Accounts
               PROVE  available[a] + outstanding[a] \in
                          CreditLimit[a] ..
                          CreditLimit[a] + Cardinality(ForeignPosted(a))
    BY DEF LedgerBounds, ForeignPosted
  <2>1. CreditLimit[a] \in Nat /\ Cardinality(ForeignPosted(a)) \in Nat
    BY InitTypeOK, CountersTypes
  <2>2. available[a] = CreditLimit[a] /\ outstanding[a] = 0
    BY DEF Init
  <2>3. QED
    BY <2>1, <2>2
<1>2. IInv /\ LedgerBounds /\ [Next]_vars => LedgerBounds'
  <2> SUFFICES ASSUME IInv, LedgerBounds, [Next]_vars PROVE LedgerBounds'
    OBVIOUS
  <2>1. CASE \E q \in Requests : Commit(q)
    BY <2>1, CommitDrift, NextTypeOK DEF IInv
  <2>2. CASE UNCHANGED <<input, available, outstanding, posted>>
    BY <2>2 DEF LedgerBounds, Posted, Foreign, Account
  <2>3. QED
    BY <2>1, <2>2, LedgerByCommit
<1>3. QED
  BY <1>1, <1>2, InductiveInvariant, PTL DEF Spec

------------------------------------------------------------------------------
(* Refinement *)

\* Authorization implements the ledger of atomic charges: a COMMIT is a
\* charge and every other step leaves the ledger alone.
THEOREM Implements == Spec => ImplementsLedger
<1>1. Init => Ledger!Init
  BY DEF Init, Ledger!Init, ChargedKeys
<1>2. IInv /\ [Next]_vars =>
          [Ledger!Next]_<<available, outstanding, ChargedKeys>>
  <2> SUFFICES ASSUME IInv, [Next]_vars
               PROVE  \/ Ledger!Next
                      \/ UNCHANGED <<available, outstanding, ChargedKeys>>
    OBVIOUS
  <2>1. CASE UNCHANGED <<input, available, outstanding, posted>>
    BY <2>1 DEF ChargedKeys
  <2>2. CASE \E q \in Requests : Commit(q)
    <3>1. PICK q \in Requests : Commit(q)
      BY <2>2
    <3>2. /\ HoldsCardLock(q) /\ HoldsAccountLock(q) /\ pc[q] = "commit"
          /\ input[q] \in Inputs /\ input[q].key \in Keys
      BY <3>1, HoldFacts DEF Commit, HoldsCardLock, HoldsAccountLock, IInv, TypeOK
    <3>3. Account(q) \in Accounts
      BY <3>2, HoldFacts DEF IInv, LockDiscipline, LockedCardActive
    <3>4. Hold(q) <= Exact(available[Account(q)])
      BY <3>2 DEF IInv, LockDiscipline, HoldCovered
    <3>5. input[q].key \notin ChargedKeys
      BY <3>2 DEF IInv, TypeOK, LockDiscipline, KeyReserved, SameKey, ChargedKeys
    <3>6. ChargedKeys' = ChargedKeys \cup {input[q].key}
      BY <3>1 DEF Commit, ChargedKeys
    <3>7. /\ available' = [available EXCEPT ![Account(q)] = Stored(Exact(@) - Hold(q))]
          /\ outstanding' = [outstanding EXCEPT ![Account(q)] = Stored(Exact(@) + Hold(q))]
      BY <3>1 DEF Commit
    <3>8. Ledger!Charge(input[q].key, Account(q), Hold(q))
      BY <3>4, <3>5, <3>6, <3>7 DEF Ledger!Charge, Ledger!Exact, Ledger!Stored,
         Exact, Stored
    <3>9. Hold(q) \in PossibleHolds
      BY <3>2 DEF Hold, PossibleHolds
    <3>10. QED
      BY <3>2, <3>3, <3>8, <3>9 DEF Ledger!Next
  <2>3. QED
    BY <2>1, <2>2, LedgerByCommit
<1>3. QED
  BY <1>1, <1>2, InductiveInvariant, PTL DEF Spec, ImplementsLedger, Ledger!Spec
------------------------------------------------------------------------------
(* What the client is told *)

\* An answer is the last step of a request, what is recorded is posted, what
\* passed the checks is within the threshold of fraud rule 1, and the log only
\* knows keys that were charged.
AnsweredAtEnd ==
    \A r \in Requests : outcome[r] # "none" => pc[r] = "done"
RecordedPosted ==
    \A r \in Requests : pc[r] = "record" => r \in posted
LoggedCharged ==
    \A k \in loggedKeys : \E s \in posted : input[s].key = k
AmountChecked ==
    \A r \in Requests :
        pc[r] \in {"insert", "commit", "record"} => input[r].amount <= HighAmount
Doubtful(r) ==
    /\ r \in posted <=> input[r].amount <= HighAmount
    /\ r \in posted => Foreign(r) /\ ~WholePaise(Hold(r))
AInv ==
    /\ AnsweredAtEnd /\ RecordedPosted /\ LoggedCharged /\ AmountChecked
    /\ AnswersMatchLedger

\* A request that is answered or moves on without a COMMIT is told what the
\* ledger holds.
LEMMA AnswerAInv ==
    ASSUME IInv, AInv, NEW r \in Requests, NEW l \in PCs, NEW answer \in Outcomes,
           pc[r] # "done",
           pc' = [pc EXCEPT ![r] = l], outcome' = [outcome EXCEPT ![r] = answer],
           UNCHANGED <<input, posted, loggedKeys>>,
           answer # "none" => l = "done", l = "record" => pc[r] = "record",
           answer = "AUTHORIZED" => r \in posted,
           l \in {"insert", "commit", "record"} => input[r].amount <= HighAmount,
           answer \in Declined => r \notin posted,
           answer = "INTERNAL_ERROR" => Doubtful(r),
           answer \in Conflicts => r \notin posted /\ \E s \in posted : SameKey(r, s)
    PROVE  AInv'
<1>1. /\ pc'[r] = l /\ outcome'[r] = answer
      /\ \A s \in Requests \ {r} : pc'[s] = pc[s] /\ outcome'[s] = outcome[s]
  BY DEF IInv, TypeOK
<1>2. AnsweredAtEnd' /\ RecordedPosted'
  BY <1>1 DEF AInv, AnsweredAtEnd, RecordedPosted
<1>3. LoggedCharged'
  BY DEF AInv, LoggedCharged
<1>4. AmountChecked'
  BY <1>1 DEF AInv, AmountChecked
<1>5. AnswersMatchLedger'
  <2>1. \A s \in Requests : Foreign(s)' = Foreign(s) /\ Hold(s)' = Hold(s)
    BY DEF Foreign, Hold
  <2>2. QED
    BY <1>1, <2>1 DEF AInv, AnswersMatchLedger, SameKey, Doubtful
<1>6. QED
  BY <1>2, <1>3, <1>4, <1>5 DEF AInv

\* The steps that answer nobody and leave the ledger's rows alone.
LEMMA SilentAInv ==
    ASSUME AInv, UNCHANGED <<input, pc, outcome, posted>>,
           loggedKeys' \subseteq loggedKeys
    PROVE  AInv'
<1>1. \A s \in Requests : Foreign(s)' = Foreign(s) /\ Hold(s)' = Hold(s)
  BY DEF Foreign, Hold
<1>2. QED
  BY <1>1 DEF AInv, AnsweredAtEnd, RecordedPosted, LoggedCharged, AmountChecked,
     AnswersMatchLedger, SameKey

\* Only the fee of a foreign purchase brings a fraction of a paisa.
LEMMA FractionIsForeign ==
    ASSUME IInv, NEW r \in Requests, ~WholePaise(Hold(r))
    PROVE  Foreign(r)
<1>1. PICK n \in Nat : n = input[r].amount
  BY HoldFacts DEF IInv
<1>2. ASSUME ~Foreign(r) PROVE FALSE
  <2>1. Hold(r) = 100 * n
    BY <1>1, <1>2 DEF Foreign, Hold, HoldAmount, Exact, ForeignFee
  <2>2. (100 * n) % 100 = 0
    OBVIOUS
  <2>3. QED
    BY <2>1, <2>2 DEF WholePaise
<1>3. QED
  BY <1>2

\* Every step of a coroutine keeps the answers true.
LEMMA NextAInv ==
    ASSUME IInv, AInv, [Next]_vars
    PROVE  AInv'
<1> USE DEF cards, ledger, window, process
<1>1. /\ pc \in [Requests -> PCs] /\ outcome \in [Requests -> Outcomes]
      /\ posted \subseteq Requests
      /\ \A r \in posted : pc[r] \in {"record", "done"}
  BY DEF IInv, TypeOK, LockDiscipline, PostedOver
<1>2. ASSUME NEW r \in Requests, pc[r] \notin {"record", "done"}
      PROVE  r \notin posted /\ outcome[r] = "none"
  BY <1>1, <1>2 DEF AInv, AnsweredAtEnd
<1>3. ASSUME NEW r \in Requests, NEW l \in PCs, Goto(r, l),
             pc[r] \notin {"record", "done"}, l # "record",
             l \in {"insert", "commit"} => input[r].amount <= HighAmount,
             UNCHANGED <<input, posted, loggedKeys>>
      PROVE  AInv'
  <2>1. outcome' = [outcome EXCEPT ![r] = "none"]
    BY <1>1, <1>2, <1>3 DEF Goto
  <2>2. "none" \in Outcomes /\ "none" \notin Declined /\ "none" \notin Conflicts
    BY DEF Outcomes, Declined, Conflicts
  <2>3. QED
    BY <1>3, <2>1, <2>2, AnswerAInv DEF Goto
<1>4. ASSUME NEW r \in Requests, NEW answer \in Declined, Finish(r, answer),
             pc[r] \notin {"record", "done"},
             UNCHANGED <<input, posted, loggedKeys>>
      PROVE  AInv'
  <2>1. /\ "done" \in PCs /\ answer \in Outcomes
        /\ answer \notin {"AUTHORIZED", "INTERNAL_ERROR"} /\ answer \notin Conflicts
    BY DEF PCs, Outcomes, Declined, Conflicts
  <2>2. QED
    BY <1>2, <1>4, <2>1, AnswerAInv DEF Finish
<1>5. ASSUME NEW r \in Requests, NEW answer \in Conflicts, Finish(r, answer),
             pc[r] \notin {"record", "done"}, \E s \in posted : SameKey(r, s),
             UNCHANGED <<input, posted, loggedKeys>>
      PROVE  AInv'
  <2>1. /\ "done" \in PCs /\ answer \in Outcomes
        /\ answer \notin {"AUTHORIZED", "INTERNAL_ERROR"} /\ answer \notin Declined
    BY DEF PCs, Outcomes, Declined, Conflicts
  <2>2. QED
    BY <1>2, <1>5, <2>1, AnswerAInv DEF Finish
<1>6. ASSUME NEW r \in Requests, CheckIdempotency(r) PROVE AInv'
  <2>1. pc[r] = "idle" /\ UNCHANGED <<input, posted, loggedKeys>>
    BY <1>6 DEF CheckIdempotency
  <2>2. CASE input[r].key \in loggedKeys
    <3>1. \E s \in posted : SameKey(r, s)
      BY <2>2 DEF AInv, LoggedCharged, SameKey
    <3>2. Finish(r, "DUPLICATE_IDEMPOTENCY_KEY")
      BY <1>6, <2>2 DEF CheckIdempotency
    <3>3. QED
      BY <1>5, <2>1, <3>1, <3>2 DEF Conflicts
  <2>3. CASE input[r].key \notin loggedKeys
    BY <1>3, <1>6, <2>1, <2>3 DEF CheckIdempotency, PCs
  <2>4. QED
    BY <2>2, <2>3
<1>7. ASSUME NEW r \in Requests, LockCard(r) PROVE AInv'
  <2>1. pc[r] = "card" /\ UNCHANGED <<input, posted, loggedKeys>>
    BY <1>7 DEF LockCard
  <2>2. \/ Goto(r, "account")
        \/ \E answer \in Declined : Finish(r, answer)
    BY <1>7 DEF LockCard, Declined
  <2>3. QED
    BY <1>3, <1>4, <2>1, <2>2 DEF PCs
<1>8. ASSUME NEW r \in Requests, LockAccount(r) PROVE AInv'
  <2>1. pc[r] = "account" /\ UNCHANGED <<input, posted, loggedKeys>>
    BY <1>8 DEF LockAccount
  <2>2. \/ Goto(r, "insert") /\ input[r].amount <= HighAmount
        \/ \E answer \in Declined : Finish(r, answer)
        \/ Finish(r, "INTERNAL_ERROR") /\ input[r].amount > HighAmount
    BY <1>8 DEF LockAccount, Declined
  <2>3. ASSUME Finish(r, "INTERNAL_ERROR"), input[r].amount > HighAmount
        PROVE  AInv'
    <3>1. ~(input[r].amount <= HighAmount)
      <4>1. input[r].amount \in Nat /\ HighAmount \in Nat
        BY AuthorizationAssumption, HoldFacts DEF IInv
      <4>2. QED
        BY <2>3, <4>1
    <3>2. Doubtful(r)
      BY <1>2, <2>1, <3>1 DEF Doubtful
    <3>3. /\ "done" \in PCs /\ "INTERNAL_ERROR" \in Outcomes
          /\ "INTERNAL_ERROR" \notin Declined /\ "INTERNAL_ERROR" \notin Conflicts
      BY DEF PCs, Outcomes, Declined, Conflicts
    <3>4. QED
      BY <2>1, <2>3, <3>2, <3>3, AnswerAInv DEF Finish
  <2>4. QED
    BY <1>3, <1>4, <2>1, <2>2, <2>3 DEF PCs
<1>9. ASSUME NEW r \in Requests, Insert(r) PROVE AInv'
  <2>1. pc[r] = "insert" /\ UNCHANGED <<input, posted, loggedKeys>>
    BY <1>9 DEF Insert
  <2>2. CASE \E s \in posted : SameKey(r, s)
    BY <1>5, <1>9, <2>1, <2>2 DEF Insert, Conflicts
  <2>3. CASE ~ \E s \in posted : SameKey(r, s)
    BY <1>3, <1>9, <2>1, <2>3 DEF Insert, PCs, AInv, AmountChecked
  <2>4. QED
    BY <2>2, <2>3
<1>10. ASSUME NEW r \in Requests, Commit(r) PROVE AInv'
  <2>1. /\ pc[r] = "commit" /\ pc'[r] = "record"
        /\ \A s \in Requests \ {r} : pc'[s] = pc[s]
        /\ UNCHANGED <<input, outcome>>
        /\ posted' = posted \cup {r}
        /\ loggedKeys' = loggedKeys \cup {input[r].key}
    BY <1>1, <1>10 DEF Commit, Goto
  <2>2. outcome[r] = "none"
    BY <1>2, <2>1
  <2>3. AnsweredAtEnd' /\ RecordedPosted' /\ LoggedCharged' /\ AmountChecked'
    BY <2>1, <2>2
    DEF AInv, AnsweredAtEnd, RecordedPosted, LoggedCharged, AmountChecked
  <2>4. AnswersMatchLedger'
    <3>1. "none" \notin Declined /\ "none" \notin Conflicts
      BY DEF Declined, Conflicts
    <3>2. \A s \in Requests : Foreign(s)' = Foreign(s) /\ Hold(s)' = Hold(s)
      BY <2>1 DEF Foreign, Hold
    <3>3. QED
      BY <2>1, <2>2, <3>1, <3>2 DEF AInv, AnswersMatchLedger, SameKey
  <2>5. QED
    BY <2>3, <2>4 DEF AInv
<1>11. ASSUME NEW r \in Requests, Record(r) PROVE AInv'
  <2>1. r \in posted /\ input[r].amount <= HighAmount
    BY <1>11 DEF Record, AInv, RecordedPosted, AmountChecked
  <2>2. /\ "done" \in PCs /\ {"AUTHORIZED", "INTERNAL_ERROR"} \subseteq Outcomes
        /\ {"AUTHORIZED", "INTERNAL_ERROR"} \cap Declined = {}
        /\ {"AUTHORIZED", "INTERNAL_ERROR"} \cap Conflicts = {}
    BY DEF PCs, Outcomes, Declined, Conflicts
  <2>3. CASE WholePaise(Hold(r))
    BY <1>11, <2>1, <2>2, <2>3, AnswerAInv DEF Record, Finish
  <2>4. CASE ~WholePaise(Hold(r))
    <3>1. Doubtful(r)
      BY <2>1, <2>4, FractionIsForeign DEF Doubtful
    <3>2. QED
      BY <1>11, <2>1, <2>2, <2>4, <3>1, AnswerAInv DEF Record, Finish
  <2>5. QED
    BY <2>3, <2>4
<1>12. ASSUME Restart PROVE AInv'
  <2>1. \A r \in Requests :
            \/ pc[r] = "done" /\ pc'[r] = pc[r] /\ outcome'[r] = outcome[r]
            \/ pc[r] = "idle" /\ pc'[r] = pc[r] /\ outcome'[r] = outcome[r]
            \/ pc'[r] = "done" /\ outcome'[r] = "NO_RESPONSE"
    BY <1>12 DEF Restart, InFlight
  <2>2. "NO_RESPONSE" \notin Declined /\ "NO_RESPONSE" \notin Conflicts
    BY DEF Declined, Conflicts
  <2>3. UNCHANGED <<input, posted, loggedKeys>>
    BY <1>12 DEF Restart
  <2>4. AnsweredAtEnd' /\ RecordedPosted' /\ LoggedCharged' /\ AmountChecked'
    BY <2>1, <2>3
    DEF AInv, AnsweredAtEnd, RecordedPosted, LoggedCharged, AmountChecked
  <2>5. AnswersMatchLedger'
    <3>1. \A s \in Requests : Foreign(s)' = Foreign(s) /\ Hold(s)' = Hold(s)
      BY <2>3 DEF Foreign, Hold
    <3>2. QED
      BY <2>1, <2>2, <2>3, <3>1 DEF AInv, AnswersMatchLedger, SameKey
  <2>6. QED
    BY <2>4, <2>5 DEF AInv
<1>13. ASSUME \/ \E r \in Requests : LeaveWindow(r)
              \/ \E c \in ExpiringCards : CardExpires(c)
              \/ \E c \in Cards, s \in LifecycleStatuses : LifecycleWrite(c, s)
              \/ \E k \in Keys : ForgetKey(k)
              \/ Quiescent \/ UNCHANGED vars
       PROVE  AInv'
  BY <1>13, SilentAInv DEF LeaveWindow, CardExpires, LifecycleWrite, ForgetKey,
     Quiescent, vars
<1>14. QED
  BY <1>6, <1>7, <1>8, <1>9, <1>10, <1>11, <1>12, <1>13 DEF Next, Serve

\* Retries, conflicts, declines and restarts included, no client is told
\* anything but what was committed for its request, and the only answer that
\* leaves a client in doubt is explained.
THEOREM AnswersTrue == Spec => []AnswersMatchLedger
<1>1. Init => AInv
  BY DEF Init, AInv, AnsweredAtEnd, RecordedPosted, LoggedCharged, AmountChecked,
     AnswersMatchLedger, Declined, Conflicts
<1>2. IInv /\ AInv /\ [Next]_vars => AInv'
  BY NextAInv
<1>3. AInv => AnswersMatchLedger
  BY DEF AInv
<1>4. QED
  BY <1>1, <1>2, <1>3, InductiveInvariant, PTL DEF Spec

------------------------------------------------------------------------------
(* How far the velocity check is overrun *)

\* The transactions of an account that its next velocity check can count:
\* those recorded, and those that have passed the check and not yet recorded.
\* A restart makes the check forget the others that are still in the window.
Checked(a) == {r \in Requests : pc[r] \in {"insert", "commit", "record"}
                                /\ Account(r) = a}
Known(a) == Entries(a) \cup Checked(a)
Recent(a) == {r \in recent : Account(r) = a}
Forgotten(a) == Recent(a) \ Known(a)

\* What one life of the process lets through in a window: the count is
\* compared with the recorded transactions only, so everybody in flight may
\* pass behind the last one recorded.
Allowance == MaxTxnCount + MaxInFlight - 1

VelocityInv ==
    /\ Cardinality(InFlight) <= MaxInFlight
    /\ \A r \in recent : pc[r] \in {"record", "done"}
    /\ \A a \in Accounts :
           /\ Cardinality(Known(a)) <= Allowance
           /\ Cardinality(Forgotten(a)) <= restarts * Allowance

\* The sets that are counted are sets of requests.
LEMMA CountedSets ==
    ASSUME TypeOK, NEW a
    PROVE  /\ Known(a) \subseteq Requests /\ Recent(a) \subseteq Requests
           /\ Entries(a) \subseteq Requests /\ Checked(a) \subseteq InFlight
           /\ InFlight \subseteq Requests
BY DEF TypeOK, Known, Recent, Entries, Checked, InFlight

\* Counting is monotone, and a union has at most as many as its parts.
LEMMA Counting ==
    ASSUME NEW S \in SUBSET Requests, NEW T \in SUBSET Requests
    PROVE  /\ IsFiniteSet(S) /\ Cardinality(S) \in Nat
           /\ S \subseteq T => Cardinality(S) <= Cardinality(T)
           /\ Cardinality(S \cup T) <= Cardinality(S) + Cardinality(T)
<1>1. IsFiniteSet(Requests)
  BY AuthorizationAssumption, Zenon
<1>2. IsFiniteSet(S) /\ IsFiniteSet(T)
  BY <1>1, FS_Subset
<1>3. Cardinality(S) \in Nat /\ Cardinality(T) \in Nat
  BY <1>2, FS_CardinalityType
<1>4. S \subseteq T => Cardinality(S) <= Cardinality(T)
  BY <1>2, FS_Subset
<1>5. Cardinality(S \cup T) <= Cardinality(S) + Cardinality(T)
  <2>1. IsFiniteSet(S \cap T)
    BY <1>2, FS_Subset
  <2>2. Cardinality(S \cap T) \in Nat
    BY <2>1, FS_CardinalityType
  <2>3. Cardinality(S \cup T)
            = Cardinality(S) + Cardinality(T) - Cardinality(S \cap T)
    BY <1>2, FS_Union
  <2>4. QED
    BY <1>3, <2>2, <2>3
<1>6. QED
  BY <1>2, <1>3, <1>4, <1>5

\* What bounds a set of requests bounds its subsets.
LEMMA Fewer ==
    ASSUME NEW T \in SUBSET Requests, NEW S \in SUBSET T,
           NEW n \in Int, Cardinality(T) <= n
    PROVE  Cardinality(S) <= n
<1>1. S \in SUBSET Requests
  OBVIOUS
<1>2. Cardinality(S) <= Cardinality(T)
  BY <1>1, Counting
<1>3. Cardinality(S) \in Nat /\ Cardinality(T) \in Nat
  BY <1>1, Counting
<1>4. QED
  BY <1>2, <1>3

\* The restarts are counted from 0.
LEMMA RestartsNat == ASSUME TypeOK PROVE restarts \in Nat
<1>1. MaxRestarts \in Nat
  BY AuthorizationAssumption, Zenon
<1>2. restarts \in 0 .. MaxRestarts
  BY DEF TypeOK
<1>3. QED
  BY <1>1, <1>2

\* The allowances of the lives of the process so far.
LEMMA Allowances ==
    ASSUME MaxTxnCount > 0, MaxInFlight > 0, NEW n \in Nat
    PROVE  /\ MaxTxnCount \in Nat /\ MaxInFlight \in Nat /\ Allowance \in Nat
           /\ n * Allowance \in Nat
           /\ (n + 1) * Allowance = n * Allowance + Allowance
<1>1. MaxTxnCount \in Nat /\ MaxInFlight \in Nat
  BY AuthorizationAssumption, Zenon
<1>2. Allowance \in Nat
  BY <1>1 DEF Allowance
<1>3. PICK b \in Nat : b = Allowance
  BY <1>2
<1>4. n * b \in Nat /\ (n + 1) * b = n * b + b
  OBVIOUS
<1>5. QED
  BY <1>1, <1>3, <1>4, Zenon

\* A step that makes no more transactions of an account known or forgotten
\* keeps the bounds.
LEMMA NoMoreKnown ==
    ASSUME TypeOK, TypeOK', VelocityInv, UNCHANGED restarts,
           MaxTxnCount > 0, MaxInFlight > 0,
           InFlight' \subseteq InFlight,
           \A r \in recent' : pc'[r] \in {"record", "done"},
           \A a \in Accounts : Known(a)' \subseteq Known(a)
                               /\ Forgotten(a)' \subseteq Forgotten(a)
    PROVE  VelocityInv'
<1>1. PICK n \in Nat : n = restarts
  BY RestartsNat
<1>2. Allowance \in Int /\ n * Allowance \in Int /\ MaxInFlight \in Int
  BY Allowances
<1>3. Cardinality(InFlight') <= MaxInFlight
  <2>1. InFlight \in SUBSET Requests /\ InFlight' \in SUBSET InFlight
    BY DEF InFlight
  <2>2. Cardinality(InFlight) <= MaxInFlight
    BY DEF VelocityInv
  <2>3. QED
    BY <1>2, <2>1, <2>2, Fewer
<1>4. ASSUME NEW a \in Accounts
      PROVE  /\ Cardinality(Known(a)') <= Allowance
             /\ Cardinality(Forgotten(a)') <= n * Allowance
  <2>1. Known(a) \in SUBSET Requests /\ Forgotten(a) \in SUBSET Requests
    BY CountedSets DEF Forgotten
  <2>2. Cardinality(Known(a)) <= Allowance
        /\ Cardinality(Forgotten(a)) <= n * Allowance
    BY <1>1 DEF VelocityInv
  <2>3. Known(a)' \in SUBSET Known(a) /\ Forgotten(a)' \in SUBSET Forgotten(a)
    OBVIOUS
  <2>4. Cardinality(Known(a)') <= Allowance
    BY <1>2, <2>1, <2>2, <2>3, Fewer
  <2>5. Cardinality(Forgotten(a)') <= n * Allowance
    BY <1>2, <2>1, <2>2, <2>3, Fewer
  <2>6. QED
    BY <2>4, <2>5
<1>5. n = restarts'
  BY <1>1
<1>6. QED
  BY <1>3, <1>4, <1>5, Zenon DEF VelocityInv

\* A request that arrives takes a free place.
LEMMA CheckIdempotencyVelocity ==
    ASSUME TypeOK, TypeOK', VelocityInv, MaxTxnCount > 0, MaxInFlight > 0,
           NEW r \in Requests, CheckIdempotency(r)
    PROVE  VelocityInv'
<1>1. /\ UNCHANGED <<input, recent, velocity, restarts>>
      /\ pc[r] = "idle" /\ pc' = [pc EXCEPT ![r] = pc'[r]]
      /\ pc'[r] \in {"card", "done"}
  BY DEF CheckIdempotency, Goto, Finish, window, process, TypeOK
<1>2. Cardinality(InFlight') <= MaxInFlight
  <2>1. InFlight \in SUBSET Requests /\ {r} \in SUBSET Requests
    BY DEF InFlight
  <2>2. InFlight' \subseteq InFlight \cup {r}
    BY <1>1 DEF InFlight, TypeOK
  <2>3. /\ Cardinality(InFlight) \in Nat /\ Cardinality({r}) \in Nat
        /\ Cardinality(InFlight \cup {r})
               <= Cardinality(InFlight) + Cardinality({r})
    BY <2>1, Counting
  <2>4. Cardinality({r}) = 1
    BY FS_Singleton
  <2>5. InFlight \cup {r} \in SUBSET Requests
    BY <2>1
  <2>6. Cardinality(InFlight \cup {r}) \in Nat
    BY <2>5, Counting
  <2>7. Cardinality(InFlight) < MaxInFlight
    BY DEF CheckIdempotency
  <2>8. MaxInFlight \in Int
    BY Allowances
  <2>9. Cardinality(InFlight \cup {r}) <= MaxInFlight
    BY <2>3, <2>4, <2>6, <2>7, <2>8
  <2>10. QED
    BY <2>2, <2>5, <2>8, <2>9, Fewer
<1>3. \A a : Known(a)' = Known(a) /\ Recent(a)' = Recent(a)
  BY <1>1 DEF TypeOK, Known, Recent, Entries, Checked, Account
<1>4. \A s \in recent' : pc'[s] \in {"record", "done"}
  BY <1>1 DEF VelocityInv, TypeOK
<1>5. \A a : Known(a)' = Known(a) /\ Forgotten(a)' = Forgotten(a)
  BY <1>3 DEF Forgotten
<1>6. QED
  BY <1>1, <1>2, <1>4, <1>5, Zenon DEF VelocityInv

\* Whoever passes the velocity check has found fewer than MaxTxnCount
\* recorded transactions, and everybody else who passed is still in flight.
LEMMA LockAccountVelocity ==
    ASSUME TypeOK, TypeOK', VelocityInv, MaxTxnCount > 0, MaxInFlight > 0,
           NEW r \in Requests, LockAccount(r)
    PROVE  VelocityInv'
<1>1. /\ UNCHANGED <<input, recent, velocity, restarts>>
      /\ pc[r] = "account" /\ pc' = [pc EXCEPT ![r] = pc'[r]]
      /\ \/ pc'[r] = "done"
         \/ pc'[r] = "insert" /\ ~TooFast(r)
  BY DEF LockAccount, Goto, Finish, window, process, TypeOK
<1>2. InFlight' \subseteq InFlight
  BY <1>1 DEF InFlight, TypeOK
<1>3. \A s \in recent' : pc'[s] \in {"record", "done"}
  BY <1>1 DEF VelocityInv, TypeOK
<1>4. \A a : Recent(a)' = Recent(a) /\ Entries(a)' = Entries(a)
  BY <1>1 DEF Recent, Entries, Account
<1>5. \A a : Known(a) \subseteq Known(a)'
  BY <1>1, <1>4 DEF TypeOK, Known, Checked, Account
<1>6. \A a : Forgotten(a)' \subseteq Forgotten(a)
  BY <1>4, <1>5 DEF Forgotten
<1>7. CASE pc'[r] = "done"
  <2>1. \A a : Known(a)' \subseteq Known(a)
    BY <1>1, <1>4, <1>7 DEF TypeOK, Known, Checked, Account
  <2>2. QED
    BY <1>1, <1>2, <1>3, <1>6, <2>1, NoMoreKnown
<1>8. CASE pc'[r] = "insert" /\ ~TooFast(r)
  <2>1. PICK n \in Nat : n = restarts
    BY RestartsNat
  <2>2. /\ MaxTxnCount \in Nat /\ MaxInFlight \in Nat /\ Allowance \in Int
        /\ n * Allowance \in Int
    BY Allowances
  <2>3. Cardinality(InFlight') <= MaxInFlight
    <3>1. InFlight \in SUBSET Requests /\ InFlight' \in SUBSET InFlight
      BY <1>2 DEF InFlight
    <3>2. Cardinality(InFlight) <= MaxInFlight
      BY DEF VelocityInv
    <3>3. QED
      BY <2>2, <3>1, <3>2, Fewer
  <2>4. ASSUME NEW a \in Accounts
        PROVE  /\ Cardinality(Known(a)') <= Allowance
               /\ Cardinality(Forgotten(a)') <= n * Allowance
    <3>1. Cardinality(Forgotten(a)') <= n * Allowance
      <4>1. Forgotten(a) \in SUBSET Requests /\ Forgotten(a)' \in SUBSET Forgotten(a)
        BY <1>6, CountedSets DEF Forgotten
      <4>2. Cardinality(Forgotten(a)) <= n * Allowance
        BY <2>1 DEF VelocityInv
      <4>3. QED
        BY <2>2, <4>1, <4>2, Fewer
    <3>2. CASE a # Account(r)
      <4>1. Known(a) \in SUBSET Requests
        BY CountedSets
      <4>2. Known(a)' \in SUBSET Known(a)
        BY <1>1, <1>4, <3>2 DEF TypeOK, Known, Checked, Account
      <4>3. Cardinality(Known(a)) <= Allowance
        BY DEF VelocityInv
      <4>4. Cardinality(Known(a)') <= Allowance
        BY <2>2, <4>1, <4>2, <4>3, Fewer
      <4>5. QED
        BY <3>1, <4>4
    <3>3. CASE a = Account(r)
      <4>1. ~(Cardinality(Entries(a)) >= MaxTxnCount)
        BY <1>8, <3>3 DEF TooFast, OverVelocity
      <4>2. PICK E, F : E = Entries(a) /\ F = InFlight'
        OBVIOUS
      <4>3. E \in SUBSET Requests /\ F \in SUBSET Requests
        BY <4>2, CountedSets DEF InFlight
      <4>4. /\ Cardinality(E) \in Nat /\ Cardinality(F) \in Nat
            /\ Cardinality(E \cup F) <= Cardinality(E) + Cardinality(F)
        BY <4>3, Counting
      <4>5. E \cup F \in SUBSET Requests
        BY <4>3
      <4>6. Cardinality(E \cup F) \in Nat
        BY <4>5, Counting
      <4>7. Cardinality(E) < MaxTxnCount /\ Cardinality(F) <= MaxInFlight
        BY <2>2, <2>3, <4>1, <4>2, <4>4
      <4>8. Cardinality(E \cup F) <= Allowance
        BY <2>2, <4>4, <4>6, <4>7 DEF Allowance
      <4>9. Known(a)' \in SUBSET (E \cup F)
        BY <1>4, <4>2 DEF Known, Checked, InFlight
      <4>10. Cardinality(Known(a)') <= Allowance
        BY <2>2, <4>5, <4>8, <4>9, Fewer
      <4>11. QED
        BY <3>1, <4>10
    <3>4. QED
      BY <3>2, <3>3
  <2>5. n = restarts'
    BY <1>1, <2>1
  <2>6. QED
    BY <1>3, <2>3, <2>4, <2>5, Zenon DEF VelocityInv
<1>9. QED
  BY <1>1, <1>7, <1>8

\* The COMMIT brings into the window what the check has counted.
LEMMA CommitVelocity ==
    ASSUME TypeOK, TypeOK', VelocityInv, MaxTxnCount > 0, MaxInFlight > 0,
           NEW r \in Requests, Commit(r)
    PROVE  VelocityInv'
<1>1. /\ UNCHANGED <<input, velocity, restarts>>
      /\ pc[r] = "commit" /\ pc' = [pc EXCEPT ![r] = "record"]
      /\ recent' = recent \cup {r}
  BY DEF Commit, Goto, process
<1>2. InFlight' \subseteq InFlight
  BY <1>1 DEF InFlight, TypeOK
<1>3. \A s \in recent' : pc'[s] \in {"record", "done"}
  BY <1>1 DEF VelocityInv, TypeOK
<1>4. \A a : Known(a)' = Known(a)
  BY <1>1 DEF TypeOK, Known, Entries, Checked, Account
<1>5. \A a : Recent(a)' \subseteq Recent(a) \cup Known(a)
  BY <1>1 DEF TypeOK, Recent, Known, Checked, Account
<1>6. \A a : Forgotten(a)' \subseteq Forgotten(a)
  BY <1>4, <1>5 DEF Forgotten
<1>7. QED
  BY <1>1, <1>2, <1>3, <1>4, <1>6, NoMoreKnown

\* A restart forgets what the process knew, and starts it on a new allowance.
LEMMA RestartVelocity ==
    ASSUME TypeOK, TypeOK', VelocityInv, MaxTxnCount > 0, MaxInFlight > 0,
           Restart
    PROVE  VelocityInv'
<1>1. /\ UNCHANGED <<input, recent>> /\ velocity' = {}
      /\ \A s \in Requests : pc'[s] \in {"idle", "done"}
      /\ \A s \in Requests : pc[s] # "idle" => pc'[s] = "done"
      /\ restarts' = restarts + 1
  BY DEF Restart, InFlight
<1>2. PICK n \in Nat : n = restarts
  BY RestartsNat
<1>3. /\ MaxInFlight \in Nat /\ Allowance \in Nat /\ n * Allowance \in Nat
      /\ (n + 1) * Allowance = n * Allowance + Allowance
  BY Allowances
<1>4. Cardinality({}) = 0
  BY FS_EmptySet
<1>5. InFlight' = {}
  BY <1>1 DEF InFlight
<1>6. \A s \in recent' : pc'[s] \in {"record", "done"}
  BY <1>1 DEF VelocityInv, TypeOK
<1>7. ASSUME NEW a \in Accounts
      PROVE  /\ Cardinality(Known(a)') <= Allowance
             /\ Cardinality(Forgotten(a)') <= (n + 1) * Allowance
  <2>1. Known(a)' = {}
    BY <1>1 DEF Known, Entries, Checked
  <2>2. PICK F, K : F = Forgotten(a) /\ K = Known(a)
    OBVIOUS
  <2>3. F \in SUBSET Requests /\ K \in SUBSET Requests
    BY <2>2, CountedSets DEF Forgotten
  <2>4. /\ Cardinality(F) \in Nat /\ Cardinality(K) \in Nat
        /\ Cardinality(F \cup K) <= Cardinality(F) + Cardinality(K)
    BY <2>3, Counting
  <2>5. F \cup K \in SUBSET Requests
    BY <2>3
  <2>6. Cardinality(F \cup K) \in Nat
    BY <2>5, Counting
  <2>7. Cardinality(F) <= n * Allowance /\ Cardinality(K) <= Allowance
    BY <1>2, <2>2 DEF VelocityInv
  <2>8. PICK b \in Nat, m \in Nat : b = Allowance /\ m = n * Allowance
    BY <1>3
  <2>9. Cardinality(F \cup K) <= m + b
    BY <2>4, <2>6, <2>7, <2>8
  <2>10. m + b \in Int /\ m + b = (n + 1) * Allowance
    BY <1>3, <2>8
  <2>11. Recent(a)' = Recent(a)
    BY <1>1 DEF Recent, Account
  <2>12. Forgotten(a)' \in SUBSET (F \cup K)
    BY <2>2, <2>11 DEF Forgotten
  <2>13. Cardinality(Forgotten(a)') <= m + b
    BY <2>5, <2>9, <2>10, <2>12, Fewer
  <2>14. QED
    BY <1>3, <1>4, <2>1, <2>10, <2>13
<1>8. n + 1 = restarts'
  BY <1>1, <1>2
<1>9. Cardinality(InFlight') <= MaxInFlight
  BY <1>3, <1>4, <1>5
<1>10. QED
  BY <1>6, <1>7, <1>8, <1>9, Zenon DEF VelocityInv

\* The other steps record, refuse or forget, and let nothing more through.
LEMMA NextVelocityInv ==
    ASSUME TypeOK, TypeOK', VelocityInv, MaxTxnCount > 0, MaxInFlight > 0,
           [Next]_vars
    PROVE  VelocityInv'
<1>1. ASSUME NEW r \in Requests, LockCard(r) \/ Insert(r) PROVE VelocityInv'
  <2>1. /\ UNCHANGED <<input, recent, velocity, restarts>>
        /\ \/ pc[r] = "card" /\ pc'[r] \in {"account", "done"}
           \/ pc[r] = "insert" /\ pc'[r] \in {"commit", "done"}
        /\ pc' = [pc EXCEPT ![r] = pc'[r]]
    BY <1>1 DEF LockCard, Insert, Goto, Finish, window, process, TypeOK
  <2>2. InFlight' \subseteq InFlight
    BY <2>1 DEF InFlight, TypeOK
  <2>3. r \notin recent /\ \A s \in recent' : pc'[s] \in {"record", "done"}
    BY <2>1 DEF VelocityInv, TypeOK
  <2>4. \A a : /\ Recent(a)' = Recent(a) /\ Known(a)' \subseteq Known(a)
               /\ Known(a) \subseteq Known(a)' \cup {r}
    BY <2>1 DEF TypeOK, Recent, Known, Entries, Checked, Account
  <2>5. \A a : Forgotten(a)' \subseteq Forgotten(a)
    BY <2>3, <2>4 DEF Forgotten, Recent
  <2>6. QED
    BY <2>1, <2>2, <2>3, <2>4, <2>5, NoMoreKnown
<1>2. ASSUME NEW r \in Requests, Record(r) PROVE VelocityInv'
  <2>1. /\ UNCHANGED <<input, recent, restarts>>
        /\ pc[r] = "record" /\ pc' = [pc EXCEPT ![r] = "done"]
        /\ velocity' = velocity \cup {r}
    BY <1>2 DEF Record, Finish, process
  <2>2. InFlight' \subseteq InFlight
    BY <2>1 DEF InFlight, TypeOK
  <2>3. \A s \in recent' : pc'[s] \in {"record", "done"}
    BY <2>1 DEF VelocityInv, TypeOK
  <2>4. \A a : Recent(a)' = Recent(a) /\ Known(a)' = Known(a)
    BY <2>1 DEF TypeOK, Recent, Known, Entries, Checked, Account
  <2>5. \A a : Forgotten(a)' = Forgotten(a)
    BY <2>4 DEF Forgotten
  <2>6. QED
    BY <2>1, <2>2, <2>3, <2>4, <2>5, NoMoreKnown
<1>3. ASSUME NEW r \in Requests, LeaveWindow(r) PROVE VelocityInv'
  <2>1. /\ UNCHANGED <<input, pc, restarts>> /\ pc[r] = "done"
        /\ velocity' = velocity \ {r} /\ recent' = recent \ {r}
    BY <1>3 DEF LeaveWindow, process
  <2>2. InFlight' \subseteq InFlight
    BY <2>1 DEF InFlight
  <2>3. \A s \in recent' : pc'[s] \in {"record", "done"}
    BY <2>1 DEF VelocityInv
  <2>4. \A a : /\ Recent(a)' = Recent(a) \ {r} /\ Known(a)' = Known(a) \ {r}
    BY <2>1 DEF Recent, Known, Entries, Checked, Account
  <2>5. \A a : Forgotten(a)' \subseteq Forgotten(a)
    BY <2>4 DEF Forgotten
  <2>6. QED
    BY <2>1, <2>2, <2>3, <2>4, <2>5, NoMoreKnown
<1>4. ASSUME \/ \E c \in ExpiringCards : CardExpires(c)
             \/ \E c \in Cards, s \in LifecycleStatuses : LifecycleWrite(c, s)
             \/ \E k \in Keys : ForgetKey(k)
             \/ Quiescent \/ UNCHANGED vars
      PROVE  VelocityInv'
  <2>1. UNCHANGED <<input, pc, recent, velocity, restarts>>
    BY <1>4 DEF CardExpires, LifecycleWrite, ForgetKey, Quiescent, vars, window,
       process
  <2>2. /\ InFlight' \subseteq InFlight
        /\ \A s \in recent' : pc'[s] \in {"record", "done"}
    BY <2>1 DEF InFlight, VelocityInv
  <2>3. \A a : Recent(a)' = Recent(a) /\ Known(a)' = Known(a)
    BY <2>1 DEF Recent, Known, Entries, Checked, Account
  <2>4. \A a : Forgotten(a)' = Forgotten(a)
    BY <2>3 DEF Forgotten
  <2>5. QED
    BY <2>1, <2>2, <2>3, <2>4, NoMoreKnown
<1>5. QED
  BY <1>1, <1>2, <1>3, <1>4, CheckIdempotencyVelocity, LockAccountVelocity,
     CommitVelocity, RestartVelocity DEF Next, Serve

\* The claim of at most MaxTxnCount transactions in five minutes is refuted
\* by VelocityCapped; what holds of it is this bound.  Requests that overlap
\* overrun the count by one less than there are in flight, and each restart of
\* the process allows as many again, for any number of requests, cards and
\* accounts.
THEOREM VelocityOverrunBounded ==
    ASSUME MaxTxnCount > 0, MaxInFlight > 0
    PROVE  Spec => [](\A a \in Accounts :
               Cardinality({r \in recent : Account(r) = a})
                   <= (restarts + 1) * (MaxTxnCount + MaxInFlight - 1))
<1> DEFINE Bound == \A a \in Accounts :
               Cardinality({r \in recent : Account(r) = a})
                   <= (restarts + 1) * (MaxTxnCount + MaxInFlight - 1)
<1>1. Init => VelocityInv
  <2> SUFFICES ASSUME Init PROVE VelocityInv
    OBVIOUS
  <2>1. MaxInFlight \in Nat /\ Allowance \in Nat
    BY Allowances, 0 \in Nat
  <2>2. Cardinality({}) = 0
    BY FS_EmptySet
  <2>3. restarts * Allowance = 0
    BY <2>1 DEF Init
  <2>4. InFlight = {} /\ \A a : Known(a) = {} /\ Forgotten(a) = {}
    BY DEF Init, InFlight, Known, Entries, Checked, Forgotten, Recent
  <2>5. recent = {}
    BY DEF Init
  <2>6. 0 <= MaxInFlight /\ 0 <= Allowance /\ 0 <= restarts * Allowance
    BY <2>1, <2>3
  <2>7. QED
    BY <2>2, <2>4, <2>5, <2>6, Zenon DEF VelocityInv
<1>2. TypeOK /\ TypeOK' /\ VelocityInv /\ [Next]_vars => VelocityInv'
  BY NextVelocityInv
<1>3. TypeOK /\ VelocityInv => Bound
  <2> SUFFICES ASSUME TypeOK, VelocityInv, NEW a \in Accounts
               PROVE  Cardinality(Recent(a)) <= (restarts + 1) * Allowance
    BY DEF Recent, Allowance
  <2>1. PICK n \in Nat : n = restarts
    BY RestartsNat
  <2>2. /\ Allowance \in Nat /\ n * Allowance \in Nat
        /\ (n + 1) * Allowance = n * Allowance + Allowance
    BY Allowances
  <2>3. PICK F, K : F = Forgotten(a) /\ K = Known(a)
    OBVIOUS
  <2>4. F \in SUBSET Requests /\ K \in SUBSET Requests
    BY <2>3, CountedSets DEF Forgotten
  <2>5. F \cup K \in SUBSET Requests
    BY <2>4
  <2>6. /\ Cardinality(F) \in Nat /\ Cardinality(K) \in Nat
        /\ Cardinality(F \cup K) \in Nat
        /\ Cardinality(F \cup K) <= Cardinality(F) + Cardinality(K)
    BY <2>4, <2>5, Counting
  <2>7. Cardinality(F) <= n * Allowance /\ Cardinality(K) <= Allowance
    BY <2>1, <2>3 DEF VelocityInv
  <2>8. PICK b \in Nat, m \in Nat : b = Allowance /\ m = n * Allowance
    BY <2>2
  <2>9. Cardinality(F \cup K) <= m + b
    BY <2>6, <2>7, <2>8
  <2>10. Recent(a) \in SUBSET (F \cup K)
    BY <2>3 DEF Forgotten
  <2>11. Cardinality(Recent(a)) <= m + b
    BY <2>5, <2>8, <2>9, <2>10, Fewer
  <2>12. m + b = (restarts + 1) * Allowance
    BY <2>1, <2>2, <2>8
  <2>13. QED
    BY <2>11, <2>12
<1>4. QED
  BY <1>1, <1>2, <1>3, TypeCorrect, PTL DEF Spec
===============================================================================
