---------------------------- MODULE BillingProofs ----------------------------
(***************************************************************************)
(* Bills, for any accounts, cards, transactions, months and requests, with *)
(* any number of generations at a time.                                    *)
(*                                                                         *)
(* An account has more than one bill for a cycle only from generations     *)
(* that ran together, and no more than may run at a time; a transaction is *)
(* billed in two cycles at most, and the balance that a bill carries is    *)
(* what the bills of its chain charged, each once.                         *)
(*                                                                         *)
(* The sums of a bill range over finite sets of any size.  Minimal is the  *)
(* induction behind them: of the sets at which a claim fails, if there are *)
(* any, there is one all of whose proper subsets satisfy it.               *)
(***************************************************************************)
EXTENDS Billing, FiniteSetTheorems, WellFoundedInduction, TLAPS

\* The minimum due of any bill is between nothing and the whole bill, and
\* covers interest and fees: they are part of the total.
LEMMA MinDueBounds ==
    ASSUME NEW due \in Nat, NEW feesAndInterest \in 0 .. due
    PROVE  MinDue(due, feesAndInterest) \in feesAndInterest .. due
<1>1. FivePercent(due) \in Int
  BY DEF FivePercent, RoundedQuotient
<1>2. Larger(FivePercent(due), feesAndInterest) \in Int
  BY <1>1 DEF Larger
<1>3. Larger(FivePercent(due), feesAndInterest) >= feesAndInterest
  BY <1>1 DEF Larger
<1>4. QED
  BY <1>2, <1>3 DEF MinDue, Larger, Smaller, MinimumPayment

\* Interest is never negative: the clause that would reset it is not needed.
LEMMA InterestNonNegative ==
    ASSUME NEW balance \in Nat, NEW charges \in Nat
    PROVE  Interest(balance, charges) \in Nat
BY DEF Interest, RoundedQuotient

------------------------------------------------------------------------------
(* Sums *)

\* Of the subsets of a finite set for which a claim fails, if there are any,
\* there is one all of whose proper subsets satisfy it.
LEMMA Minimal ==
    ASSUME NEW S, IsFiniteSet(S), NEW B \in SUBSET SUBSET S, B # {}
    PROVE  \E T \in B : \A U \in B : U \subseteq T => U = T
<1>1. IsWellFoundedOn(StrictSubsetOrdering(S), SUBSET S)
  BY FS_StrictSubsetOrderingWellFounded, FS_FiniteSubsetsOfFinite
<1>2. \E T \in B : \A U \in B : <<U, T>> \notin StrictSubsetOrdering(S)
  BY <1>1, WFMin
<1>3. QED
  BY <1>2 DEF StrictSubsetOrdering

\* The sums over the subsets of S, each reached through one of its members.
Chosen(s) == CHOOSE x \in s : TRUE
Without(s) == s \ {Chosen(s)}
Sums(it, f, S) ==
    it = [s \in SUBSET S |-> IF s = {} THEN 0 ELSE f[Chosen(s)] + it[Without(s)]]

\* A set is smaller without the member that is chosen from it.
LEMMA ChosenIn ==
    ASSUME NEW s, s # {}
    PROVE  Chosen(s) \in s /\ Without(s) \subseteq s /\ Without(s) # s
BY DEF Chosen, Without

\* One step of the sums.
LEMMA SumsAt ==
    ASSUME NEW it, NEW f, NEW S, Sums(it, f, S), NEW s \in SUBSET S
    PROVE  it[s] = IF s = {} THEN 0 ELSE f[Chosen(s)] + it[Without(s)]
BY DEF Sums

\* Two sets agree on the sums over their common subsets.
LEMMA SumsAgree ==
    ASSUME NEW f, NEW S, NEW T, NEW it, NEW jt, Sums(it, f, S), Sums(jt, f, T),
           NEW s, IsFiniteSet(s), s \subseteq S, s \subseteq T
    PROVE  it[s] = jt[s]
<1> DEFINE B == {u \in SUBSET s : it[u] # jt[u]}
<1> SUFFICES ASSUME B # {} PROVE FALSE
  OBVIOUS
<1>1. PICK u \in B : \A w \in B : w \subseteq u => w = u
  <2>1. B \in SUBSET SUBSET s
    OBVIOUS
  <2> HIDE DEF B
  <2>2. QED
    BY <2>1, Minimal
<1>2. /\ it[u] = IF u = {} THEN 0 ELSE f[Chosen(u)] + it[Without(u)]
      /\ jt[u] = IF u = {} THEN 0 ELSE f[Chosen(u)] + jt[Without(u)]
  BY SumsAt
<1>3. CASE u = {}
  BY <1>2, <1>3
<1>4. CASE u # {}
  <2>1. Without(u) \in SUBSET s /\ Without(u) \notin B
    BY <1>1, <1>4, ChosenIn
  <2>2. QED
    BY <1>2, <1>4, <2>1
<1>5. QED
  BY <1>3, <1>4

\* A finite set has sums.
LEMMA SumsExist ==
    ASSUME NEW f, NEW S, IsFiniteSet(S)
    PROVE  \E it : Sums(it, f, S)
<1> DEFINE B == {T \in SUBSET S : ~ \E it : Sums(it, f, T)}
<1> SUFFICES ASSUME B # {} PROVE FALSE
  OBVIOUS
<1>1. PICK T \in B : \A u \in B : u \subseteq T => u = T
  <2>1. B \in SUBSET SUBSET S
    OBVIOUS
  <2> HIDE DEF B
  <2>2. QED
    BY <2>1, Minimal
<1> DEFINE h(u) == CHOOSE it : Sums(it, f, u)
           it == [s \in SUBSET T |->
                    IF s = {} THEN 0 ELSE f[Chosen(s)] + h(Without(s))[Without(s)]]
<1>2. ASSUME NEW u \in SUBSET T, u # T
      PROVE  Sums(h(u), f, u) /\ IsFiniteSet(u)
  <2>1. u \notin B /\ IsFiniteSet(u)
    BY <1>1, <1>2, FS_Subset
  <2>2. QED
    BY <2>1
<1>3. ASSUME NEW s \in SUBSET T, s # {}
      PROVE  it[Without(s)] = h(Without(s))[Without(s)]
  <2> DEFINE u == Without(s)
             w == Without(u)
  <2>1. u \in SUBSET T /\ u # T
    BY <1>3, ChosenIn
  <2>2. Sums(h(u), f, u) /\ IsFiniteSet(u)
    BY <1>2, <2>1
  <2>3. h(u)[u] = IF u = {} THEN 0 ELSE f[Chosen(u)] + h(u)[w]
    BY <2>2, SumsAt
  <2>4. it[u] = IF u = {} THEN 0 ELSE f[Chosen(u)] + h(w)[w]
    BY <2>1
  <2>5. u # {} => h(u)[w] = h(w)[w]
    <3> SUFFICES ASSUME u # {} PROVE h(u)[w] = h(w)[w]
      OBVIOUS
    <3>1. w \in SUBSET T /\ w # T /\ w \subseteq u
      BY <2>1, ChosenIn
    <3>2. Sums(h(w), f, w) /\ IsFiniteSet(w)
      BY <1>2, <3>1
    <3> HIDE DEF h, w, u
    <3>3. QED
      BY <2>2, <3>1, <3>2, SumsAgree
  <2> HIDE DEF h, it, w, u
  <2>6. it[u] = h(u)[u]
    BY <2>3, <2>4, <2>5
  <2>7. QED
    BY <2>6 DEF u
<1>4. Sums(it, f, T)
  <2>1. ASSUME NEW s \in SUBSET T
        PROVE  it[s] = IF s = {} THEN 0 ELSE f[Chosen(s)] + it[Without(s)]
    <3>1. it[s] = IF s = {} THEN 0 ELSE f[Chosen(s)] + h(Without(s))[Without(s)]
      OBVIOUS
    <3> HIDE DEF it, h
    <3>2. QED
      BY <1>3, <3>1
  <2>2. it = [s \in SUBSET T |-> it[s]]
    OBVIOUS
  <2> HIDE DEF it
  <2>3. QED
    BY <2>1, <2>2 DEF Sums
<1>5. QED
  BY <1>4

\* Total is the sum over the whole set.
LEMMA TotalIs ==
    ASSUME NEW f, NEW S, IsFiniteSet(S)
    PROVE  \E it : Sums(it, f, S) /\ Total(f, S) = it[S]
<1>1. Sums(CHOOSE it : Sums(it, f, S), f, S)
  BY SumsExist
<1>2. Total(f, S) = (CHOOSE it : Sums(it, f, S))[S]
  BY DEF Total, MapThenSumSet, MapThenFoldSet, Sums, Chosen, Without
<1>3. QED
  BY <1>1, <1>2

\* The sum over a set, from the sum over the set without one of its members.
LEMMA TotalStep ==
    ASSUME NEW f, NEW S, IsFiniteSet(S)
    PROVE  Total(f, S) = IF S = {} THEN 0 ELSE f[Chosen(S)] + Total(f, Without(S))
<1>1. PICK it : Sums(it, f, S) /\ Total(f, S) = it[S]
  BY TotalIs
<1>2. it[S] = IF S = {} THEN 0 ELSE f[Chosen(S)] + it[Without(S)]
  BY <1>1, SumsAt
<1>3. CASE S = {}
  BY <1>1, <1>2, <1>3
<1>4. CASE S # {}
  <2>1. Without(S) \subseteq S /\ IsFiniteSet(Without(S))
    BY <1>4, ChosenIn, FS_Subset
  <2>2. PICK jt : Sums(jt, f, Without(S)) /\ Total(f, Without(S)) = jt[Without(S)]
    BY <2>1, TotalIs
  <2>3. it[Without(S)] = jt[Without(S)]
    BY <1>1, <2>1, <2>2, SumsAgree
  <2>4. QED
    BY <1>1, <1>2, <1>4, <2>2, <2>3
<1>5. QED
  BY <1>3, <1>4

\* The sum of natural numbers is one.
LEMMA TotalNat ==
    ASSUME NEW f, NEW S, IsFiniteSet(S), \A x \in S : f[x] \in Nat
    PROVE  Total(f, S) \in Nat
<1> DEFINE B == {T \in SUBSET S : Total(f, T) \notin Nat}
<1> SUFFICES ASSUME B # {} PROVE FALSE
  OBVIOUS
<1>1. PICK T \in B : \A u \in B : u \subseteq T => u = T
  <2>1. B \in SUBSET SUBSET S
    OBVIOUS
  <2> HIDE DEF B
  <2>2. QED
    BY <2>1, Minimal
<1>2. Total(f, T) = IF T = {} THEN 0 ELSE f[Chosen(T)] + Total(f, Without(T))
  BY FS_Subset, TotalStep
<1>3. T # {}
  BY <1>1, <1>2
<1>4. Chosen(T) \in S /\ Without(T) \in SUBSET S /\ Without(T) \notin B
  BY <1>1, <1>3, ChosenIn
<1>5. f[Chosen(T)] \in Nat /\ Total(f, Without(T)) \in Nat
  BY <1>4
<1>6. QED
  BY <1>1, <1>2, <1>3, <1>5

\* Functions that agree on a set have the same sum over it.
LEMMA TotalSame ==
    ASSUME NEW f, NEW g, NEW S, IsFiniteSet(S), \A x \in S : f[x] = g[x]
    PROVE  Total(f, S) = Total(g, S)
<1> DEFINE B == {T \in SUBSET S : Total(f, T) # Total(g, T)}
<1> SUFFICES ASSUME B # {} PROVE FALSE
  OBVIOUS
<1>1. PICK T \in B : \A u \in B : u \subseteq T => u = T
  <2>1. B \in SUBSET SUBSET S
    OBVIOUS
  <2> HIDE DEF B
  <2>2. QED
    BY <2>1, Minimal
<1>2. /\ Total(f, T) = IF T = {} THEN 0 ELSE f[Chosen(T)] + Total(f, Without(T))
      /\ Total(g, T) = IF T = {} THEN 0 ELSE g[Chosen(T)] + Total(g, Without(T))
  BY FS_Subset, TotalStep
<1>3. T # {}
  BY <1>1, <1>2
<1>4. Chosen(T) \in S /\ Without(T) \in SUBSET S /\ Without(T) \notin B
  BY <1>1, <1>3, ChosenIn
<1>5. f[Chosen(T)] = g[Chosen(T)] /\ Total(f, Without(T)) = Total(g, Without(T))
  BY <1>4
<1>6. QED
  BY <1>1, <1>2, <1>3, <1>5

\* The order of the members does not matter: any of them can be taken out.
LEMMA TotalRemove ==
    ASSUME NEW f, NEW S, IsFiniteSet(S), \A x \in S : f[x] \in Nat, NEW y \in S
    PROVE  Total(f, S) = f[y] + Total(f, S \ {y})
<1> DEFINE B == {T \in SUBSET S : \E x \in T : Total(f, T) # f[x] + Total(f, T \ {x})}
<1> SUFFICES ASSUME B # {} PROVE FALSE
  OBVIOUS
<1>1. PICK T \in B : \A u \in B : u \subseteq T => u = T
  <2>1. B \in SUBSET SUBSET S
    OBVIOUS
  <2> HIDE DEF B
  <2>2. QED
    BY <2>1, Minimal
<1>2. \A u \in SUBSET S : IsFiniteSet(u) /\ Total(f, u) \in Nat
  <2>1. \A u \in SUBSET S : IsFiniteSet(u)
    BY FS_Subset
  <2>2. QED
    BY <2>1, TotalNat
<1>3. PICK x \in T : Total(f, T) # f[x] + Total(f, T \ {x})
  BY <1>1
<1> DEFINE p == Chosen(T)
<1>4. p \in T /\ Total(f, T) = f[p] + Total(f, T \ {p})
  BY <1>2, <1>3, ChosenIn, TotalStep DEF Without
<1> HIDE DEF p
<1>5. p # x
  BY <1>3, <1>4
<1> DEFINE u == T \ {p}
           w == T \ {x}
<1>6. Total(f, u) = f[x] + Total(f, u \ {x})
  <2>1. u \in SUBSET S /\ u \subseteq T /\ u # T /\ x \in u
    BY <1>3, <1>4, <1>5
  <2>2. u \notin B
    BY <1>1, <2>1
  <2>3. QED
    BY <2>1, <2>2
<1>7. Total(f, w) = f[p] + Total(f, w \ {p})
  <2>1. w \in SUBSET S /\ w \subseteq T /\ w # T /\ p \in w
    BY <1>3, <1>4, <1>5
  <2>2. w \notin B
    BY <1>1, <2>1
  <2>3. QED
    BY <2>1, <2>2
<1>8. w \ {p} = u \ {x} /\ w \ {p} \in SUBSET S
  OBVIOUS
<1>9. f[p] \in Nat /\ f[x] \in Nat /\ Total(f, w \ {p}) \in Nat
  BY <1>2, <1>3, <1>4, <1>8
<1>10. Total(f, T) = f[x] + Total(f, w)
  <2>1. PICK a \in Nat, b \in Nat, r \in Nat :
            a = f[p] /\ b = f[x] /\ r = Total(f, w \ {p})
    BY <1>9
  <2>2. Total(f, u) = b + r
    BY <1>6, <1>8, <2>1
  <2>3. Total(f, w) = a + r
    BY <1>7, <2>1
  <2>4. Total(f, T) = a + (b + r)
    BY <1>4, <2>1, <2>2
  <2> HIDE DEF u, w
  <2>5. QED
    BY <2>1, <2>3, <2>4
<1>11. QED
  BY <1>3, <1>10

------------------------------------------------------------------------------
(* What a bill amounts to *)

\* What a bill charges, without the balance it carries over.
Adds(g) == Charges(g) + ForeignFees(g) + InterestOf(g)

\* No bill carries a negative balance: there are no credits.
NonNegative == previous \in [Generations -> Nat]

\* All parts of a bill are whole paise, none of them negative.
LEMMA AmountsNat ==
    ASSUME TypeOK, NonNegative, NEW g \in Generations
    PROVE  /\ Charges(g) \in Nat /\ ForeignFees(g) \in Nat /\ InterestOf(g) \in Nat
           /\ Adds(g) \in Nat /\ TotalDue(g) = previous[g] + Adds(g)
           /\ TotalDue(g) \in Nat
<1>1. counted[g] \subseteq Txns /\ IsFiniteSet(counted[g])
  BY BillingAssumption, FS_Subset DEF TypeOK
<1>2. Charges(g) \in Nat
  <2>1. \A t \in counted[g] : Amount[t] \in Nat
    BY <1>1, BillingAssumption
  <2>2. QED
    BY <1>1, <2>1, TotalNat DEF Charges
<1>3. ForeignFees(g) \in Nat
  <2>1. \A t \in counted[g] : Fee[t] \in Nat
    BY <1>1, BillingAssumption
  <2>2. QED
    BY <1>1, <2>1, TotalNat DEF ForeignFees
<1>4. \A c : ChargesOn(g, c) \in Nat
  <2> TAKE c
  <2> DEFINE own == {t \in counted[g] : CardOf[t] = c}
  <2>1. IsFiniteSet(own) /\ \A t \in own : Amount[t] \in Nat
    BY <1>1, BillingAssumption, FS_Subset
  <2> HIDE DEF own
  <2>2. Total(Amount, own) \in Nat
    BY <2>1, TotalNat
  <2>3. QED
    BY <2>2 DEF ChargesOn, own
<1>5. InterestOf(g) \in Nat
  <2> DEFINE cards == CardsOf(Account(g))
             f == [c \in cards |-> Interest(previous[g], ChargesOn(g, c))]
  <2>1. IsFiniteSet(cards)
    BY BillingAssumption, FS_Subset DEF CardsOf
  <2>2. previous[g] \in Nat
    BY DEF NonNegative
  <2>3. \A c \in cards : f[c] \in Nat
    BY <1>4, <2>2, InterestNonNegative
  <2>4. InterestOf(g) = Total(f, cards)
    BY DEF InterestOf
  <2> HIDE DEF f, cards
  <2>5. QED
    BY <2>1, <2>3, <2>4, TotalNat
<1>6. previous[g] \in Nat
  BY DEF NonNegative
<1>7. QED
  BY <1>2, <1>3, <1>5, <1>6 DEF Adds, TotalDue

\* A generation's amounts depend on what it read, and on nothing else.
LEMMA AmountsKept ==
    ASSUME NEW g \in Generations, request' = request,
           previous'[g] = previous[g], counted'[g] = counted[g]
    PROVE  Adds(g)' = Adds(g) /\ TotalDue(g)' = TotalDue(g)
<1>1. Account(g)' = Account(g)
  BY DEF Account
<1>2. \A c : ChargesOn(g, c)' = ChargesOn(g, c)
  BY DEF ChargesOn
<1>3. Charges(g)' = Charges(g) /\ ForeignFees(g)' = ForeignFees(g)
  BY DEF Charges, ForeignFees
<1>4. InterestOf(g)' = InterestOf(g)
  BY <1>1, <1>2 DEF InterestOf, CardsOf
<1>5. QED
  BY <1>3, <1>4 DEF Adds, TotalDue

------------------------------------------------------------------------------
(* What holds of bills generated in any number at a time *)

\* A bill counts settled transactions of the cards of its account, of the days
\* of its window, and no others.
OfTheCycle ==
    \A g \in Generations : \A t \in counted[g] :
        t \in settled /\ AccountOf[CardOf[t]] = Account(g) /\ InWindow(DayOf[t], CycleEnd(g))

\* An answer that there is a bill, or that there are two, is true, and stays so.
AnswersTrue ==
    \A g \in Generations :
        /\ answer[g] = "GENERATED" <=> pc[g] = "billed"
        /\ answer[g] = "BILL_ALREADY_GENERATED" => BillsFor(Account(g), CycleEnd(g)) # {}
        /\ answer[g] = "INTERNAL_ERROR" => Cardinality(BillsFor(Account(g), CycleEnd(g))) >= 2

Names == Accounts \cup {"unknown account"}

\* An account has no more bills for a cycle than generations may run at a time:
\* once the first of them has committed, no other passes the check.
Alike(a, end) == {g \in Running \cup Bills : Account(g) = a /\ CycleEnd(g) = end}
AtMostRunning ==
    \A a \in Names, end \in MonthEnds : Cardinality(Alike(a, end)) <= MaxRunning

GInv == TypeOK /\ NonNegative /\ OfTheCycle /\ AnswersTrue /\ AtMostRunning

\* What is asked for never changes.
LEMMA RequestsKept ==
    ASSUME [Next]_vars
    PROVE  /\ request' = request
           /\ \A g : Account(g)' = Account(g) /\ CycleEnd(g)' = CycleEnd(g)
<1>1. request' = request
  BY DEF Next, Generate, Advance, Settle, Check, Arrives, ReadPrevious, ReadCard,
     Commit, Restart, Finished, vars
<1>2. QED
  BY <1>1 DEF Account, CycleEnd

\* The checks change nothing but the place and the answer of the request.
LEMMA CheckMoves ==
    ASSUME TypeOK, NEW g \in Generations, Check(g)
    PROVE  /\ UNCHANGED <<today, settled, request, generation>>
           /\ pc[g] = "idle"
           /\ \/ /\ pc' = [pc EXCEPT ![g] = "checked"] /\ answer' = answer
                 /\ BillsFor(Account(g), CycleEnd(g)) = {}
                 /\ Begin(g)
              \/ /\ pc' = [pc EXCEPT ![g] = "done"] /\ met' = met
                 /\ \E code \in {"INVALID_CYCLE_DATE", "ACCOUNT_NOT_FOUND",
                                 "BILL_ALREADY_GENERATED", "INTERNAL_ERROR"} :
                       /\ answer' = [answer EXCEPT ![g] = code]
                       /\ code = "BILL_ALREADY_GENERATED" =>
                             BillsFor(Account(g), CycleEnd(g)) # {}
                       /\ code = "INTERNAL_ERROR" =>
                             Cardinality(BillsFor(Account(g), CycleEnd(g))) \notin {0, 1}
<1>1. IsFiniteSet(BillsFor(Account(g), CycleEnd(g)))
  BY BillingAssumption, FS_Subset DEF BillsFor, BillsOf, Bills
<1>2. BillsFor(Account(g), CycleEnd(g)) # {} =>
          Cardinality(BillsFor(Account(g), CycleEnd(g))) # 0
  BY <1>1, FS_EmptySet
<1>3. QED
  BY <1>2 DEF Check, Arrives, Refuse, Begin

\* The steps of a request that is running read what its bill consists of.
LEMMA ReadPreviousMoves ==
    ASSUME TypeOK, NonNegative, NEW g \in Generations, ReadPrevious(g)
    PROVE  /\ pc[g] = "checked" /\ pc' = [pc EXCEPT ![g] = "reading"]
           /\ \E n \in Nat : previous' = [previous EXCEPT ![g] = n]
           /\ \E B \in SUBSET Generations : carries' = [carries EXCEPT ![g] = B]
           /\ UNCHANGED <<today, settled, request, answer, read, counted, met>>
<1>1. CASE BillsOf(Account(g)) = {} /\ UNCHANGED <<previous, carries>>
  <2>1. /\ previous' = [previous EXCEPT ![g] = previous[g]] /\ previous[g] \in Nat
        /\ carries' = [carries EXCEPT ![g] = carries[g]] /\ carries[g] \in SUBSET Generations
    BY <1>1 DEF NonNegative, TypeOK
  <2>2. QED
    BY <2>1 DEF ReadPrevious
<1>2. CASE \E b \in Latest(Account(g)) : Carry(g, b)
  <2>1. PICK b \in Latest(Account(g)) : Carry(g, b)
    BY <1>2
  <2>2. b \in Generations
    BY <2>1 DEF Latest, BillsOf, Bills
  <2>3. TotalDue(b) \in Nat /\ carries[b] \cup {b} \in SUBSET Generations
    BY <2>2, AmountsNat DEF TypeOK
  <2>4. /\ previous' = [previous EXCEPT ![g] = TotalDue(b)]
        /\ carries' = [carries EXCEPT ![g] = carries[b] \cup {b}]
    BY <2>1 DEF Carry
  <2>5. QED
    BY <2>3, <2>4 DEF ReadPrevious
<1>3. QED
  BY <1>1, <1>2 DEF ReadPrevious

\* The transactions of one more card, all of the cycle.
LEMMA ReadCardMoves ==
    ASSUME TypeOK, OfTheCycle, NEW g \in Generations, NEW c \in Cards, ReadCard(g, c)
    PROVE  /\ pc[g] = "reading"
           /\ UNCHANGED <<today, settled, request, pc, answer, previous, met, carries>>
           /\ \E cards \in SUBSET Cards : read' = [read EXCEPT ![g] = cards]
           /\ \E txns \in SUBSET Txns :
                /\ counted' = [counted EXCEPT ![g] = txns]
                /\ \A t \in txns : /\ t \in settled
                                   /\ AccountOf[CardOf[t]] = Account(g)
                                   /\ InWindow(DayOf[t], CycleEnd(g))
<1> DEFINE new == {t \in settled : CardOf[t] = c /\ InWindow(DayOf[t], CycleEnd(g))}
<1>1. AccountOf[c] = Account(g)
  BY DEF ReadCard, CardsOf
<1>2. counted[g] \cup new \in SUBSET Txns /\ read[g] \cup {c} \in SUBSET Cards
  BY DEF TypeOK
<1>3. \A t \in counted[g] \cup new : /\ t \in settled
                                     /\ AccountOf[CardOf[t]] = Account(g)
                                     /\ InWindow(DayOf[t], CycleEnd(g))
  BY <1>1 DEF OfTheCycle
<1>4. counted' = [counted EXCEPT ![g] = counted[g] \cup new]
      /\ read' = [read EXCEPT ![g] = read[g] \cup {c}]
  BY DEF ReadCard
<1> HIDE DEF new
<1>5. QED
  BY <1>2, <1>3, <1>4 DEF ReadCard, history

\* Nothing that an answer or a bill rests on is taken back.
LEMMA BillsStay ==
    ASSUME TypeOK, NonNegative, OfTheCycle, [Next]_vars
    PROVE  /\ Bills \subseteq Bills' /\ settled \subseteq settled'
           /\ \A b \in Bills : previous'[b] = previous[b] /\ counted'[b] = counted[b]
<1>1. CASE UNCHANGED vars
  BY <1>1 DEF vars, Bills
<1>2. ASSUME NEW d \in MonthEnds, Advance(d)
      PROVE  pc' = pc /\ settled' = settled /\ UNCHANGED <<previous, counted>>
  BY <1>2 DEF Advance, generation
<1>3. ASSUME NEW t \in Txns, Settle(t)
      PROVE  pc' = pc /\ settled' = settled \cup {t} /\ UNCHANGED <<previous, counted>>
  BY <1>3 DEF Settle, generation
<1>4. ASSUME NEW g \in Generations, Check(g)
      PROVE  /\ Bills \subseteq Bills' /\ settled \subseteq settled'
             /\ UNCHANGED <<previous, counted>>
  <2>1. /\ pc[g] = "idle" /\ settled' = settled /\ UNCHANGED <<previous, counted>>
        /\ \E place : pc' = [pc EXCEPT ![g] = place]
    BY <1>4, CheckMoves DEF generation
  <2>2. QED
    BY <2>1 DEF Bills, TypeOK
<1>5. ASSUME NEW g \in Generations, ReadPrevious(g)
      PROVE  /\ Bills \subseteq Bills' /\ settled \subseteq settled'
             /\ \A b \in Bills : previous'[b] = previous[b] /\ counted'[b] = counted[b]
  <2>1. /\ pc[g] = "checked" /\ settled' = settled /\ counted' = counted
        /\ pc' = [pc EXCEPT ![g] = "reading"]
        /\ \E n \in Nat : previous' = [previous EXCEPT ![g] = n]
    BY <1>5, ReadPreviousMoves
  <2>2. QED
    BY <2>1 DEF Bills, TypeOK
<1>6. ASSUME NEW g \in Generations, NEW c \in Cards, ReadCard(g, c)
      PROVE  /\ Bills \subseteq Bills' /\ settled \subseteq settled'
             /\ \A b \in Bills : previous'[b] = previous[b] /\ counted'[b] = counted[b]
  <2>1. /\ pc[g] = "reading" /\ settled' = settled /\ previous' = previous /\ pc' = pc
        /\ \E txns \in SUBSET Txns : counted' = [counted EXCEPT ![g] = txns]
    BY <1>6, ReadCardMoves
  <2>2. QED
    BY <2>1 DEF Bills, TypeOK
<1>7. ASSUME NEW g \in Generations, Commit(g)
      PROVE  /\ Bills \subseteq Bills' /\ settled \subseteq settled'
             /\ UNCHANGED <<previous, counted>>
  BY <1>7 DEF Commit, Bills, TypeOK, generation
<1>8. ASSUME Restart
      PROVE  /\ Bills \subseteq Bills' /\ settled \subseteq settled'
             /\ UNCHANGED <<previous, counted>>
  BY <1>8 DEF Restart, Bills, Running, TypeOK, generation
<1>9. ASSUME Finished PROVE UNCHANGED vars
  BY <1>9 DEF Finished
<1>10. QED
  BY <1>1, <1>2, <1>3, <1>4, <1>5, <1>6, <1>7, <1>8, <1>9 DEF Next, Generate, Bills

\* A step keeps the types, and what a bill counts inside its cycle.
LEMMA TypeStep ==
    ASSUME TypeOK, NonNegative, OfTheCycle, [Next]_vars
    PROVE  TypeOK' /\ NonNegative' /\ OfTheCycle'
<1>1. /\ request' = request
      /\ \A g : Account(g)' = Account(g) /\ CycleEnd(g)' = CycleEnd(g)
  BY RequestsKept
<1>2. CASE UNCHANGED vars
  BY <1>1, <1>2 DEF vars, history, TypeOK, NonNegative, OfTheCycle
<1>3. ASSUME NEW d \in MonthEnds, Advance(d)
      PROVE  TypeOK' /\ NonNegative' /\ OfTheCycle'
  BY <1>1, <1>3, BillingAssumption DEF Advance, generation, TypeOK, NonNegative, OfTheCycle
<1>4. ASSUME NEW t \in Txns, Settle(t)
      PROVE  TypeOK' /\ NonNegative' /\ OfTheCycle'
  BY <1>1, <1>4 DEF Settle, generation, TypeOK, NonNegative, OfTheCycle
<1>5. ASSUME NEW g \in Generations, Check(g)
      PROVE  TypeOK' /\ NonNegative' /\ OfTheCycle'
  <2>1. /\ UNCHANGED <<today, settled, request, previous, read, counted, carries>>
        /\ \E place \in {"checked", "done"} : pc' = [pc EXCEPT ![g] = place]
        /\ \/ answer' = answer
           \/ \E code \in {"INVALID_CYCLE_DATE", "ACCOUNT_NOT_FOUND",
                           "BILL_ALREADY_GENERATED", "INTERNAL_ERROR"} :
                 answer' = [answer EXCEPT ![g] = code]
    BY <1>5, CheckMoves DEF generation
  <2>2. met' \in [Generations -> SUBSET Generations]
    <3>1. met' = met \/ Begin(g)
      BY <1>5, CheckMoves
    <3>2. Running \in SUBSET Generations
      BY DEF Running
    <3>3. QED
      BY <3>1, <3>2 DEF Begin, TypeOK
  <2>3. pc' \in [Generations -> {"idle", "checked", "reading", "billed", "done"}]
    BY <2>1 DEF TypeOK
  <2>4. answer' \in [Generations ->
                        {"none", "GENERATED", "INVALID_CYCLE_DATE", "ACCOUNT_NOT_FOUND",
                         "BILL_ALREADY_GENERATED", "INTERNAL_ERROR", "NO_RESPONSE"}]
    BY <2>1 DEF TypeOK
  <2>5. TypeOK'
    BY <2>1, <2>2, <2>3, <2>4 DEF TypeOK
  <2>6. NonNegative' /\ OfTheCycle'
    BY <1>1, <2>1 DEF NonNegative, OfTheCycle
  <2>7. QED
    BY <2>5, <2>6
<1>6. ASSUME NEW g \in Generations, ReadPrevious(g)
      PROVE  TypeOK' /\ NonNegative' /\ OfTheCycle'
  <2>1. PICK n \in Nat : previous' = [previous EXCEPT ![g] = n]
    BY <1>6, ReadPreviousMoves
  <2>2. /\ pc' = [pc EXCEPT ![g] = "reading"]
        /\ \E B \in SUBSET Generations : carries' = [carries EXCEPT ![g] = B]
        /\ UNCHANGED <<today, settled, request, answer, read, counted, met>>
    BY <1>6, ReadPreviousMoves
  <2>3. NonNegative' /\ previous' \in [Generations -> Int]
    BY <2>1 DEF NonNegative
  <2>4. /\ carries' \in [Generations -> SUBSET Generations]
        /\ pc' \in [Generations -> {"idle", "checked", "reading", "billed", "done"}]
    BY <2>2 DEF TypeOK
  <2>5. TypeOK'
    BY <2>2, <2>3, <2>4 DEF TypeOK
  <2>6. OfTheCycle'
    BY <1>1, <2>2 DEF OfTheCycle
  <2>7. QED
    BY <2>3, <2>5, <2>6
<1>7. ASSUME NEW g \in Generations, NEW c \in Cards, ReadCard(g, c)
      PROVE  TypeOK' /\ NonNegative' /\ OfTheCycle'
  <2>1. UNCHANGED <<today, settled, request, pc, answer, previous, met, carries>>
    BY <1>7, ReadCardMoves
  <2>2. PICK cards \in SUBSET Cards : read' = [read EXCEPT ![g] = cards]
    BY <1>7, ReadCardMoves
  <2>3. PICK txns \in SUBSET Txns :
          /\ counted' = [counted EXCEPT ![g] = txns]
          /\ \A t \in txns : /\ t \in settled
                             /\ AccountOf[CardOf[t]] = Account(g)
                             /\ InWindow(DayOf[t], CycleEnd(g))
    BY <1>7, ReadCardMoves
  <2>4. TypeOK' /\ NonNegative'
    BY <2>1, <2>2, <2>3 DEF TypeOK, NonNegative
  <2>5. OfTheCycle'
    BY <1>1, <2>1, <2>3 DEF TypeOK, OfTheCycle
  <2>6. QED
    BY <2>4, <2>5
<1>8. ASSUME NEW g \in Generations, Commit(g)
      PROVE  TypeOK' /\ NonNegative' /\ OfTheCycle'
  BY <1>1, <1>8 DEF Commit, generation, TypeOK, NonNegative, OfTheCycle
<1>9. ASSUME Restart
      PROVE  TypeOK' /\ NonNegative' /\ OfTheCycle'
  BY <1>1, <1>9 DEF Restart, generation, TypeOK, NonNegative, OfTheCycle
<1>10. ASSUME Finished PROVE UNCHANGED vars
  BY <1>10 DEF Finished
<1>11. QED
  BY <1>2, <1>3, <1>4, <1>5, <1>6, <1>7, <1>8, <1>9, <1>10 DEF Next, Generate

\* The bills for a cycle only become more.
LEMMA BillsForGrow ==
    ASSUME GInv, [Next]_vars, NEW g
    PROVE  /\ BillsFor(Account(g), CycleEnd(g))' \subseteq Generations
           /\ BillsFor(Account(g), CycleEnd(g)) \subseteq BillsFor(Account(g), CycleEnd(g))'
           /\ Cardinality(BillsFor(Account(g), CycleEnd(g))) \in Nat
           /\ Cardinality(BillsFor(Account(g), CycleEnd(g))') \in Nat
           /\ Cardinality(BillsFor(Account(g), CycleEnd(g)))
                  <= Cardinality(BillsFor(Account(g), CycleEnd(g))')
<1> DEFINE S == BillsFor(Account(g), CycleEnd(g))
<1>1. \A h : Account(h)' = Account(h) /\ CycleEnd(h)' = CycleEnd(h)
  BY RequestsKept
<1>2. Bills \subseteq Bills'
  BY BillsStay DEF GInv
<1>3. S' \subseteq Generations /\ S \subseteq S'
  BY <1>1, <1>2 DEF BillsFor, BillsOf, Bills
<1>4. IsFiniteSet(S') /\ IsFiniteSet(S)
  BY <1>3, BillingAssumption, FS_Subset
<1>5. Cardinality(S) \in Nat /\ Cardinality(S') \in Nat /\ Cardinality(S) <= Cardinality(S')
  <2>1. PICK T : T = S'
    OBVIOUS
  <2>2. QED
    BY <1>3, <1>4, <2>1, FS_Subset, FS_CardinalityType
<1>6. QED
  BY <1>3, <1>5

\* An answer is given once, and the bills it tells of do not go away.
LEMMA AnswersStep ==
    ASSUME GInv, [Next]_vars
    PROVE  AnswersTrue'
<1> SUFFICES ASSUME NEW g \in Generations
             PROVE  /\ answer'[g] = "GENERATED" <=> pc'[g] = "billed"
                    /\ answer'[g] = "BILL_ALREADY_GENERATED" =>
                          BillsFor(Account(g), CycleEnd(g))' # {}
                    /\ answer'[g] = "INTERNAL_ERROR" =>
                          Cardinality(BillsFor(Account(g), CycleEnd(g))') >= 2
  BY DEF AnswersTrue
<1> DEFINE S == BillsFor(Account(g), CycleEnd(g))
           Asked == answer'[g] = answer[g] /\ (pc'[g] = "billed" <=> pc[g] = "billed")
           Answered == /\ pc'[g] # "billed" /\ answer'[g] # "GENERATED"
                       /\ answer'[g] = "BILL_ALREADY_GENERATED" => S # {}
                       /\ answer'[g] = "INTERNAL_ERROR" => Cardinality(S) \notin {0, 1}
           Billed == pc'[g] = "billed" /\ answer'[g] = "GENERATED"
<1>1. /\ S \subseteq S'
      /\ Cardinality(S) \in Nat /\ Cardinality(S') \in Nat /\ Cardinality(S) <= Cardinality(S')
  BY BillsForGrow
<1>2. /\ answer[g] = "GENERATED" <=> pc[g] = "billed"
      /\ answer[g] = "BILL_ALREADY_GENERATED" => S # {}
      /\ answer[g] = "INTERNAL_ERROR" => Cardinality(S) >= 2
  BY DEF GInv, AnswersTrue
<1>3. SUFFICES Asked \/ Answered \/ Billed
  <2>1. PICK old, new : old = S /\ new = S'
    OBVIOUS
  <2>2. Cardinality(old) \in {0, 1} \/ Cardinality(old) >= 2
    BY <1>1, <2>1
  <2>3. QED
    BY <1>1, <1>2, <1>3, <2>1, <2>2
<1> USE DEF GInv
<1>4. ASSUME pc' = pc, answer' = answer PROVE Asked
  BY <1>4
<1>5. ASSUME NEW h \in Generations, Check(h) PROVE Asked \/ Answered
  <2>1. \/ pc' = [pc EXCEPT ![h] = "checked"] /\ answer' = answer /\ pc[h] = "idle"
        \/ /\ pc' = [pc EXCEPT ![h] = "done"]
           /\ \E code \in {"INVALID_CYCLE_DATE", "ACCOUNT_NOT_FOUND",
                           "BILL_ALREADY_GENERATED", "INTERNAL_ERROR"} :
                 /\ answer' = [answer EXCEPT ![h] = code]
                 /\ code = "BILL_ALREADY_GENERATED" => BillsFor(Account(h), CycleEnd(h)) # {}
                 /\ code = "INTERNAL_ERROR" =>
                       Cardinality(BillsFor(Account(h), CycleEnd(h))) \notin {0, 1}
    BY <1>5, CheckMoves
  <2>2. CASE g # h
    BY <2>1, <2>2 DEF TypeOK
  <2>3. CASE g = h
    BY <2>1, <2>3 DEF TypeOK
  <2>4. QED
    BY <2>2, <2>3
<1>6. ASSUME NEW h \in Generations, ReadPrevious(h) PROVE Asked
  BY <1>6, ReadPreviousMoves DEF TypeOK
<1>7. ASSUME NEW h \in Generations, NEW c \in Cards, ReadCard(h, c)
      PROVE  pc' = pc /\ answer' = answer
  BY <1>7, ReadCardMoves
<1>8. ASSUME NEW h \in Generations, Commit(h) PROVE Asked \/ Billed
  BY <1>8 DEF Commit, TypeOK
<1>9. ASSUME Restart PROVE Asked \/ Answered
  BY <1>9 DEF Restart, Running, TypeOK
<1>10. ASSUME \/ \E d \in MonthEnds : Advance(d)
              \/ \E t \in Txns : Settle(t)
              \/ Finished \/ UNCHANGED vars
       PROVE  pc' = pc /\ answer' = answer
  BY <1>10 DEF Advance, Settle, Finished, vars
<1>11. QED
  BY <1>4, <1>5, <1>6, <1>7, <1>8, <1>9, <1>10 DEF Next, Generate

\* Only a check lets a generation begin; it found no bill of its cycle, and
\* less than MaxRunning others running, all of which it has met.
LEMMA Beginning ==
    ASSUME GInv, [Next]_vars
    PROVE  \/ /\ Running' \subseteq Running /\ Running' \cup Bills' \subseteq Running \cup Bills
              /\ met' = met
           \/ \E g \in Generations : /\ Running' = Running \cup {g} /\ Bills' = Bills
                                     /\ g \notin Running \cup Bills
                                     /\ BillsFor(Account(g), CycleEnd(g)) = {}
                                     /\ Cardinality(Running) < MaxRunning
                                     /\ Begin(g)
<1> DEFINE Less == /\ Running' \subseteq Running
                   /\ Running' \cup Bills' \subseteq Running \cup Bills
<1> USE DEF GInv
<1>1. ASSUME pc' = pc PROVE Less
  BY <1>1 DEF Running, Bills
<1>2. ASSUME NEW g \in Generations, Check(g)
      PROVE  \/ Less /\ met' = met
             \/ /\ Running' = Running \cup {g} /\ Bills' = Bills
                /\ g \notin Running \cup Bills
                /\ BillsFor(Account(g), CycleEnd(g)) = {}
                /\ Cardinality(Running) < MaxRunning
                /\ Begin(g)
  <2>1. /\ pc[g] = "idle" /\ Cardinality(Running) < MaxRunning
        /\ \/ /\ pc' = [pc EXCEPT ![g] = "checked"]
              /\ BillsFor(Account(g), CycleEnd(g)) = {}
              /\ Begin(g)
           \/ pc' = [pc EXCEPT ![g] = "done"] /\ met' = met
    BY <1>2, CheckMoves DEF Check, Arrives
  <2>2. QED
    BY <2>1 DEF Running, Bills, TypeOK
<1>3. ASSUME NEW g \in Generations, ReadPrevious(g) PROVE Less /\ met' = met
  BY <1>3, ReadPreviousMoves DEF Running, Bills, TypeOK
<1>4. ASSUME NEW g \in Generations, NEW c \in Cards, ReadCard(g, c)
      PROVE  pc' = pc /\ met' = met
  BY <1>4, ReadCardMoves
<1>5. ASSUME NEW g \in Generations, Commit(g) PROVE Less /\ met' = met
  BY <1>5 DEF Commit, Running, Bills, TypeOK
<1>6. ASSUME Restart PROVE Less /\ met' = met
  BY <1>6 DEF Restart, Running, Bills, TypeOK
<1>7. ASSUME \/ \E d \in MonthEnds : Advance(d)
             \/ \E t \in Txns : Settle(t)
             \/ Finished \/ UNCHANGED vars
      PROVE  pc' = pc /\ met' = met
  BY <1>7 DEF Advance, Settle, Finished, vars, history
<1>8. QED
  BY <1>1, <1>2, <1>3, <1>4, <1>5, <1>6, <1>7 DEF Next, Generate

\* A step keeps the number of bills for a cycle within bounds.
LEMMA AtMostStep ==
    ASSUME GInv, [Next]_vars
    PROVE  AtMostRunning'
<1> SUFFICES ASSUME NEW a \in Names, NEW end \in MonthEnds
             PROVE  Cardinality(Alike(a, end)') <= MaxRunning
  BY DEF AtMostRunning
<1>1. \A h : Account(h)' = Account(h) /\ CycleEnd(h)' = CycleEnd(h)
  BY RequestsKept
<1>2. /\ IsFiniteSet(Alike(a, end)) /\ Cardinality(Alike(a, end)) \in Nat
      /\ Cardinality(Alike(a, end)) <= MaxRunning
  BY BillingAssumption, FS_Subset, FS_CardinalityType
     DEF GInv, AtMostRunning, Alike, Running, Bills
<1>3. IsFiniteSet(Running) /\ Cardinality(Running) \in Nat /\ MaxRunning \in Nat
  BY BillingAssumption, FS_Subset, FS_CardinalityType DEF Running
<1>4. ASSUME NEW T, T = Alike(a, end)', T \subseteq Alike(a, end)
      PROVE  Cardinality(T) <= MaxRunning
  <2>1. IsFiniteSet(T) /\ Cardinality(T) \in Nat /\ Cardinality(T) <= Cardinality(Alike(a, end))
    BY <1>2, <1>4, FS_Subset, FS_CardinalityType
  <2>2. QED
    BY <1>2, <1>3, <2>1
<1>5. PICK T : T = Alike(a, end)'
  OBVIOUS
<1>6. CASE Running' \cup Bills' \subseteq Running \cup Bills
  <2>1. T \subseteq Alike(a, end)
    BY <1>1, <1>5, <1>6 DEF Alike
  <2>2. QED
    BY <1>4, <1>5, <2>1
<1>7. ASSUME NEW g \in Generations,
             Running' = Running \cup {g}, Bills' = Bills, g \notin Running \cup Bills,
             BillsFor(Account(g), CycleEnd(g)) = {}, Cardinality(Running) < MaxRunning
      PROVE  Cardinality(T) <= MaxRunning
  <2>1. CASE Account(g) = a /\ CycleEnd(g) = end
    <3>1. T \subseteq Running \cup {g}
      BY <1>1, <1>5, <1>7, <2>1 DEF Alike, BillsFor, BillsOf
    <3>2. /\ IsFiniteSet(Running \cup {g})
          /\ Cardinality(Running \cup {g}) = Cardinality(Running) + 1
      BY <1>3, <1>7, FS_AddElement
    <3>3. Cardinality(T) \in Nat /\ Cardinality(T) <= Cardinality(Running \cup {g})
      BY <3>1, <3>2, FS_Subset, FS_CardinalityType
    <3>4. QED
      BY <1>3, <1>7, <3>2, <3>3
  <2>2. CASE ~(Account(g) = a /\ CycleEnd(g) = end)
    <3>1. T \subseteq Alike(a, end)
      BY <1>1, <1>5, <1>7, <2>2 DEF Alike
    <3>2. QED
      BY <1>4, <1>5, <3>1
  <2>3. QED
    BY <2>1, <2>2
<1>8. QED
  BY <1>5, <1>6, <1>7, Beginning

\* Nothing is billed at first.
LEMMA GInvStart == Init => GInv
<1> SUFFICES ASSUME Init PROVE GInv
  OBVIOUS
<1>1. TypeOK /\ NonNegative /\ OfTheCycle
  BY DEF Init, TypeOK, NonNegative, OfTheCycle
<1>2. AnswersTrue
  BY DEF Init, AnswersTrue
<1>3. Running = {} /\ Bills = {}
  BY DEF Init, Running, Bills
<1>4. \A a, end : Alike(a, end) = {}
  BY <1>3 DEF Alike
<1>5. AtMostRunning
  <2>1. \A a, end : Cardinality(Alike(a, end)) = 0
    BY <1>4, FS_EmptySet
  <2>2. MaxRunning \in Nat
    BY BillingAssumption, Zenon
  <2>3. QED
    BY <2>1, <2>2 DEF AtMostRunning
<1>6. QED
  BY <1>1, <1>2, <1>5 DEF GInv

\* What holds of bills generated in any number at a time, in every state.
THEOREM Generally == Spec => []GInv
<1>1. GInv /\ [Next]_vars => GInv'
  BY TypeStep, AnswersStep, AtMostStep DEF GInv
<1>2. QED
  BY GInvStart, <1>1, PTL DEF Spec

\* Every row that a generation reads and every value it writes has its type.
THEOREM TypeCorrect == Spec => []TypeOK
<1>1. GInv => TypeOK
  BY DEF GInv
<1>2. QED
  BY Generally, <1>1, PTL

\* What a request is answered of the bills of its cycle is true, and stays so.
THEOREM AnswersAreTrue == Spec => []AnswersTrue
<1>1. GInv => AnswersTrue
  BY DEF GInv
<1>2. QED
  BY Generally, <1>1, PTL

\* The race of generate_bill with itself makes no more bills for a cycle than
\* generations run at a time, whatever the number of requests.
BillsBounded ==
    \A a \in Names, end \in MonthEnds : Cardinality(BillsFor(a, end)) <= MaxRunning

THEOREM RaceIsBounded == Spec => []BillsBounded
<1>1. ASSUME GInv, NEW a \in Names, NEW end \in MonthEnds
      PROVE  Cardinality(BillsFor(a, end)) <= MaxRunning
  <2>1. /\ BillsFor(a, end) \subseteq Alike(a, end)
        /\ IsFiniteSet(Alike(a, end))
    BY BillingAssumption, FS_Subset DEF BillsFor, BillsOf, Alike, Running, Bills
  <2>2. Cardinality(Alike(a, end)) <= MaxRunning
    BY <1>1 DEF GInv, AtMostRunning
  <2>3. /\ Cardinality(BillsFor(a, end)) \in Nat /\ Cardinality(Alike(a, end)) \in Nat
        /\ Cardinality(BillsFor(a, end)) <= Cardinality(Alike(a, end))
    BY <2>1, FS_Subset, FS_CardinalityType
  <2>4. MaxRunning \in Nat
    BY BillingAssumption, Zenon
  <2>5. QED
    BY <2>2, <2>3, <2>4
<1>2. GInv => BillsBounded
  BY <1>1 DEF BillsBounded
<1>3. QED
  BY Generally, <1>2, PTL

\* A bill never demands less than its interest and fees, nor more than all of it.
MinimumDue ==
    \A b \in Bills : MinPaymentDue(b) \in InterestOf(b) + ForeignFees(b) .. TotalDue(b)

\* MinDueBounds, for every bill that was committed.
THEOREM MinimumIsFair == Spec => []MinimumDue
<1>1. ASSUME GInv, NEW b \in Bills
      PROVE  MinPaymentDue(b) \in InterestOf(b) + ForeignFees(b) .. TotalDue(b)
  <2>1. b \in Generations
    BY DEF Bills
  <2>2. /\ Charges(b) \in Nat /\ ForeignFees(b) \in Nat /\ InterestOf(b) \in Nat
        /\ TotalDue(b) = previous[b] + Adds(b) /\ TotalDue(b) \in Nat
        /\ previous[b] \in Nat
    BY <1>1, <2>1, AmountsNat DEF GInv, NonNegative
  <2>3. InterestOf(b) + ForeignFees(b) \in 0 .. TotalDue(b)
    BY <2>2 DEF Adds
  <2>4. QED
    BY <2>2, <2>3, MinDueBounds DEF MinPaymentDue
<1>2. GInv => MinimumDue
  BY <1>1 DEF MinimumDue
<1>3. QED
  BY Generally, <1>2, PTL

------------------------------------------------------------------------------
(* Months and windows *)

\* A set of natural numbers that is not empty has a least element.
LEMMA LeastNumber ==
    ASSUME NEW T \in SUBSET Nat, T # {}
    PROVE  \E m \in T : \A k \in T : m <= k
<1>1. PICK m \in T : \A k \in T : <<k, m>> \notin OpToRel(<, Nat)
  BY NatLessThanWellFounded, WFMin, Zenon
<1>2. \A k \in T : ~(k < m)
  BY <1>1, Zenon DEF OpToRel
<1>3. QED
  BY <1>2

\* Every date that a bill is asked for is in a month that has an end.
LEMMA EndOfMonth ==
    ASSUME TypeOK, NEW g \in Generations
    PROVE  CycleEnd(g) \in MonthEnds /\ CycleEnd(g) \in Nat
<1>1. PICK date \in Dates : date = request[g].date
  BY DEF TypeOK, Request
<1> DEFINE ends == {e \in MonthEnds : date <= e}
<1>2. ends \in SUBSET Nat /\ ends # {}
  BY BillingAssumption
<1>3. PICK e \in ends : \A f \in ends : e <= f
  <2> HIDE DEF ends
  <2>1. QED
    BY <1>2, LeastNumber
<1>4. e \in MonthEnds /\ date <= e /\ \A f \in MonthEnds : date <= f => e <= f
  BY <1>3
<1>5. CycleEnd(g) \in MonthEnds
  BY <1>1, <1>4 DEF CycleEnd
<1>6. MonthEnds \subseteq Nat
  BY BillingAssumption, Zenon
<1>7. QED
  BY <1>5, <1>6

\* A day is in the windows of two months at most.
LEMMA TwoWindows ==
    ASSUME NEW day \in Nat
    PROVE  \E d, e : \A f \in MonthEnds : InWindow(day, f) => f \in {d, e}
<1>1. MonthEnds \subseteq Nat /\ \A d, e \in MonthEnds : d < e => d + 28 <= e
  BY BillingAssumption, Zenon
<1> DEFINE W == {f \in MonthEnds : InWindow(day, f)}
<1>2. \A f \in W : f \in Nat /\ f - 30 <= day /\ day < f
  BY <1>1 DEF InWindow, CycleDays
<1>3. ASSUME NEW d \in W, NEW e \in W, d # e, NEW f \in W, f # d, f # e
      PROVE  FALSE
  <2>1. /\ d < e \/ e < d
        /\ d < f \/ f < d
        /\ e < f \/ f < e
    BY <1>2, <1>3
  <2>2. /\ d < e => d + 28 <= e
        /\ e < d => e + 28 <= d
        /\ d < f => d + 28 <= f
        /\ f < d => f + 28 <= d
        /\ e < f => e + 28 <= f
        /\ f < e => f + 28 <= e
    BY <1>1
  <2> HIDE DEF W
  <2>3. QED
    BY <1>2, <2>1, <2>2
<1>4. CASE \E d, e \in W : d # e
  BY <1>3, <1>4
<1>5. CASE ~ \E d, e \in W : d # e
  BY <1>5
<1>6. QED
  BY <1>4, <1>5

\* A transaction is on no more than two bills for each generation that may run
\* at a time.
BilledAtMost == \A t \in Txns : Cardinality({b \in Bills : t \in counted[b]}) <= 2 * MaxRunning

\* The bills of a transaction are those of the cycles it is in the windows of.
LEMMA BilledByWindows == GInv => BilledAtMost
<1> SUFFICES ASSUME GInv, NEW t \in Txns
             PROVE  Cardinality({b \in Bills : t \in counted[b]}) <= 2 * MaxRunning
  BY DEF BilledAtMost
<1>1. PICK S : S = {b \in Bills : t \in counted[b]}
  OBVIOUS
<1>2. PICK a \in Accounts : a = AccountOf[CardOf[t]]
  BY BillingAssumption
<1>3. DayOf[t] \in Nat
  BY BillingAssumption
<1>4. PICK d, e : \A f \in MonthEnds : InWindow(DayOf[t], f) => f \in {d, e}
  BY <1>3, TwoWindows
<1>5. ASSUME NEW b \in S
      PROVE  /\ Account(b) = a /\ CycleEnd(b) \in MonthEnds
             /\ CycleEnd(b) \in {d, e}
  <2>1. b \in Generations /\ t \in counted[b]
    BY <1>1 DEF Bills
  <2>2. Account(b) = a /\ InWindow(DayOf[t], CycleEnd(b))
    BY <1>2, <2>1 DEF GInv, OfTheCycle
  <2>3. QED
    BY <1>4, <2>1, <2>2, EndOfMonth DEF GInv
<1> DEFINE P(end) == {b \in S : CycleEnd(b) = end}
<1>6. ASSUME NEW end
      PROVE  /\ IsFiniteSet(P(end)) /\ Cardinality(P(end)) \in Nat
             /\ Cardinality(P(end)) <= MaxRunning
  <2>1. P(end) \subseteq Generations /\ IsFiniteSet(P(end)) /\ Cardinality(P(end)) \in Nat
    BY <1>1, BillingAssumption, FS_Subset, FS_CardinalityType DEF Bills
  <2>2. MaxRunning \in Nat
    BY BillingAssumption, Zenon
  <2>3. CASE P(end) = {}
    BY <2>2, <2>3, FS_EmptySet
  <2>4. CASE P(end) # {}
    <3>1. a \in Names /\ end \in MonthEnds /\ P(end) \subseteq Alike(a, end)
      BY <1>1, <1>5, <2>4 DEF Alike, Names
    <3>2. IsFiniteSet(Alike(a, end)) /\ Cardinality(Alike(a, end)) \in Nat
      BY BillingAssumption, FS_Subset, FS_CardinalityType DEF Alike, Running, Bills
    <3>3. Cardinality(Alike(a, end)) <= MaxRunning
      BY <3>1 DEF GInv, AtMostRunning
    <3>4. Cardinality(P(end)) <= Cardinality(Alike(a, end))
      BY <3>1, <3>2, FS_Subset
    <3>5. QED
      BY <2>1, <2>2, <3>2, <3>3, <3>4
  <2>5. QED
    BY <2>1, <2>3, <2>4
<1>7. S = P(d) \cup P(e)
  BY <1>5
<1> HIDE DEF P
<1>8. /\ Cardinality(S) = Cardinality(P(d)) + Cardinality(P(e)) - Cardinality(P(d) \cap P(e))
      /\ Cardinality(P(d) \cap P(e)) \in Nat
  <2>1. IsFiniteSet(P(d)) /\ IsFiniteSet(P(e)) /\ IsFiniteSet(P(d) \cap P(e))
    BY <1>6, FS_Intersection
  <2>2. QED
    BY <1>7, <2>1, FS_Union, FS_CardinalityType
<1>9. MaxRunning \in Nat
  BY BillingAssumption, Zenon
<1>10. Cardinality(S) <= 2 * MaxRunning
  <2>1. /\ Cardinality(P(d)) \in Nat /\ Cardinality(P(d)) <= MaxRunning
        /\ Cardinality(P(e)) \in Nat /\ Cardinality(P(e)) <= MaxRunning
    BY <1>6
  <2>2. QED
    BY <1>8, <1>9, <2>1
<1>11. QED
  BY <1>1, <1>10

\* Windows of 30 days on months of 28 days or more overlap two by two at most,
\* and each of the two cycles has at most MaxRunning bills.
THEOREM BilledByRunning == Spec => []BilledAtMost
BY Generally, BilledByWindows, PTL

\* Of the months that a day is billed in there are two at most.
THEOREM TwoCycles == Spec => []BilledInTwoCycles
<1>1. ASSUME GInv, NEW t \in Txns
      PROVE  Cardinality({CycleEnd(b) : b \in {g \in Bills : t \in counted[g]}}) <= 2
  <2>1. PICK S : S = {CycleEnd(b) : b \in {g \in Bills : t \in counted[g]}}
    OBVIOUS
  <2>2. DayOf[t] \in Nat
    BY BillingAssumption
  <2>3. PICK d, e : \A f \in MonthEnds : InWindow(DayOf[t], f) => f \in {d, e}
    BY <2>2, TwoWindows
  <2>4. ASSUME NEW b \in Bills, t \in counted[b]
        PROVE  CycleEnd(b) \in {d, e}
    <3>1. b \in Generations
      BY DEF Bills
    <3>2. InWindow(DayOf[t], CycleEnd(b)) /\ CycleEnd(b) \in MonthEnds
      BY <1>1, <2>4, <3>1, EndOfMonth DEF GInv, OfTheCycle
    <3>3. QED
      BY <2>3, <3>2
  <2>5. S \subseteq {d, e}
    BY <2>1, <2>4
  <2>6. /\ IsFiniteSet({d, e}) /\ Cardinality({d, e}) \in {1, 2}
    <3>1. IsFiniteSet({d}) /\ Cardinality({d}) = 1 /\ {d, e} = {d} \cup {e}
      BY FS_Singleton
    <3>2. CASE d = e
      BY <3>1, <3>2
    <3>3. CASE d # e
      <4>1. IsFiniteSet({d} \cup {e}) /\ Cardinality({d} \cup {e}) = 1 + 1
        BY <3>1, <3>3, FS_AddElement
      <4>2. QED
        BY <3>1, <4>1
    <3>4. QED
      BY <3>2, <3>3
  <2>7. Cardinality(S) \in Nat /\ Cardinality(S) <= Cardinality({d, e})
    BY <2>5, <2>6, FS_Subset, FS_CardinalityType
  <2>8. QED
    BY <2>1, <2>6, <2>7
<1>2. GInv => BilledInTwoCycles
  BY <1>1 DEF BilledInTwoCycles
<1>3. QED
  BY Generally, <1>2, PTL

------------------------------------------------------------------------------
(* Which generations ran together *)

SameBill(g, h) == Account(g) = Account(h) /\ CycleEnd(g) = CycleEnd(h)

\* Generations that run have met, and so have those of one bill.
MetInv ==
    \A g, h \in Running \cup Bills :
        /\ g # h
        /\ (g \in Running /\ h \in Running) \/ SameBill(g, h)
        => h \in met[g]

\* A generation that begins meets those that run; there is no bill like its own.
LEMMA MetStep ==
    ASSUME GInv, MetInv, [Next]_vars
    PROVE  MetInv'
<1>1. \A x : Account(x)' = Account(x) /\ CycleEnd(x)' = CycleEnd(x)
  BY RequestsKept
<1>2. CASE /\ Running' \subseteq Running /\ Running' \cup Bills' \subseteq Running \cup Bills
           /\ met' = met
  BY <1>1, <1>2 DEF MetInv, SameBill
<1>3. ASSUME NEW g \in Generations,
             Running' = Running \cup {g}, Bills' = Bills, g \notin Running \cup Bills,
             BillsFor(Account(g), CycleEnd(g)) = {}, Begin(g)
      PROVE  MetInv'
  <2> SUFFICES ASSUME NEW x \in Running' \cup Bills', NEW y \in Running' \cup Bills', x # y,
                      (x \in Running' /\ y \in Running') \/ SameBill(x, y)'
               PROVE  y \in met'[x]
    BY DEF MetInv
  <2>1. x \in Running \cup Bills \cup {g} /\ y \in Running \cup Bills \cup {g}
    BY <1>3
  <2>2. x \in Generations /\ y \in Generations
    BY <2>1 DEF Running, Bills
  <2>3. /\ met'[g] = Running
        /\ \A h \in Running : met'[h] = met[h] \cup {g}
        /\ x # g => met[x] \subseteq met'[x]
    BY <1>3, <2>2 DEF Begin, Running
  <2>4. \A b \in Bills : ~ SameBill(b, g) /\ ~ SameBill(g, b)
    BY <1>3 DEF SameBill, BillsFor, BillsOf
  <2>5. (x \in Running' /\ y \in Running') \/ SameBill(x, y)
    BY <1>1 DEF SameBill
  <2>6. CASE x = g
    BY <1>3, <2>1, <2>3, <2>4, <2>5, <2>6
  <2>7. CASE y = g
    BY <1>3, <2>1, <2>3, <2>4, <2>5, <2>7
  <2>8. CASE x # g /\ y # g
    <3>1. y \in met[x]
      BY <1>3, <2>1, <2>5, <2>8 DEF MetInv
    <3>2. QED
      BY <2>3, <2>8, <3>1
  <2>9. QED
    BY <2>6, <2>7, <2>8
<1>4. QED
  BY <1>2, <1>3, Beginning

\* Nothing has met anything at first.
LEMMA MetStart == Init => MetInv
BY DEF Init, MetInv, Running, Bills

\* A cycle of an account is billed twice only by generations that ran together:
\* once one of them has committed, no other finds that there is no bill.
THEOREM TwoBillsRanTogether == Spec => []OneBillUnlessTogether
<1>1. GInv /\ MetInv /\ [Next]_vars => MetInv'
  BY MetStep
<1>2. MetInv => OneBillUnlessTogether
  BY DEF MetInv, OneBillUnlessTogether, SameBill
<1>3. QED
  BY Generally, MetStart, <1>1, <1>2, PTL DEF Spec

------------------------------------------------------------------------------
(* The balance carried from bill to bill *)

\* The generations that have read the latest bill.
Reading == {g \in Generations : pc[g] \in {"reading", "billed"}}

\* A generation carries nothing before that.
Unread == \A g \in Generations :
    pc[g] \in {"idle", "checked"} => previous[g] = 0 /\ carries[g] = {}

\* Then it carries what bills of its account charged.
Chained == \A g \in Reading :
    /\ carries[g] \subseteq BillsOf(Account(g)) /\ g \notin carries[g]
    /\ previous[g] = Total(NewDue, carries[g])

\* Of two of an account, one is in the balance of the other or is left out.
Related(b, c) == b \in carries[c] \/ c \in carries[b] \/ LeftOut(c, b) \/ LeftOut(b, c)
Linked == \A b, c \in Reading : Account(b) = Account(c) /\ b # c => Related(b, c)

CInv == GInv /\ MetInv /\ Unread /\ Chained /\ Linked

\* NewDue gives what a bill adds.
LEMMA NewDueIs == NewDue = [g \in Generations |-> Adds(g)]
BY DEF NewDue, Adds

\* The charges of bills keep their sum: bills do not change.
LEMMA ChargesKept ==
    ASSUME GInv, [Next]_vars, NEW S \in SUBSET Bills
    PROVE  Total(NewDue, S)' = Total(NewDue, S)
<1>1. IsFiniteSet(S)
  BY BillingAssumption, FS_Subset DEF Bills
<1>2. \A b \in S : NewDue[b]' = NewDue[b]
  <2> TAKE b \in S
  <2>1. b \in Generations /\ b \in Bills
    BY DEF Bills
  <2>2. request' = request /\ previous'[b] = previous[b] /\ counted'[b] = counted[b]
    BY <2>1, RequestsKept, BillsStay DEF GInv
  <2>3. Adds(b)' = Adds(b)
    BY <2>1, <2>2, AmountsKept
  <2>4. NewDue[b] = Adds(b) /\ NewDue[b]' = Adds(b)'
    BY <2>1 DEF NewDue, Adds
  <2>5. QED
    BY <2>3, <2>4
<1>3. PICK f, h : f = NewDue /\ h = NewDue'
  OBVIOUS
<1>4. \A b \in S : h[b] = f[b]
  BY <1>2, <1>3
<1>5. Total(h, S) = Total(f, S)
  BY <1>1, <1>4, TotalSame
<1>6. QED
  BY <1>3, <1>5

\* What a bill is due for: its own charges and those of the bills it carries.
LEMMA DueOfChain ==
    ASSUME GInv, NEW b \in Generations, IsFiniteSet(carries[b]),
           carries[b] \subseteq Generations, b \notin carries[b],
           previous[b] = Total(NewDue, carries[b])
    PROVE  TotalDue(b) = Total(NewDue, Chain(b))
<1>1. IsFiniteSet(Chain(b)) /\ b \in Chain(b) /\ Chain(b) \ {b} = carries[b]
  BY FS_AddElement DEF Chain
<1>2. \A x \in Chain(b) : NewDue[x] \in Nat
  BY AmountsNat, NewDueIs DEF GInv, Chain
<1>3. Total(NewDue, Chain(b)) = NewDue[b] + Total(NewDue, carries[b])
  BY <1>1, <1>2, TotalRemove
<1>4. TotalDue(b) = previous[b] + Adds(b) /\ Adds(b) \in Nat /\ previous[b] \in Nat
  BY AmountsNat DEF GInv, NonNegative
<1>5. NewDue[b] = Adds(b)
  BY NewDueIs
<1>6. PICK p \in Nat, q \in Nat : p = previous[b] /\ q = Adds(b)
  BY <1>4
<1>7. QED
  BY <1>3, <1>4, <1>5, <1>6

\* What links two bills is not undone as long as they carry what they did.
LEMMA RelatedKept ==
    ASSUME NEW b \in Generations, NEW c \in Generations, Related(b, c), TypeOK,
           request' = request, \A g \in {b, c} \cup carries[b] \cup carries[c] :
               carries'[g] = carries[g] /\ met[g] \subseteq met'[g]
    PROVE  Related(b, c)'
<1>1. \A x : CycleEnd(x)' = CycleEnd(x)
  BY DEF CycleEnd
<1>2. carries[b] \subseteq Generations /\ carries[c] \subseteq Generations
  BY DEF TypeOK
<1>3. ASSUME NEW x \in {b, c}, NEW y \in {b, c}, LeftOut(y, x)
      PROVE  LeftOut(y, x)'
  <2>1. CASE y \in met[x]
    BY <2>1 DEF LeftOut
  <2>2. ASSUME NEW e \in carries[x],
               y \in met[e] \/ (CycleEnd(y) < CycleEnd(e) /\ y \notin carries[e])
        PROVE  LeftOut(y, x)'
    <3>1. e \in carries'[x] /\ e \in Generations /\ carries'[e] = carries[e]
      BY <1>2
    <3>2. QED
      BY <1>1, <2>2, <3>1 DEF LeftOut
  <2>3. QED
    BY <1>3, <2>1, <2>2 DEF LeftOut
<1>4. QED
  BY <1>3 DEF Related

\* A step in which nothing is read of the bills, and nothing begins to be.
LEMMA CarriedKept ==
    ASSUME CInv, GInv', MetInv', [Next]_vars, UNCHANGED <<previous, carries>>,
           Reading' \subseteq Reading, \A g \in Reading : met[g] \subseteq met'[g],
           \A g \in Generations : pc'[g] \in {"idle", "checked"} => pc[g] \in {"idle", "checked"}
    PROVE  CInv'
<1>1. /\ request' = request
      /\ \A x : Account(x)' = Account(x) /\ CycleEnd(x)' = CycleEnd(x)
  BY RequestsKept
<1>2. Bills \subseteq Bills'
  BY BillsStay DEF CInv, GInv
<1>3. Unread'
  BY DEF CInv, Unread
<1>4. Chained'
  <2> SUFFICES ASSUME NEW g \in Reading'
               PROVE  /\ carries'[g] \subseteq BillsOf(Account(g))' /\ g \notin carries'[g]
                      /\ previous'[g] = Total(NewDue, carries[g])'
    BY DEF Chained
  <2>1. PICK B : B = carries[g]
    OBVIOUS
  <2>2. /\ B \subseteq BillsOf(Account(g)) /\ g \notin B
        /\ previous[g] = Total(NewDue, B)
    BY <2>1 DEF CInv, Chained
  <2>3. B \in SUBSET Bills /\ B \subseteq BillsOf(Account(g))'
    BY <1>1, <1>2, <2>2 DEF BillsOf
  <2>4. Total(NewDue, B)' = Total(NewDue, B)
    BY <2>3, ChargesKept DEF CInv
  <2>5. QED
    BY <2>1, <2>2, <2>3, <2>4
<1>5. Linked'
  <2> SUFFICES ASSUME NEW b \in Reading', NEW c \in Reading', Account(b)' = Account(c)', b # c
               PROVE  Related(b, c)'
    BY DEF Linked
  <2>1. b \in Reading /\ c \in Reading /\ b \in Generations /\ c \in Generations
    BY DEF Reading
  <2>2. Related(b, c)
    BY <1>1, <2>1 DEF CInv, Linked
  <2>3. carries[b] \subseteq Reading /\ carries[c] \subseteq Reading
    BY <2>1 DEF CInv, Chained, BillsOf, Bills, Reading
  <2>4. QED
    BY <1>1, <2>1, <2>2, <2>3, RelatedKept DEF CInv, GInv
<1>6. QED
  BY <1>3, <1>4, <1>5 DEF CInv

\* A generation reads the latest bill, which carries those before it.
LEMMA CarryStep ==
    ASSUME CInv, GInv', MetInv', [Next]_vars, NEW g \in Generations, ReadPrevious(g)
    PROVE  CInv'
<1> USE DEF GInv
<1>1. /\ request' = request
      /\ \A x : Account(x)' = Account(x) /\ CycleEnd(x)' = CycleEnd(x)
  BY RequestsKept
<1>2. /\ pc[g] = "checked" /\ pc' = [pc EXCEPT ![g] = "reading"] /\ met' = met
  BY DEF ReadPrevious
<1>3. /\ Bills' = Bills /\ Reading' = Reading \cup {g} /\ g \notin Reading /\ g \notin Bills
      /\ g \in Running /\ Bills \subseteq Reading /\ Reading \subseteq Running \cup Bills
  BY <1>2 DEF Bills, Reading, Running, CInv, TypeOK
<1>4. \A a : BillsOf(a)' = BillsOf(a) /\ BillsOf(a) \subseteq Bills
  BY <1>1, <1>3 DEF BillsOf
<1>5. Unread'
  BY <1>2 DEF CInv, Unread, TypeOK, ReadPrevious, Carry
<1>6. \A h \in Generations \ {g} : carries'[h] = carries[h] /\ previous'[h] = previous[h]
  BY DEF ReadPrevious, Carry, CInv, TypeOK
<1>7. previous[g] = 0 /\ carries[g] = {}
  BY <1>2 DEF CInv, Unread
<1> DEFINE a == Account(g)
           New == /\ carries'[g] \subseteq BillsOf(a)
                  /\ previous'[g] = Total(NewDue, carries'[g])
                  /\ \A c \in BillsOf(a) : c \in carries'[g] \/ LeftOut(c, g)'
<1>8. ASSUME BillsOf(a) = {}, UNCHANGED <<previous, carries>>
      PROVE  New
  <2>1. Total(NewDue, {}) = 0
    BY FS_EmptySet, TotalStep
  <2>2. QED
    BY <1>7, <1>8, <2>1
<1>9. ASSUME NEW b \in Latest(a), Carry(g, b)
      PROVE  New
  <2>1. b \in BillsOf(a) /\ b \in Bills /\ b \in Generations /\ b \in Reading /\ b # g
    BY <1>3 DEF Latest, BillsOf, Bills
  <2>2. /\ carries[b] \subseteq BillsOf(a) /\ b \notin carries[b]
        /\ previous[b] = Total(NewDue, carries[b])
    BY <2>1 DEF CInv, Chained, BillsOf
  <2>3. carries[b] \subseteq Generations /\ IsFiniteSet(carries[b])
    BY <1>4, <2>2, BillingAssumption, FS_Subset DEF Bills
  <2>4. /\ previous'[g] = TotalDue(b)
        /\ carries'[g] = carries[b] \cup {b}
    <3>1. previous \in [Generations -> Int] /\ carries \in [Generations -> SUBSET Generations]
      BY DEF CInv, TypeOK
    <3>2. /\ previous' = [previous EXCEPT ![g] = TotalDue(b)]
          /\ carries' = [carries EXCEPT ![g] = carries[b] \cup {b}]
      BY <1>9 DEF Carry
    <3>3. QED
      BY <3>1, <3>2
  <2>5. TotalDue(b) = Total(NewDue, Chain(b))
    BY <2>1, <2>2, <2>3, DueOfChain DEF CInv
  <2>6. previous'[g] = Total(NewDue, carries'[g])
    BY <2>4, <2>5 DEF Chain
  <2>7. ASSUME NEW c \in BillsOf(a), c \notin carries'[g]
        PROVE  LeftOut(c, g)'
    <3>1. c # b /\ c \notin carries[b] /\ b \in carries'[g] /\ carries'[b] = carries[b]
      BY <1>6, <2>1, <2>4, <2>7
    <3>2. c \in Bills /\ c \in Generations /\ CycleEnd(c) <= CycleEnd(b)
      BY <1>4 DEF Latest, Bills
    <3>3. CycleEnd(c) \in Nat /\ CycleEnd(b) \in Nat
      BY <2>1, <3>2, EndOfMonth DEF CInv
    <3>4. CASE CycleEnd(c) < CycleEnd(b)
      BY <1>1, <3>1, <3>4 DEF LeftOut
    <3>5. CASE CycleEnd(c) = CycleEnd(b)
      <4>1. SameBill(b, c)
        BY <2>1, <3>5 DEF SameBill, BillsOf
      <4>2. c \in met[b]
        BY <2>1, <3>1, <3>2, <4>1 DEF CInv, MetInv
      <4>3. QED
        BY <1>2, <3>1, <4>2 DEF LeftOut
    <3>6. QED
      BY <3>2, <3>3, <3>4, <3>5
  <2>8. QED
    BY <2>1, <2>2, <2>4, <2>6, <2>7
<1> HIDE DEF New, a
<1>10. New
  BY <1>8, <1>9 DEF ReadPrevious, a
<1>11. Chained'
  <2> SUFFICES ASSUME NEW h \in Reading'
               PROVE  /\ carries'[h] \subseteq BillsOf(Account(h))' /\ h \notin carries'[h]
                      /\ previous'[h] = Total(NewDue, carries[h])'
    BY DEF Chained
  <2>1. PICK B : B = carries'[h]
    OBVIOUS
  <2>2. B \subseteq BillsOf(Account(h)) /\ h \notin B /\ previous'[h] = Total(NewDue, B)
    <3>1. CASE h = g
      BY <1>3, <1>4, <1>10, <2>1, <3>1 DEF New, a
    <3>2. CASE h # g
      <4>1. h \in Reading /\ h \in Generations
        BY <1>3, <3>2 DEF Reading
      <4>2. QED
        BY <1>6, <2>1, <3>2, <4>1 DEF CInv, Chained
    <3>3. QED
      BY <3>1, <3>2
  <2>3. B \in SUBSET Bills /\ B \subseteq BillsOf(Account(h))'
    BY <1>1, <1>4, <2>2
  <2>4. Total(NewDue, B)' = Total(NewDue, B)
    BY <2>3, ChargesKept DEF CInv
  <2>5. QED
    BY <2>1, <2>2, <2>3, <2>4
<1>12. ASSUME NEW c \in Reading, Account(c) = Account(g)
       PROVE  Related(g, c)' /\ Related(c, g)'
  <2>1. c # g /\ c \in Running \cup Bills
    BY <1>3
  <2>2. CASE c \in Running
    <3>1. c \in met'[g]
      BY <1>2, <1>3, <2>1, <2>2 DEF CInv, MetInv
    <3>2. QED
      BY <3>1 DEF Related, LeftOut
  <2>3. CASE c \in Bills
    <3>1. c \in BillsOf(a)
      BY <1>12, <2>3 DEF BillsOf, a
    <3>2. QED
      BY <1>10, <3>1 DEF New, Related
  <2>4. QED
    BY <2>1, <2>2, <2>3
<1>13. Linked'
  <2> SUFFICES ASSUME NEW b \in Reading', NEW c \in Reading', Account(b)' = Account(c)', b # c
               PROVE  Related(b, c)'
    BY DEF Linked
  <2>1. Account(b) = Account(c)
    BY <1>1
  <2>2. CASE b = g \/ c = g
    BY <1>3, <1>12, <2>1, <2>2
  <2>3. CASE b # g /\ c # g
    <3>1. b \in Reading /\ c \in Reading /\ b \in Generations /\ c \in Generations
      BY <1>3, <2>3 DEF Reading
    <3>2. Related(b, c)
      BY <2>1, <3>1 DEF CInv, Linked
    <3>3. carries[b] \subseteq Bills /\ carries[c] \subseteq Bills
      BY <1>4, <3>1 DEF CInv, Chained
    <3>4. \A h \in {b, c} \cup carries[b] \cup carries[c] : h \in Generations \ {g}
      BY <1>3, <2>3, <3>1, <3>3 DEF Bills
    <3>5. QED
      BY <1>1, <1>2, <1>6, <3>1, <3>2, <3>4, RelatedKept DEF CInv
  <2>4. QED
    BY <2>2, <2>3
<1>14. QED
  BY <1>5, <1>11, <1>13 DEF CInv

\* What was carried stays accounted for.
LEMMA CarriedStep ==
    ASSUME CInv, GInv', MetInv', [Next]_vars
    PROVE  CInv'
<1> USE DEF GInv
<1>1. ASSUME NEW g \in Generations, Check(g) PROVE CInv'
  <2>1. /\ pc[g] = "idle" /\ previous' = previous /\ carries' = carries
        /\ pc' = [pc EXCEPT ![g] = "checked"] \/ pc' = [pc EXCEPT ![g] = "done"]
    BY <1>1, CheckMoves DEF CInv, generation
  <2>2. met' = met \/ Begin(g)
    BY <1>1, CheckMoves DEF CInv
  <2>3. \A h \in Reading : met[h] \subseteq met'[h]
    BY <2>1, <2>2 DEF Begin, Reading
  <2>4. QED
    BY <2>1, <2>3, CarriedKept DEF Reading, CInv, TypeOK
<1>2. ASSUME NEW g \in Generations, ReadPrevious(g) PROVE CInv'
  BY <1>2, CarryStep
<1>3. ASSUME NEW g \in Generations, Commit(g) PROVE CInv'
  <2>1. /\ pc[g] = "reading" /\ pc' = [pc EXCEPT ![g] = "billed"]
        /\ UNCHANGED <<previous, carries, met>>
    BY <1>3 DEF Commit, generation
  <2>2. QED
    BY <2>1, CarriedKept DEF Reading, CInv, TypeOK
<1>4. ASSUME Restart PROVE CInv'
  <2>1. /\ UNCHANGED <<previous, carries, met>>
        /\ pc' = [g \in Generations |-> IF g \in Running THEN "done" ELSE pc[g]]
    BY <1>4 DEF Restart, generation
  <2>2. QED
    BY <2>1, CarriedKept DEF Reading, CInv, TypeOK
<1>5. ASSUME pc' = pc, UNCHANGED <<previous, carries, met>> PROVE CInv'
  BY <1>5, CarriedKept DEF Reading
<1>6. ASSUME \/ \E d \in MonthEnds : Advance(d)
             \/ \E t \in Txns : Settle(t)
             \/ \E g \in Generations, c \in Cards : ReadCard(g, c)
             \/ Finished \/ UNCHANGED vars
      PROVE  pc' = pc /\ UNCHANGED <<previous, carries, met>>
  BY <1>6 DEF Advance, Settle, ReadCard, Finished, vars, generation, history
<1>7. QED
  BY <1>1, <1>2, <1>3, <1>4, <1>5, <1>6 DEF Next, Generate

\* The balance is compounded once, along the chain of bills.
THEOREM BalanceAddsUp == Spec => []BalanceCarried
<1>1. Init => Unread /\ Chained /\ Linked
  BY DEF Init, Unread, Chained, Linked, Reading
<1>2. GInv /\ MetInv /\ [Next]_vars => GInv' /\ MetInv'
  BY TypeStep, AnswersStep, AtMostStep, MetStep DEF GInv
<1>3. Init => CInv
  BY <1>1, GInvStart, MetStart DEF CInv
<1>4. CInv /\ [Next]_vars => CInv'
  BY <1>2, CarriedStep DEF CInv
<1>5. ASSUME CInv, NEW b \in Bills
      PROVE  /\ b \notin carries[b] /\ carries[b] \subseteq BillsOf(Account(b))
             /\ TotalDue(b) = Total(NewDue, Chain(b))
             /\ \A c \in BillsOf(Account(b)) \ {b} :
                   b \in carries[c] \/ c \in carries[b] \/ LeftOut(c, b) \/ LeftOut(b, c)
  <2>1. b \in Generations /\ b \in Reading /\ Bills \subseteq Reading /\ Bills \subseteq Generations
    BY DEF Bills, Reading
  <2>2. /\ carries[b] \subseteq BillsOf(Account(b)) /\ b \notin carries[b]
        /\ previous[b] = Total(NewDue, carries[b])
    BY <1>5, <2>1 DEF CInv, Chained
  <2>3. carries[b] \subseteq Generations /\ IsFiniteSet(carries[b])
    BY <2>1, <2>2, BillingAssumption, FS_Subset DEF BillsOf
  <2>4. TotalDue(b) = Total(NewDue, Chain(b))
    BY <1>5, <2>1, <2>2, <2>3, DueOfChain DEF CInv
  <2>5. \A c \in BillsOf(Account(b)) \ {b} : Related(b, c)
    BY <1>5, <2>1 DEF CInv, Linked, BillsOf
  <2>6. QED
    BY <2>2, <2>4, <2>5 DEF Related
<1>6. CInv => BalanceCarried
  BY <1>5 DEF BalanceCarried
<1>7. QED
  BY <1>3, <1>4, <1>6, PTL DEF Spec
===============================================================================
