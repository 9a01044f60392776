--------------------------- MODULE MigrationsProofs ---------------------------
(***************************************************************************)
(* Databases under the Alembic scripts, for any operators, watched tables  *)
(* and targets of their runs: the schema is that of the version, rows are  *)
(* lost only where a revision says so, and some revisions are final.       *)
(*                                                                         *)
(* A run passes several revisions in one step, so each theorem needs an    *)
(* induction over the revisions it passes.  LeastNumber gives it: of the   *)
(* numbers at which a claim fails, if there are any, there is a least one. *)
(***************************************************************************)
EXTENDS Migrations, WellFoundedInduction, TLAPS

\* A set of natural numbers that is not empty has a least element.
LEMMA LeastNumber ==
    ASSUME NEW T \in SUBSET Nat, T # {}
    PROVE  \E m \in T : \A k \in T : m <= k
<1>1. PICK m \in T : \A k \in T : <<k, m>> \notin OpToRel(<, Nat)
  BY NatLessThanWellFounded, WFMin, Zenon
<1>2. \A k \in T : ~(k < m)
  BY <1>1, Zenon DEF OpToRel
<1>3. QED
  BY <1>2

------------------------------------------------------------------------------
(* Runs, one revision at a time *)

\* The databases on the way up, and on the way down.
Ascent(f, db, from, to) ==
    f = [n \in from .. to |-> IF n = from THEN db ELSE Upgraded(f[n - 1], Script[n])]
Descent(f, db, from, to) ==
    f = [n \in to .. from |-> IF n = from THEN db ELSE Downgraded(f[n + 1], Script[n + 1])]

\* There is a sequence of databases on the way up to every version.
LEMMA AscentExists ==
    ASSUME NEW db, NEW from \in Nat, NEW to \in Nat, from <= to
    PROVE  \E f : Ascent(f, db, from, to)
<1> DEFINE Bad == {n \in Nat : from <= n /\ ~ \E f : Ascent(f, db, from, n)}
<1> SUFFICES ASSUME Bad # {} PROVE FALSE
  OBVIOUS
<1>1. PICK m \in Bad : \A k \in Bad : m <= k
  BY LeastNumber
<1>2. CASE m = from
  <2>1. Ascent([n \in from .. from |-> db], db, from, from)
    BY DEF Ascent
  <2>2. QED
    BY <1>2, <2>1
<1>3. CASE m # from
  <2>1. m - 1 \in Nat /\ from <= m - 1 /\ m - 1 \notin Bad
    BY <1>1, <1>3
  <2>2. PICK f : Ascent(f, db, from, m - 1)
    BY <2>1
  <2> DEFINE g == [n \in from .. m |->
                     IF n = m THEN Upgraded(f[m - 1], Script[m]) ELSE f[n]]
  <2>3. \A n \in from .. m - 1 :
            f[n] = IF n = from THEN db ELSE Upgraded(f[n - 1], Script[n])
    BY <2>2 DEF Ascent
  <2>4. ASSUME NEW n \in from .. m
        PROVE  g[n] = IF n = from THEN db ELSE Upgraded(g[n - 1], Script[n])
    <3>1. CASE n = m
      <4>1. g[n - 1] = f[m - 1]
        BY <2>1, <3>1
      <4>2. QED
        BY <1>3, <3>1, <4>1
    <3>2. CASE n # m
      <4>1. n \in from .. m - 1 /\ g[n] = f[n]
        BY <3>2
      <4>2. n # from => g[n - 1] = f[n - 1]
        BY <3>2
      <4> HIDE DEF g
      <4>3. QED
        BY <2>3, <4>1, <4>2
    <3>3. QED
      BY <3>1, <3>2
  <2>5. Ascent(g, db, from, m)
    BY <2>4 DEF Ascent
  <2>6. QED
    BY <2>5
<1>4. QED
  BY <1>2, <1>3

\* Two ways up agree on the versions they share.
LEMMA AscentUnique ==
    ASSUME NEW db, NEW from \in Nat, NEW k \in Nat, NEW l \in Nat, k <= l,
           NEW f, Ascent(f, db, from, k), NEW g, Ascent(g, db, from, l)
    PROVE  \A n \in from .. k : f[n] = g[n]
<1> DEFINE Bad == {n \in from .. k : f[n] # g[n]}
<1> SUFFICES ASSUME Bad # {} PROVE FALSE
  OBVIOUS
<1>1. PICK m \in Bad : \A n \in Bad : m <= n
  <2>1. Bad \in SUBSET Nat
    OBVIOUS
  <2> HIDE DEF Bad
  <2>2. QED
    BY <2>1, LeastNumber
<1>2. /\ f[m] = IF m = from THEN db ELSE Upgraded(f[m - 1], Script[m])
      /\ g[m] = IF m = from THEN db ELSE Upgraded(g[m - 1], Script[m])
  BY DEF Ascent
<1>3. CASE m = from
  BY <1>2, <1>3
<1>4. CASE m # from
  <2>1. m - 1 \in from .. k /\ m - 1 \notin Bad
    BY <1>1, <1>4
  <2>2. f[m - 1] = g[m - 1]
    BY <2>1
  <2>3. QED
    BY <1>2, <1>4, <2>2
<1>5. QED
  BY <1>3, <1>4

\* A run up to a version ends with the script of that version.
LEMMA UpgradeStep ==
    ASSUME NEW db, NEW from \in Nat
    PROVE  /\ UpgradedTo(db, from, from) = db
           /\ \A to \in Nat : from < to =>
                UpgradedTo(db, from, to) =
                    Upgraded(UpgradedTo(db, from, to - 1), Script[to])
<1>1. \A to \in Nat : from <= to =>
          \E f : Ascent(f, db, from, to) /\ UpgradedTo(db, from, to) = f[to]
  <2> SUFFICES ASSUME NEW to \in Nat, from <= to
               PROVE  \E f : Ascent(f, db, from, to) /\ UpgradedTo(db, from, to) = f[to]
    OBVIOUS
  <2>1. Ascent(CHOOSE f : Ascent(f, db, from, to), db, from, to)
    BY AscentExists
  <2>2. UpgradedTo(db, from, to) = (CHOOSE f : Ascent(f, db, from, to))[to]
    BY DEF UpgradedTo, Ascent
  <2>3. QED
    BY <2>1, <2>2
<1>2. UpgradedTo(db, from, from) = db
  <2>1. PICK f : Ascent(f, db, from, from) /\ UpgradedTo(db, from, from) = f[from]
    BY <1>1
  <2>2. QED
    BY <2>1 DEF Ascent
<1>3. ASSUME NEW to \in Nat, from < to
      PROVE  UpgradedTo(db, from, to) =
                 Upgraded(UpgradedTo(db, from, to - 1), Script[to])
  <2>1. PICK f : Ascent(f, db, from, to) /\ UpgradedTo(db, from, to) = f[to]
    BY <1>1, <1>3
  <2>2. PICK g : Ascent(g, db, from, to - 1) /\ UpgradedTo(db, from, to - 1) = g[to - 1]
    BY <1>1, <1>3
  <2>3. g[to - 1] = f[to - 1]
    BY <1>3, <2>1, <2>2, AscentUnique
  <2>4. f[to] = Upgraded(f[to - 1], Script[to])
    BY <1>3, <2>1 DEF Ascent
  <2>5. QED
    BY <2>1, <2>2, <2>3, <2>4
<1>4. QED
  BY <1>2, <1>3

\* There is a sequence of databases on the way down to every version.
LEMMA DescentExists ==
    ASSUME NEW db, NEW from \in Nat, NEW to \in Nat, to <= from
    PROVE  \E f : Descent(f, db, from, to)
<1> DEFINE Bad == {d \in 0 .. from : ~ \E f : Descent(f, db, from, from - d)}
<1>1. Bad = {}
  <2> SUFFICES ASSUME Bad # {} PROVE FALSE
    OBVIOUS
  <2>1. PICK d \in Bad : \A e \in Bad : d <= e
    <3>1. Bad \in SUBSET Nat
      OBVIOUS
    <3> HIDE DEF Bad
    <3>2. QED
      BY <3>1, LeastNumber
  <2>2. CASE d = 0
    <3>1. Descent([n \in from .. from |-> db], db, from, from)
      BY DEF Descent
    <3>2. from - d = from
      BY <2>2
    <3>3. QED
      BY <3>1, <3>2
  <2>3. CASE d # 0
    <3>1. d - 1 \in 0 .. from /\ d - 1 \notin Bad
      BY <2>1, <2>3
    <3> DEFINE m == from - d
    <3>2. m \in Nat /\ m < from /\ from - (d - 1) = m + 1
      BY <2>3
    <3>3. PICK f : Descent(f, db, from, m + 1)
      BY <3>1, <3>2
    <3> HIDE DEF m
    <3> DEFINE g == [n \in m .. from |->
                       IF n = m THEN Downgraded(f[m + 1], Script[m + 1]) ELSE f[n]]
    <3>4. \A n \in m + 1 .. from :
              f[n] = IF n = from THEN db ELSE Downgraded(f[n + 1], Script[n + 1])
      BY <3>3 DEF Descent
    <3>5. ASSUME NEW n \in m .. from
          PROVE  g[n] = IF n = from THEN db ELSE Downgraded(g[n + 1], Script[n + 1])
      <4>1. CASE n = m
        <5>1. g[n + 1] = f[m + 1]
          BY <3>2, <4>1
        <5>2. QED
          BY <3>2, <4>1, <5>1
      <4>2. CASE n # m
        <5>1. n \in m + 1 .. from /\ g[n] = f[n]
          BY <3>2, <4>2
        <5>2. n # from => g[n + 1] = f[n + 1]
          BY <3>2, <4>2
        <5> HIDE DEF g
        <5>3. QED
          BY <3>4, <5>1, <5>2
      <4>3. QED
        BY <4>1, <4>2
    <3>6. Descent(g, db, from, m)
      BY <3>5 DEF Descent
    <3>7. QED
      BY <3>6 DEF m
  <2>4. QED
    BY <2>2, <2>3
<1>2. from - to \in 0 .. from /\ from - (from - to) = to
  OBVIOUS
<1>3. QED
  BY <1>1, <1>2

\* Two ways down agree on the versions they share.
LEMMA DescentUnique ==
    ASSUME NEW db, NEW from \in Nat, NEW k \in Nat, NEW l \in Nat, l <= k,
           NEW f, Descent(f, db, from, k), NEW g, Descent(g, db, from, l)
    PROVE  \A n \in k .. from : f[n] = g[n]
<1> DEFINE Bad == {d \in 0 .. from - k : f[from - d] # g[from - d]}
<1>1. Bad = {}
  <2> SUFFICES ASSUME Bad # {} PROVE FALSE
    OBVIOUS
  <2>1. PICK d \in Bad : \A e \in Bad : d <= e
    <3>1. Bad \in SUBSET Nat
      OBVIOUS
    <3> HIDE DEF Bad
    <3>2. QED
      BY <3>1, LeastNumber
  <2>2. PICK m \in k .. from : m = from - d
    OBVIOUS
  <2>3. /\ f[m] = IF m = from THEN db ELSE Downgraded(f[m + 1], Script[m + 1])
        /\ g[m] = IF m = from THEN db ELSE Downgraded(g[m + 1], Script[m + 1])
    BY DEF Descent
  <2>4. m # from => f[m + 1] = g[m + 1]
    <3>1. m # from => d - 1 \in 0 .. from - k /\ d - 1 \notin Bad /\ from - (d - 1) = m + 1
      BY <2>1, <2>2
    <3>2. QED
      BY <3>1
  <2>5. QED
    BY <2>2, <2>3, <2>4
<1>2. \A n \in k .. from : from - n \in 0 .. from - k /\ from - (from - n) = n
  OBVIOUS
<1>3. QED
  BY <1>1, <1>2

\* A run down to a version ends by undoing the script of the version above.
LEMMA DowngradeStep ==
    ASSUME NEW db, NEW from \in Nat
    PROVE  /\ DowngradedTo(db, from, from) = db
           /\ \A to \in Nat : to < from =>
                DowngradedTo(db, from, to) =
                    Downgraded(DowngradedTo(db, from, to + 1), Script[to + 1])
<1>1. \A to \in Nat : to <= from =>
          \E f : Descent(f, db, from, to) /\ DowngradedTo(db, from, to) = f[to]
  <2> SUFFICES ASSUME NEW to \in Nat, to <= from
               PROVE  \E f : Descent(f, db, from, to) /\ DowngradedTo(db, from, to) = f[to]
    OBVIOUS
  <2>1. Descent(CHOOSE f : Descent(f, db, from, to), db, from, to)
    BY DescentExists
  <2>2. DowngradedTo(db, from, to) = (CHOOSE f : Descent(f, db, from, to))[to]
    BY DEF DowngradedTo, Descent
  <2>3. QED
    BY <2>1, <2>2
<1>2. DowngradedTo(db, from, from) = db
  <2>1. PICK f : Descent(f, db, from, from) /\ DowngradedTo(db, from, from) = f[from]
    BY <1>1
  <2>2. QED
    BY <2>1 DEF Descent
<1>3. ASSUME NEW to \in Nat, to < from
      PROVE  DowngradedTo(db, from, to) =
                 Downgraded(DowngradedTo(db, from, to + 1), Script[to + 1])
  <2>1. PICK f : Descent(f, db, from, to) /\ DowngradedTo(db, from, to) = f[to]
    BY <1>1, <1>3
  <2>2. PICK g : Descent(g, db, from, to + 1) /\ DowngradedTo(db, from, to + 1) = g[to + 1]
    BY <1>1, <1>3
  <2>3. g[to + 1] = f[to + 1]
    <3>1. to + 1 \in Nat /\ to <= to + 1 /\ to + 1 \in to + 1 .. from
      BY <1>3
    <3>2. \A n \in to + 1 .. from : g[n] = f[n]
      BY <2>1, <2>2, <3>1, DescentUnique
    <3>3. QED
      BY <3>1, <3>2
  <2>4. f[to] = Downgraded(f[to + 1], Script[to + 1])
    BY <1>3, <2>1 DEF Descent
  <2>5. QED
    BY <2>1, <2>2, <2>3, <2>4
<1>4. QED
  BY <1>2, <1>3

------------------------------------------------------------------------------
(* What the scripts have in common *)

\* There are 31 of them.
LEMMA Scripts == Last = 31
  BY DEF Last, Script

\* The revision that makes a table.
MadeAt(t) ==
    CASE t \in {"admins", "auth_credentials", "customer_profiles", "users"} -> 1
      [] t \in {"customer_addresses", "employment_details", "financial_information",
                "kyc_records"} -> 2
      [] t \in {"otp_codes"} -> 3
      [] t \in {"pending_registrations"} -> 4
      [] t \in {"fatca_declarations"} -> 7
      [] t \in {"kyc_document_submissions", "kyc_otp_verifications",
                "risk_compliance_logs"} -> 14
      [] t \in {"card", "card_authorization_rules", "card_billing_configuration",
                "card_fraud_risk_profile", "card_lifecycle_rules", "card_product_core",
                "card_product_governance", "card_rewards_configuration",
                "card_transaction_controls", "card_usage_limits", "credit_account",
                "credit_card_application", "credit_product_accounting_mapping",
                "credit_product_compliance_metadata",
                "credit_product_eligibility_rules", "credit_product_fees",
                "credit_product_governance", "credit_product_information",
                "credit_product_interest_framework",
                "credit_product_international_config", "credit_product_limits"} -> 16
      [] t \in {"audit_log", "bureau_report", "credit_decision", "fraud_flag",
                "risk_assessment"} -> 19
      [] t \in {"card_fx_configuration"} -> 30
      [] OTHER -> 0

\* What each script is known by: a downgrade that can be executed undoes what
\* the upgrade did, tables are made once, rows are only taken where Taken says,
\* and no script makes the column that revision 31 drops.
Sound(n, s) ==
    /\ s.back => s.undoes = s.makes /\ s.restores = s.drops
    /\ \A t : <<t, "*">> \in s.makes => MadeAt(t) = n
    /\ \A t : <<t, "*">> \in s.drops \/ t \in s.deletes =>
                t \in DOMAIN Taken /\ Taken[t] = n
    /\ <<"card_product_core", "code">> \notin s.makes
    /\ n = 31 => <<"card_product_core", "code">> \in s.drops /\ ~s.back
    /\ n \in {7, 18, 23} => ~s.back

\* Every script is as Sound says; the objects are compared one by one.
LEMMA SoundScripts == \A n \in 1 .. Last : Sound(n, Script[n])
<1> USE DEF Sound, Revision, MadeAt, Taken, Objects, Tables, With
<1>1. Sound(1, Revision1)
  BY DEF Revision1
<1>2. Sound(2, Revision2)
  BY DEF Revision2
<1>3. Sound(3, Revision3)
  BY DEF Revision3
<1>4. Sound(4, Revision4)
  BY DEF Revision4
<1>5. Sound(5, Revision5)
  BY DEF Revision5
<1>6. Sound(6, Revision6)
  BY DEF Revision6, ContactColumns
<1>7. Sound(7, Revision7)
  BY DEF Revision7, TermsColumns
<1>8. Sound(8, Revision8)
  BY DEF Revision8
<1>9. Sound(9, Revision9)
  BY DEF Revision9
<1>10. Sound(10, Revision10)
  BY DEF Revision10
<1>11. Sound(11, Revision11)
  BY DEF Revision11, ContactColumns, TermsColumns
<1>12. Sound(12, Revision12)
  BY DEF Revision12
<1>13. Sound(13, Revision13)
  BY DEF Revision13
<1>14. Sound(14, Revision14)
  BY DEF Revision14
<1>15. Sound(15, Revision15)
  BY DEF Revision15
<1>16. Sound(16, Revision16)
  BY DEF Revision16, CreditProductTables, CardProductTables
<1>17. Sound(17, Revision17)
  BY DEF Revision17
<1>18. Sound(18, Revision18)
  BY DEF Revision18
<1>19. Sound(19, Revision19)
  BY DEF Revision19, ApplicantColumns, DeliveryColumns
<1>20. Sound(20, Revision20)
  BY DEF Revision20, DeliveryColumns
<1>21. Sound(21, Revision21)
  BY DEF Revision21, DeliveryColumns
<1>22. Sound(22, Revision22)
  BY DEF Revision22
<1>23. Sound(23, Revision23)
  BY DEF Revision23
<1>24. Sound(24, Revision24)
  BY DEF Revision24
<1>25. Sound(25, Revision25)
  BY DEF Revision25
<1>26. Sound(26, Revision26)
  BY DEF Revision26
<1>27. Sound(27, Revision27)
  BY DEF Revision27
<1>28. Sound(28, Revision28)
  BY DEF Revision28
<1>29. Sound(29, Revision29)
  BY DEF Revision29
<1>30. Sound(30, Revision30)
  BY DEF Revision30
<1>31. Sound(31, Revision31)
  BY DEF Revision31
<1> HIDE DEF Sound, Revision, MadeAt, Taken, Objects, Tables, With
<1>32. /\ Script[1] = Revision1
       /\ Script[2] = Revision2
       /\ Script[3] = Revision3
       /\ Script[4] = Revision4
       /\ Script[5] = Revision5
       /\ Script[6] = Revision6
       /\ Script[7] = Revision7
       /\ Script[8] = Revision8
       /\ Script[9] = Revision9
       /\ Script[10] = Revision10
       /\ Script[11] = Revision11
       /\ Script[12] = Revision12
       /\ Script[13] = Revision13
       /\ Script[14] = Revision14
       /\ Script[15] = Revision15
       /\ Script[16] = Revision16
       /\ Script[17] = Revision17
       /\ Script[18] = Revision18
       /\ Script[19] = Revision19
       /\ Script[20] = Revision20
       /\ Script[21] = Revision21
       /\ Script[22] = Revision22
       /\ Script[23] = Revision23
       /\ Script[24] = Revision24
       /\ Script[25] = Revision25
       /\ Script[26] = Revision26
       /\ Script[27] = Revision27
       /\ Script[28] = Revision28
       /\ Script[29] = Revision29
       /\ Script[30] = Revision30
       /\ Script[31] = Revision31
  BY DEF Script
<1>33. QED
  BY Scripts, <1>1, <1>2, <1>3, <1>4, <1>5, <1>6, <1>7, <1>8, <1>9, <1>10, <1>11, <1>12,
     <1>13, <1>14, <1>15, <1>16, <1>17, <1>18, <1>19, <1>20, <1>21, <1>22, <1>23, <1>24, <1>25,
     <1>26, <1>27, <1>28, <1>29, <1>30, <1>31, <1>32

\* The same, of one script.
LEMMA SoundScript ==
    ASSUME NEW n \in 1 .. Last
    PROVE  Sound(n, Script[n])
  BY SoundScripts

------------------------------------------------------------------------------
(* The schemas of the versions *)

\* The schema of a version is that of the one before, without what the script
\* drops and with what it makes.
LEMMA Schemas ==
    /\ SchemaOf[0] = {}
    /\ \A n \in 1 .. Last :
          SchemaOf[n] = (SchemaOf[n - 1] \ Script[n].drops) \cup Script[n].makes
<1> USE Scripts
<1>1. \A n \in 0 .. Last : SchemaOf[n] = UpgradedTo(Empty, 0, n).schema
  <2> SUFFICES ASSUME NEW n \in 0 .. Last
               PROVE  SchemaOf[n] = UpgradedTo(Empty, 0, n).schema
    OBVIOUS
  <2>1. SchemaOf[n] = Reached(Empty, 0, n).schema
    BY DEF SchemaOf
  <2>2. CASE 0 < n
    BY <2>1, <2>2 DEF Reached
  <2>3. CASE n = 0
    <3>1. UpgradedTo(Empty, 0, 0) = Empty /\ DowngradedTo(Empty, 0, 0) = Empty
      BY UpgradeStep, DowngradeStep
    <3>2. QED
      BY <2>1, <2>3, <3>1 DEF Reached
  <2>4. QED
    BY <2>2, <2>3
<1>2. SchemaOf[0] = {}
  <2>1. UpgradedTo(Empty, 0, 0) = Empty
    BY UpgradeStep
  <2>2. QED
    BY <1>1, <2>1 DEF Empty
<1>3. ASSUME NEW n \in 1 .. Last
      PROVE  SchemaOf[n] = (SchemaOf[n - 1] \ Script[n].drops) \cup Script[n].makes
  <2>1. UpgradedTo(Empty, 0, n) = Upgraded(UpgradedTo(Empty, 0, n - 1), Script[n])
    BY UpgradeStep
  <2>2. n \in 0 .. Last /\ n - 1 \in 0 .. Last
    OBVIOUS
  <2>3. /\ SchemaOf[n] = UpgradedTo(Empty, 0, n).schema
        /\ SchemaOf[n - 1] = UpgradedTo(Empty, 0, n - 1).schema
    BY <1>1, <2>2
  <2>4. QED
    BY <2>1, <2>3 DEF Upgraded
<1>4. QED
  BY <1>2, <1>3

\* A version has only tables that a revision up to it makes, and never the
\* column that revision 31 drops.
LEMMA TablesOf ==
    /\ \A n \in 0 .. Last : \A t : <<t, "*">> \in SchemaOf[n] => MadeAt(t) \in 1 .. n
    /\ \A n \in 0 .. Last : <<"card_product_core", "code">> \notin SchemaOf[n]
<1> USE Scripts
<1> DEFINE Good(n) ==
             /\ \A t : <<t, "*">> \in SchemaOf[n] => MadeAt(t) \in 1 .. n
             /\ <<"card_product_core", "code">> \notin SchemaOf[n]
           Bad == {n \in 0 .. Last : ~Good(n)}
<1>1. Bad = {}
  <2> SUFFICES ASSUME Bad # {} PROVE FALSE
    OBVIOUS
  <2>1. PICK m \in Bad : \A k \in Bad : m <= k
    <3>1. Bad \in SUBSET Nat
      OBVIOUS
    <3> HIDE DEF Bad
    <3>2. QED
      BY <3>1, LeastNumber
  <2>2. m # 0
    BY <2>1, Schemas
  <2>3. m \in 1 .. Last /\ m - 1 \in 0 .. Last /\ m - 1 \notin Bad
    BY <2>1, <2>2
  <2>4. Good(m - 1)
    BY <2>3
  <2>5. SchemaOf[m] = (SchemaOf[m - 1] \ Script[m].drops) \cup Script[m].makes
    BY <2>3, Schemas
  <2>6. /\ \A t : <<t, "*">> \in Script[m].makes => MadeAt(t) = m
        /\ <<"card_product_core", "code">> \notin Script[m].makes
    BY <2>3, SoundScript DEF Sound
  <2>7. \A i \in 1 .. m - 1 : i \in 1 .. m
    BY <2>3
  <2>8. m \in 1 .. m
    BY <2>3
  <2>9. Good(m)
    BY <2>4, <2>5, <2>6, <2>7, <2>8
  <2>10. QED
    BY <2>1, <2>9
<1>2. QED
  BY <1>1

------------------------------------------------------------------------------
(* Runs of the command *)

\* A database that the scripts up to a version could be executed on: nothing
\* they make was there, and all they drop was.
Clean(n) ==
    /\ Script[n].makes \cap SchemaOf[n - 1] = {}
    /\ Script[n].drops \subseteq SchemaOf[n - 1]

\* What a completed upgrade leaves, whatever the versions it passes.
LEMMA UpgradeRun ==
    ASSUME NEW db, NEW v \in 0 .. Last, NEW n \in v .. Last,
           db.schema = SchemaOf[v],
           UpgradedTo(db, v, n).ok
    PROVE  /\ UpgradedTo(db, v, n).schema = SchemaOf[n]
           /\ \A j \in v + 1 .. n : Clean(j)
           /\ \A t \in db.rows \ UpgradedTo(db, v, n).rows :
                 t \in DOMAIN Taken /\ v < Taken[t] /\ Taken[t] <= n
           /\ \A t \in UpgradedTo(db, v, n).rows :
                 t \in db.rows /\ (<<t, "*">> \in SchemaOf[v] => <<t, "*">> \in SchemaOf[n])
           /\ \A j \in v + 1 .. n : Script[j].types \cap db.types = {}
<1> USE Scripts
<1> DEFINE U(k) == UpgradedTo(db, v, k)
           Good(k) ==
             /\ U(k).schema = SchemaOf[k]
             /\ \A j \in v + 1 .. k : Clean(j)
             /\ \A t \in db.rows \ U(k).rows :
                   t \in DOMAIN Taken /\ v < Taken[t] /\ Taken[t] <= k
             /\ \A t \in U(k).rows :
                   t \in db.rows /\ (<<t, "*">> \in SchemaOf[v] => <<t, "*">> \in SchemaOf[k])
             /\ db.types \subseteq U(k).types
             /\ \A j \in v + 1 .. k : Script[j].types \cap db.types = {}
           Bad == {k \in v .. n : U(k).ok /\ ~Good(k)}
<1>1. Bad = {}
  <2> SUFFICES ASSUME Bad # {} PROVE FALSE
    OBVIOUS
  <2>1. PICK m \in Bad : \A k \in Bad : m <= k
    <3>1. Bad \in SUBSET Nat
      OBVIOUS
    <3> HIDE DEF Bad
    <3>2. QED
      BY <3>1, LeastNumber
  <2>2. U(v) = db
    BY UpgradeStep
  <2>3. CASE m = v
    <3>1. v + 1 .. v = {}
      OBVIOUS
    <3>2. Good(v)
      BY <2>2, <3>1
    <3>3. QED
      BY <2>1, <2>3, <3>2
  <2>4. CASE m # v
    <3>1. /\ m \in Nat /\ v < m /\ m \in 1 .. Last
          /\ m - 1 \in v .. n /\ m - 1 \in 0 .. Last
      BY <2>1, <2>4
    <3>2. U(m) = Upgraded(U(m - 1), Script[m])
      <4>1. v \in Nat
        OBVIOUS
      <4>2. \A to \in Nat : v < to =>
                UpgradedTo(db, v, to) = Upgraded(UpgradedTo(db, v, to - 1), Script[to])
        BY <4>1, UpgradeStep
      <4>3. QED
        BY <3>1, <4>2
    <3>3. U(m).ok
      BY <2>1
    <3> DEFINE s == Script[m]
               d == U(m - 1)
    <3>4. Sound(m, s)
      BY <3>1, SoundScript
    <3>5. SchemaOf[m] = (SchemaOf[m - 1] \ s.drops) \cup s.makes
      BY <3>1, Schemas
    <3> HIDE DEF s
    <3>6. /\ d.ok
          /\ s.makes \cap d.schema = {}
          /\ s.drops \subseteq d.schema
          /\ s.types \cap d.types = {}
          /\ U(m).schema = (d.schema \ s.drops) \cup s.makes
          /\ U(m).types = d.types \cup s.types
          /\ U(m).rows = {t \in d.rows : <<t, "*">> \notin s.drops} \ s.deletes
      <4> HIDE DEF U
      <4>1. U(m) = Upgraded(d, s)
        BY <3>2 DEF s
      <4>2. QED
        BY <3>3, <4>1 DEF Upgraded, RowsWithout
    <3>7. Good(m - 1)
      <4>1. m - 1 \notin Bad
        BY <2>1, <3>1
      <4>2. QED
        BY <3>1, <3>6, <4>1
    <3> HIDE DEF U
    <3>8. U(m).schema = SchemaOf[m]
      BY <3>5, <3>6, <3>7
    <3>9. \A j \in v + 1 .. m : j = m \/ j \in v + 1 .. m - 1
      BY <3>1
    <3>10. Clean(m)
      BY <3>6, <3>7 DEF Clean, s
    <3>11. ASSUME NEW t \in db.rows \ U(m).rows
           PROVE  t \in DOMAIN Taken /\ v < Taken[t] /\ Taken[t] <= m
      <4>1. CASE t \in d.rows
        <5>1. <<t, "*">> \in s.drops \/ t \in s.deletes
          BY <3>6, <3>11, <4>1
        <5>2. t \in DOMAIN Taken /\ Taken[t] = m
          BY <3>4, <5>1 DEF Sound
        <5>3. QED
          BY <3>1, <5>2
      <4>2. CASE t \notin d.rows
        <5>1. t \in DOMAIN Taken /\ v < Taken[t] /\ Taken[t] <= m - 1
          BY <3>7, <3>11, <4>2
        <5>2. Taken[t] \in Int
          BY <5>1 DEF Taken
        <5>3. QED
          BY <3>1, <5>1, <5>2
      <4>3. QED
        BY <4>1, <4>2
    <3>12. ASSUME NEW t \in U(m).rows
           PROVE  t \in db.rows /\ (<<t, "*">> \in SchemaOf[v] => <<t, "*">> \in SchemaOf[m])
      BY <3>5, <3>6, <3>7, <3>12
    <3>13. db.types \subseteq U(m).types /\ s.types \cap db.types = {}
      BY <3>6, <3>7
    <3>14. Good(m)
      BY <3>7, <3>8, <3>9, <3>10, <3>11, <3>12, <3>13 DEF s
    <3>15. QED
      BY <2>1, <3>14 DEF U
  <2>5. QED
    BY <2>3, <2>4
<1>2. n \in v .. n /\ U(n).ok
  OBVIOUS
<1>3. Good(n)
  <2> HIDE DEF Good
  <2>1. QED
    BY <1>1, <1>2
<1>4. QED
  BY <1>3

\* What a completed downgrade leaves: the scripts it undoes had been executed
\* on a clean database, and each of them can be undone.
LEMMA DowngradeRun ==
    ASSUME NEW db, NEW v \in 0 .. Last, NEW n \in 0 .. v,
           db.schema = SchemaOf[v],
           \A j \in 1 .. v : Clean(j),
           DowngradedTo(db, v, n).ok
    PROVE  /\ DowngradedTo(db, v, n).schema = SchemaOf[n]
           /\ \A j \in n + 1 .. v : Script[j].back
           /\ \A t \in db.rows \ DowngradedTo(db, v, n).rows : <<t, "*">> \notin SchemaOf[n]
           /\ \A t \in DowngradedTo(db, v, n).rows :
                 t \in db.rows /\ (<<t, "*">> \in SchemaOf[v] => <<t, "*">> \in SchemaOf[n])
           /\ DowngradedTo(db, v, n).types = db.types
<1> USE Scripts
<1> DEFINE D(k) == DowngradedTo(db, v, k)
           Good(k) ==
             /\ D(k).schema = SchemaOf[k]
             /\ \A j \in k + 1 .. v : Script[j].back
             /\ \A t \in db.rows \ D(k).rows : MadeAt(t) > k
             /\ \A t \in D(k).rows :
                   t \in db.rows /\ (<<t, "*">> \in SchemaOf[v] => <<t, "*">> \in SchemaOf[k])
             /\ D(k).types = db.types
           Bad == {e \in 0 .. v - n : D(v - e).ok /\ ~Good(v - e)}
<1>1. Bad = {}
  <2> SUFFICES ASSUME Bad # {} PROVE FALSE
    OBVIOUS
  <2>1. PICK e \in Bad : \A k \in Bad : e <= k
    <3>1. Bad \in SUBSET Nat
      OBVIOUS
    <3> HIDE DEF Bad
    <3>2. QED
      BY <3>1, LeastNumber
  <2>2. v \in Nat /\ DowngradedTo(db, v, v) = db
    <3>1. v \in Nat
      OBVIOUS
    <3>2. QED
      BY <3>1, DowngradeStep
  <2>3. CASE e = 0
    <3>1. v + 1 .. v = {} /\ v - 0 = v
      OBVIOUS
    <3>2. Good(v)
      BY <2>2, <3>1
    <3>3. QED
      BY <2>1, <2>3, <3>1, <3>2
  <2>4. CASE e # 0
    <3>1. PICK m \in n .. v : m = v - e
      BY <2>1
    <3>2. /\ m \in Nat /\ m < v /\ m + 1 \in 1 .. Last /\ m \in 0 .. Last
          /\ e - 1 \in 0 .. v - n /\ v - (e - 1) = m + 1 /\ m + 1 \in 1 .. v
      BY <2>1, <2>4, <3>1
    <3>3. D(m) = Downgraded(D(m + 1), Script[m + 1])
      <4>1. \A to \in Nat : to < v =>
                DowngradedTo(db, v, to) = Downgraded(DowngradedTo(db, v, to + 1), Script[to + 1])
        BY <2>2, DowngradeStep
      <4>2. QED
        BY <3>2, <4>1
    <3>4. D(m).ok /\ ~Good(m)
      BY <2>1, <3>1
    <3> DEFINE s == Script[m + 1]
               d == D(m + 1)
    <3>5. Sound(m + 1, s)
      BY <3>2, SoundScript
    <3>6. SchemaOf[m + 1] = (SchemaOf[m] \ s.drops) \cup s.makes
      <4>1. (m + 1) - 1 = m
        BY <3>2
      <4>2. SchemaOf[m + 1] = (SchemaOf[(m + 1) - 1] \ s.drops) \cup s.makes
        BY <3>2, Schemas
      <4>3. QED
        BY <4>1, <4>2
    <3>7. s.makes \cap SchemaOf[m] = {} /\ s.drops \subseteq SchemaOf[m]
      <4>1. (m + 1) - 1 = m /\ Clean(m + 1)
        BY <3>2
      <4>2. QED
        BY <4>1 DEF Clean
    <3> HIDE DEF s
    <3>8. /\ d.ok
          /\ s.back
          /\ s.undoes \subseteq d.schema
          /\ s.restores \cap d.schema = {}
          /\ D(m).schema = (d.schema \ s.undoes) \cup s.restores
          /\ D(m).types = d.types
          /\ D(m).rows = {t \in d.rows : <<t, "*">> \notin s.undoes}
      <4> HIDE DEF D
      <4>1. D(m) = Downgraded(d, s)
        BY <3>3 DEF s
      <4>2. D(m).ok
        BY <3>4
      <4>3. QED
        BY <4>1, <4>2 DEF Downgraded, RowsWithout
    <3>9. Good(m + 1)
      <4>1. e - 1 \notin Bad
        BY <2>1, <3>2
      <4>2. QED
        BY <3>2, <3>8, <4>1
    <3>10. s.undoes = s.makes /\ s.restores = s.drops
      BY <3>5, <3>8 DEF Sound
    <3> HIDE DEF D
    <3>11. D(m).schema = SchemaOf[m]
      <4>1. D(m).schema = (((SchemaOf[m] \ s.drops) \cup s.makes) \ s.makes) \cup s.drops
        BY <3>6, <3>8, <3>9, <3>10
      <4>2. QED
        BY <3>7, <4>1
    <3>12. \A j \in m + 1 .. v : j = m + 1 \/ j \in (m + 1) + 1 .. v
      BY <3>2
    <3>13. ASSUME NEW t \in db.rows \ D(m).rows
           PROVE  MadeAt(t) > m
      <4>1. CASE t \in d.rows
        <5>1. <<t, "*">> \in s.makes
          BY <3>8, <3>10, <3>13, <4>1
        <5>2. MadeAt(t) = m + 1
          BY <3>5, <5>1 DEF Sound
        <5>3. QED
          BY <3>2, <5>2
      <4>2. CASE t \notin d.rows
        <5>1. MadeAt(t) > m + 1
          BY <3>9, <3>13, <4>2
        <5>2. MadeAt(t) \in Int
          BY DEF MadeAt
        <5>3. QED
          BY <3>2, <5>1, <5>2
      <4>3. QED
        BY <4>1, <4>2
    <3>14. ASSUME NEW t \in D(m).rows
           PROVE  t \in db.rows /\ (<<t, "*">> \in SchemaOf[v] => <<t, "*">> \in SchemaOf[m])
      BY <3>6, <3>8, <3>9, <3>10, <3>14
    <3>15. Good(m)
      BY <3>8, <3>9, <3>11, <3>12, <3>13, <3>14 DEF s
    <3>16. QED
      BY <3>4, <3>15
  <2>5. QED
    BY <2>3, <2>4
<1>2. v - n \in 0 .. v - n /\ v - (v - n) = n
  OBVIOUS
<1>3. Good(n)
  <2> HIDE DEF Good
  <2>1. QED
    BY <1>1, <1>2
<1>4. ASSUME NEW t, MadeAt(t) > n
      PROVE  <<t, "*">> \notin SchemaOf[n]
  <2>1. MadeAt(t) \notin 1 .. n
    BY <1>4
  <2>2. n \in 0 .. Last
    OBVIOUS
  <2>3. QED
    BY <2>1, <2>2, TablesOf
<1>5. QED
  BY <1>3, <1>4

------------------------------------------------------------------------------
(* What every state satisfies *)

\* A run plans a path between versions that exist.
RunsOK == \A o \in Operators : run[o].seen \in 0 .. Last /\ run[o].target \in 0 .. Last

\* Nothing the scripts so far made was there before, nor was anything missing
\* that they dropped: without it undoing a script would not give back the
\* schema it was run on.
CleanSoFar == \A k \in 1 .. version : Clean(k)

\* No row is without its table.
RowsInTables == \A t \in rows : <<t, "*">> \in schema

\* Revision 31 cannot be executed on a database that the scripts built: it
\* drops card_product_core.code, which none of them makes.
NeverAtLast == version < Last

IInv ==
    /\ run = [o \in Operators |-> run[o]]
    /\ RunsOK
    /\ version \in 0 .. Last
    /\ NeverAtLast
    /\ SchemaFollowsVersion
    /\ CleanSoFar
    /\ RowsInTables

\* The points of no return: once a database has passed revision 7, 18 or 23 no
\* completed run takes it below.
FinalRevisions == {7, 18, 23}
NoReturn == [][\A k \in FinalRevisions : version >= k => version' >= k]_vars

\* A downgrade leaves the enumerated types of the tables it drops, and the
\* upgrade makes them again: a database that was taken below such a revision
\* (1, 2 or 3, see the scripts) stays below it.
StaysBelow ==
    [][\A k \in 1 .. Last :
          Script[k].types \cap types # {} /\ version < k => version' < k]_vars

\* What a step does to version, schema and rows, whoever takes it.
Stays ==
    version' = version /\ schema' = schema /\ types' = types /\ rows \subseteq rows'
Rises ==
    /\ version < version'
    /\ \A j \in 1 .. version' : Clean(j)
    /\ \A t \in rows \ rows' : t \in DOMAIN Taken /\ version < Taken[t] /\ Taken[t] <= version'
    /\ \A j \in version + 1 .. version' : Script[j].types \cap types = {}
Sinks ==
    /\ version' <= version
    /\ \A t \in rows \ rows' : <<t, "*">> \notin SchemaOf[version']
    /\ \A j \in version' + 1 .. version : Script[j].back
    /\ types' = types
StepOK == Stays \/ Rises \/ Sinks

\* The version tells which of them it was.
LEMMA RisesOrSinks ==
    ASSUME StepOK, NEW v \in Int, NEW w \in Int, v = version, w = version'
    PROVE  (v < w => Rises) /\ (w < v => Sinks)
<1>1. Stays => v = w
  BY DEF Stays
<1>2. Rises => v < w
  BY DEF Rises
<1>3. Sinks => w <= v
  BY DEF Sinks
<1>4. QED
  BY <1>1, <1>2, <1>3 DEF StepOK

\* An empty database satisfies the invariant.
LEMMA Start == Init => IInv
<1> SUFFICES ASSUME Init PROVE IInv
  OBVIOUS
<1>1. run = [o \in Operators |-> run[o]] /\ RunsOK
  BY Scripts DEF Init, Idle, RunsOK
<1>2. version \in 0 .. Last /\ NeverAtLast
  BY Scripts DEF Init, NeverAtLast
<1>3. SchemaFollowsVersion
  BY Schemas DEF Init, SchemaFollowsVersion
<1>4. CleanSoFar /\ RowsInTables
  BY DEF Init, CleanSoFar, RowsInTables
<1>5. QED
  BY <1>1, <1>2, <1>3, <1>4 DEF IInv

\* The schema of a run that passes revision 31 would need the missing column.
LEMMA NoCleanLast == ~Clean(Last)
<1>1. Last \in 1 .. Last /\ Last - 1 \in 0 .. Last /\ Last = 31
  BY Scripts
<1>2. <<"card_product_core", "code">> \in Script[Last].drops
  BY <1>1, SoundScript DEF Sound
<1>3. QED
  BY <1>1, <1>2, TablesOf DEF Clean

\* A run that commits, up or down, whatever it passes.
LEMMA CommitStep ==
    ASSUME IInv, NEW o \in Operators, Commit(o)
    PROVE  IInv' /\ StepOK
<1> USE Scripts
<1>1. PICK db : db = [ok |-> TRUE, schema |-> schema, types |-> types, rows |-> rows]
  OBVIOUS
<1>2. PICK v, n : v = run[o].seen /\ n = run[o].target
  OBVIOUS
<1>3. v \in 0 .. Last /\ n \in 0 .. Last /\ version = v
  BY <1>2 DEF IInv, RunsOK, Commit
<1>4. PICK r : r = Reached(db, v, n)
  OBVIOUS
<1>5. /\ r.ok
      /\ version' = n
      /\ schema' = r.schema
      /\ types' = r.types
      /\ rows' = r.rows
      /\ run' = [run EXCEPT ![o] = Idle]
  BY <1>1, <1>2, <1>4 DEF Commit
<1>6. /\ db.schema = SchemaOf[v]
      /\ db.types = types
      /\ db.rows = rows
      /\ \A t \in rows : <<t, "*">> \in SchemaOf[v]
      /\ \A j \in 1 .. v : Clean(j)
  BY <1>1, <1>3 DEF IInv, SchemaFollowsVersion, RowsInTables, CleanSoFar
<1>7. run' = [p \in Operators |-> run'[p]] /\ RunsOK'
  BY <1>5 DEF IInv, RunsOK, Idle
<1>8. SUFFICES /\ r.schema = SchemaOf[n]
               /\ \A j \in 1 .. n : Clean(j)
               /\ \A t \in r.rows : <<t, "*">> \in SchemaOf[n]
               /\ StepOK
  <2>1. \A j \in 1 .. n : Clean(j)
    BY <1>8
  <2>2. n # Last
    BY <1>3, <2>1, NoCleanLast
  <2>3. (version \in 0 .. Last)' /\ NeverAtLast'
    BY <1>3, <1>5, <2>2 DEF NeverAtLast
  <2>4. SchemaFollowsVersion'
    BY <1>5, <1>8 DEF SchemaFollowsVersion
  <2>5. CleanSoFar'
    BY <1>5, <2>1 DEF CleanSoFar
  <2>6. RowsInTables'
    BY <1>5, <1>8 DEF RowsInTables
  <2>7. QED
    BY <1>7, <1>8, <2>3, <2>4, <2>5, <2>6 DEF IInv
<1>9. CASE v < n
  <2>1. r = UpgradedTo(db, v, n) /\ n \in v .. Last
    BY <1>3, <1>4, <1>9 DEF Reached
  <2>2. /\ r.schema = SchemaOf[n]
        /\ \A j \in v + 1 .. n : Clean(j)
        /\ \A t \in db.rows \ r.rows : t \in DOMAIN Taken /\ v < Taken[t] /\ Taken[t] <= n
        /\ \A t \in r.rows :
              t \in db.rows /\ (<<t, "*">> \in SchemaOf[v] => <<t, "*">> \in SchemaOf[n])
        /\ \A j \in v + 1 .. n : Script[j].types \cap db.types = {}
    <3>1. UpgradedTo(db, v, n).ok
      BY <1>5, <2>1
    <3>2. QED
      <4>1. v \in 0 .. Last /\ db.schema = SchemaOf[v]
        BY <1>3, <1>6
      <4> HIDE Scripts
      <4>2. /\ UpgradedTo(db, v, n).schema = SchemaOf[n]
            /\ \A j \in v + 1 .. n : Clean(j)
            /\ \A t \in db.rows \ UpgradedTo(db, v, n).rows :
                  t \in DOMAIN Taken /\ v < Taken[t] /\ Taken[t] <= n
            /\ \A t \in UpgradedTo(db, v, n).rows :
                  t \in db.rows /\ (<<t, "*">> \in SchemaOf[v] => <<t, "*">> \in SchemaOf[n])
            /\ \A j \in v + 1 .. n : Script[j].types \cap db.types = {}
        BY <2>1, <3>1, <4>1, UpgradeRun
      <4>3. QED
        BY <2>1, <4>2, Zenon
  <2>3. \A j \in 1 .. n : Clean(j)
    <3>1. \A j \in 1 .. n : j \in 1 .. v \/ j \in v + 1 .. n
      BY <1>3
    <3>2. QED
      BY <1>6, <2>2, <3>1
  <2>4. StepOK
    <3>1. Rises
      BY <1>3, <1>5, <1>6, <1>9, <2>2, <2>3 DEF Rises
    <3>2. QED
      BY <3>1 DEF StepOK
  <2>5. QED
    BY <1>6, <2>2, <2>3, <2>4
<1>10. CASE ~(v < n)
  <2>1. r = DowngradedTo(db, v, n) /\ n \in 0 .. v
    BY <1>3, <1>4, <1>10 DEF Reached
  <2>2. /\ r.schema = SchemaOf[n]
        /\ \A j \in n + 1 .. v : Script[j].back
        /\ \A t \in db.rows \ r.rows : <<t, "*">> \notin SchemaOf[n]
        /\ \A t \in r.rows :
              t \in db.rows /\ (<<t, "*">> \in SchemaOf[v] => <<t, "*">> \in SchemaOf[n])
        /\ r.types = db.types
    <3>1. DowngradedTo(db, v, n).ok
      BY <1>5, <2>1
    <3>2. QED
      <4>1. v \in 0 .. Last /\ db.schema = SchemaOf[v] /\ \A j \in 1 .. v : Clean(j)
        BY <1>3, <1>6
      <4> HIDE Scripts
      <4>2. /\ DowngradedTo(db, v, n).schema = SchemaOf[n]
            /\ \A j \in n + 1 .. v : Script[j].back
            /\ \A t \in db.rows \ DowngradedTo(db, v, n).rows : <<t, "*">> \notin SchemaOf[n]
            /\ \A t \in DowngradedTo(db, v, n).rows :
                  t \in db.rows /\ (<<t, "*">> \in SchemaOf[v] => <<t, "*">> \in SchemaOf[n])
            /\ DowngradedTo(db, v, n).types = db.types
        BY <2>1, <3>1, <4>1, DowngradeRun
      <4>3. QED
        BY <2>1, <4>2, Zenon
  <2>3. \A j \in 1 .. n : Clean(j)
    BY <1>3, <1>6, <2>1
  <2>4. StepOK
    <3>1. version' <= version
      BY <1>3, <1>5, <1>10
    <3>2. Sinks
      BY <1>3, <1>5, <1>6, <2>2, <3>1 DEF Sinks
    <3>3. QED
      BY <3>2 DEF StepOK
  <2>5. QED
    BY <1>6, <2>2, <2>3, <2>4
<1>11. QED
  BY <1>9, <1>10

\* Every step keeps the invariant and does to the database what StepOK says.
LEMMA Step ==
    ASSUME IInv, [Next]_vars
    PROVE  IInv' /\ StepOK
<1>1. CASE UNCHANGED vars
  BY <1>1 DEF vars, IInv, RunsOK, NeverAtLast, SchemaFollowsVersion, CleanSoFar, RowsInTables,
         StepOK, Stays
<1>2. ASSUME NEW o \in Operators,
             NEW target \in (Targets \cup {version - 1, version + 1}) \cap 0 .. Last,
             Begin(o, target)
      PROVE  IInv' /\ StepOK
  <2>1. run' = [p \in Operators |-> run'[p]] /\ RunsOK'
    BY <1>2 DEF Begin, IInv, RunsOK
  <2>2. UNCHANGED <<version, schema, types, rows>>
    BY <1>2 DEF Begin
  <2>3. QED
    BY <2>1, <2>2 DEF IInv, NeverAtLast, SchemaFollowsVersion, CleanSoFar, RowsInTables,
       StepOK, Stays
<1>3. ASSUME NEW o \in Operators, Commit(o) PROVE IInv' /\ StepOK
  BY <1>3, CommitStep
<1>4. ASSUME NEW o \in Operators, Fail(o) PROVE IInv' /\ StepOK
  <2>1. run' = [p \in Operators |-> run'[p]] /\ RunsOK'
    BY <1>4, Scripts DEF Fail, IInv, RunsOK, Idle
  <2>2. UNCHANGED <<version, schema, types, rows>>
    BY <1>4 DEF Fail
  <2>3. QED
    BY <2>1, <2>2 DEF IInv, NeverAtLast, SchemaFollowsVersion, CleanSoFar, RowsInTables,
       StepOK, Stays
<1>5. ASSUME NEW t \in Watched, Fill(t) PROVE IInv' /\ StepOK
  BY <1>5 DEF Fill, IInv, RunsOK, NeverAtLast, SchemaFollowsVersion, CleanSoFar, RowsInTables,
         StepOK, Stays
<1>6. QED
  BY <1>1, <1>2, <1>3, <1>4, <1>5 DEF Next

------------------------------------------------------------------------------
(* Theorems *)

\* The versions, the path of every run and the executed scripts stay sound.
THEOREM Invariance == Spec => []IInv
<1>1. IInv /\ [Next]_vars => IInv'
  BY Step
<1>2. QED
  BY Start, <1>1, PTL DEF Spec

\* A database that says it is at a version has the schema of that version, for
\* any number of operators running alembic at the same time to any targets.
THEOREM SchemaIsOfVersion == Spec => []SchemaFollowsVersion
<1>1. IInv => SchemaFollowsVersion
  BY DEF IInv
<1>2. QED
  BY Invariance, <1>1, PTL

\* No sequence of runs takes a database to revision 31 or past it, and rows are
\* never without their table.
THEOREM LastIsOutOfReach == Spec => [](NeverAtLast /\ RowsInTables)
<1>1. IInv => NeverAtLast /\ RowsInTables
  BY DEF IInv
<1>2. QED
  BY Invariance, <1>1, PTL

\* Rows are lost only where an upgrade passes one of the three revisions that
\* replace or empty their table, and where a downgrade drops it.
THEOREM RowsAreKept == Spec => RowsLostOnlyThere
<1>1. IInv /\ [Next]_vars =>
          [\A t \in rows \ rows' :
              IF version < version'
              THEN t \in DOMAIN Taken /\ version < Taken[t] /\ Taken[t] <= version'
              ELSE <<t, "*">> \notin SchemaOf[version']]_vars
  <2> SUFFICES ASSUME IInv, [Next]_vars, NEW t \in rows \ rows'
               PROVE  IF version < version'
                      THEN t \in DOMAIN Taken /\ version < Taken[t] /\ Taken[t] <= version'
                      ELSE <<t, "*">> \notin SchemaOf[version']
    OBVIOUS
  <2>1. PICK v \in 0 .. 31, w \in 0 .. 31 : v = version /\ w = version'
    <3>1. IInv'
      BY Step
    <3>2. QED
      BY <3>1, Scripts DEF IInv
  <2>2. StepOK
    BY Step
  <2>3. CASE v < w
    <3>1. Rises
      BY <2>1, <2>2, <2>3, RisesOrSinks
    <3>2. QED
      BY <2>1, <2>3, <3>1 DEF Rises
  <2>4. CASE ~(v < w)
    <3>1. ~Stays
      BY DEF Stays
    <3>2. ~Rises
      BY <2>1, <2>4 DEF Rises
    <3>3. Sinks
      BY <2>2, <3>1, <3>2 DEF StepOK
    <3>4. <<t, "*">> \notin SchemaOf[version']
      BY <3>3 DEF Sinks
    <3>5. QED
      BY <2>1, <2>4, <3>4
  <2>5. QED
    BY <2>3, <2>4
<1>2. QED
  BY Invariance, <1>1, PTL DEF Spec, RowsLostOnlyThere

\* No completed run undoes revision 7, 18 or 23.
THEOREM SomeRevisionsAreFinal == Spec => NoReturn
<1>1. IInv /\ [Next]_vars => [\A k \in FinalRevisions : version >= k => version' >= k]_vars
  <2> SUFFICES ASSUME IInv, [Next]_vars, NEW k \in FinalRevisions, version >= k, ~(version' >= k)
               PROVE  FALSE
    OBVIOUS
  <2>1. PICK v \in 0 .. 31, w \in 0 .. 31 : v = version /\ w = version'
    <3>1. IInv'
      BY Step
    <3>2. QED
      BY <3>1, Scripts DEF IInv
  <2>2. k \in {7, 18, 23} /\ k \in w + 1 .. v /\ k \in 1 .. Last
    <3>1. k \in {7, 18, 23}
      BY DEF FinalRevisions
    <3>2. v >= k /\ ~(w >= k)
      BY <2>1
    <3>3. QED
      BY <3>1, <3>2, Scripts
  <2>3. Script[k].back
    <3>1. StepOK
      BY Step
    <3>2. QED
      <4>1. w < v
        BY <2>2
      <4>2. Sinks
        BY <2>1, <3>1, <4>1, RisesOrSinks
      <4>3. \A j \in w + 1 .. v : Script[j].back
        BY <2>1, <4>2, Zenon DEF Sinks
      <4>4. QED
        BY <2>2, <4>3
  <2>4. ~Script[k].back
    BY <2>2, SoundScript DEF Sound
  <2>5. QED
    BY <2>3, <2>4
<1>2. QED
  BY Invariance, <1>1, PTL DEF Spec, NoReturn

\* A database that was taken below a revision that creates an enumerated type
\* never passes that revision again.
THEOREM TypesBarTheWayUp == Spec => StaysBelow
<1>1. IInv /\ [Next]_vars =>
          [\A k \in 1 .. Last :
              Script[k].types \cap types # {} /\ version < k => version' < k]_vars
  <2> SUFFICES ASSUME IInv, [Next]_vars, NEW k \in 1 .. Last,
                      Script[k].types \cap types # {}, version < k, ~(version' < k)
               PROVE  FALSE
    OBVIOUS
  <2>1. PICK v \in 0 .. 31, w \in 0 .. 31 : v = version /\ w = version'
    <3>1. IInv'
      BY Step
    <3>2. QED
      BY <3>1, Scripts DEF IInv
  <2>2. k \in v + 1 .. w
    BY <2>1, Scripts
  <2>3. StepOK
    BY Step
  <2>4. Rises
    <3>1. v < w
      BY <2>2
    <3>2. QED
      BY <2>1, <2>3, <3>1, RisesOrSinks
  <2>5. \A j \in v + 1 .. w : Script[j].types \cap types = {}
    BY <2>1, <2>4, Zenon DEF Rises
  <2>6. QED
    BY <2>2, <2>5, Zenon
<1>2. QED
  BY Invariance, <1>1, PTL DEF Spec, StaysBelow
==============================================================================
