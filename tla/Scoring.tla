------------------------------- MODULE Scoring -------------------------------
(***************************************************************************)
(* The engines behind an application: the simulated bureau score, the      *)
(* fraud flags, the risk band, and the two decisions made from them, one   *)
(* before the application is stored and one when it is evaluated.  Incomes *)
(* are whole rupees.                                                       *)
(***************************************************************************)
EXTENDS Integers

EmploymentPoints ==
    [FULL_TIME |-> 50, PART_TIME |-> 10, SELF_EMPLOYED |-> 20, CONTRACTOR |-> 15,
     STUDENT |-> -10, RETIRED |-> 30, UNEMPLOYED |-> -50]

Employments == DOMAIN EmploymentPoints
Severities == {"MEDIUM", "HIGH", "CRITICAL"}

Clamp(low, high, n) == IF n < low THEN low ELSE IF n > high THEN high ELSE n

AgePoints(age) ==
    CASE age < 25 -> -30
      [] age \in 25 .. 35 -> 10
      [] age \in 36 .. 50 -> 30
      [] age > 50 -> 40

\* One point for 2000 a year, up to 100; in floating point these three
\* incomes fall short of their last point.
IncomePoints(income) ==
    Clamp(0, 100, (income \div 2000) - (IF income \in {58000, 114000, 116000} THEN 1 ELSE 0))

\* "a tiny deterministic random-like variation"
Variation(age, income) == ((age * 13 + (income % 17)) % 20) - 10

\* Mutation of BureauScore: without the points for a completed KYC.
BureauScoreNoKyc(age, income, employment) ==
    Clamp(300, 900, 600 + AgePoints(age) + IncomePoints(income) + EmploymentPoints[employment]
                        + Variation(age, income))

\* The callers pass a completed KYC and India, which is worth 50 points.
BureauScore(age, income, employment) ==
    Clamp(300, 900, 600 + AgePoints(age) + IncomePoints(income) + EmploymentPoints[employment]
                        + 50 + Variation(age, income))

\* The severities of the flags raised.  The callers pass India for both
\* countries, so that RESIDENCY_MISMATCH, of severity HIGH, is not.
FraudFlags(declared, verified, velocity, maxVelocity) ==
    (IF declared > 2 * verified THEN {"MEDIUM"} ELSE {})
    \cup (IF velocity > maxVelocity THEN {"CRITICAL"} ELSE {})

ScoreBand(score) ==
    CASE score >= 750 -> "LOW"
      [] score \in 650 .. 749 -> "MEDIUM"
      [] score \in 550 .. 649 -> "HIGH"
      [] score < 550 -> "VERY_HIGH"

\* One band up, no further than HIGH.
Elevated(band) ==
    CASE band = "LOW" -> "MEDIUM"
      [] band = "MEDIUM" -> "HIGH"
      [] band \in {"HIGH", "VERY_HIGH"} -> band

RiskBand(score, flags, declared) ==
    LET base == ScoreBand(score)
        byIncome == IF declared < 20000 THEN Elevated(base) ELSE base
    IN  CASE "CRITICAL" \in flags -> "VERY_HIGH"
          [] "CRITICAL" \notin flags /\ "HIGH" \in flags -> "HIGH"
          [] flags \cap {"CRITICAL", "HIGH"} = {} ->
               IF "MEDIUM" \in flags THEN Elevated(byIncome) ELSE byIncome

\* run_engines_pre_assessment: an application that is stored.
Eligible(score, declared, flags, rules) ==
    /\ score >= rules.score
    /\ declared >= rules.income
    /\ "CRITICAL" \notin flags

\* evaluate_application: the decision on what was stored.
Decision(score, declared, flags, rules) ==
    IF \/ score < rules.score
       \/ RiskBand(score, flags, declared) = "VERY_HIGH"
       \/ "CRITICAL" \in flags
       \/ declared < rules.income
    THEN "REJECTED" ELSE "APPROVED"
==============================================================================
