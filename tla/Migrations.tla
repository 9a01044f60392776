------------------------------ MODULE Migrations ------------------------------
(***************************************************************************)
(* The database schema as the Alembic scripts build it: revisions 1 to 31  *)
(* in their order of down_revision.  A run of the alembic command reads    *)
(* the version of the database and executes the scripts to its target in   *)
(* one transaction, which ends by setting the version; when one statement  *)
(* fails, nothing of the run remains.                                      *)
(*                                                                         *)
(* The schema is a set of <<table, object>>: an object is the table itself *)
(* ("*"), or a column or constraint that a later revision touches or that  *)
(* is added alone.  Indexes, which follow their columns, types of columns  *)
(* and nullability are left out, except where they make a statement fail.  *)
(* Revision 31 drops a column that no revision creates, so no database     *)
(* built by these scripts reaches it, nor the 22 revisions after it.       *)
(***************************************************************************)
EXTENDS Integers, Sequences

CONSTANTS
    Operators,   \* those who run alembic
    Watched,     \* tables whose rows are of interest
    Targets      \* versions to which a run may go, besides the next and the last one

ASSUME MigrationsAssumption == Targets \subseteq 0 .. 31

VARIABLES
    version,     \* row of alembic_version
    schema,      \* objects in the database
    types,       \* enumerated types in the database
    rows,        \* watched tables that hold rows
    run          \* run[o]: version read and target of the run in progress

vars == <<version, schema, types, rows, run>>

Objects(table, names) == {table} \X names
Tables(names) == names \X {"*"}
With(table, names) == Objects(table, names \cup {"*"})

\* A revision whose downgrade undoes exactly what its upgrade did.
Revision(makes, drops) ==
    [makes |-> makes, drops |-> drops,
     undoes |-> makes, restores |-> drops,   \* what the downgrade drops and makes
     types |-> {},                           \* created with a table; no downgrade drops them
     deletes |-> {},                         \* tables of which the rows are deleted
     empty |-> {},                           \* tables given a mandatory column without default
     back |-> TRUE]                          \* FALSE: a statement of the downgrade always fails

Revision1 ==
    [Revision(Tables({"admins"})
              \cup With("users", {"role", "phone_number_key"})
              \cup With("auth_credentials", {"created_at"})
              \cup With("customer_profiles", {"kyc_status"}), {})
     EXCEPT !.types = {"userrole"}]

\* kycstatus is created only when missing.
Revision2 ==
    [Revision(With("customer_addresses", {"is_current", "residence_type"})
              \cup With("employment_details", {"job_title", "employer_name", "employer_country"})
              \cup Tables({"financial_information", "kyc_records"})
              \cup {<<"auth_credentials", "password_updated_at">>, <<"users", "country_code">>}
              \cup Objects("customer_profiles", {"suffix", "updated_by"}),
              {<<"auth_credentials", "created_at">>}
              \cup Objects("users", {"role", "phone_number_key"}))
     EXCEPT !.types = {"employmenttype"}, !.empty = {"users"}]

Revision3 == [Revision(Tables({"otp_codes"}), {}) EXCEPT !.types = {"otppurpose"}]

Revision4 == Revision(Tables({"pending_registrations"}), {})

Revision5 == Revision({<<"users", "is_cif_completed">>}, {})

ContactColumns ==
    {"citizenship_document_type", "citizenship_number_hash", "primary_mobile_country_code",
     "primary_mobile_number", "alternate_mobile_number", "timezone"}

\* Mutation of Revision6: the downgrade leaves a column it should drop.
Revision6Leaves ==
    [Revision(Objects("customer_profiles", ContactColumns \cup {"preferred_communication"}), {})
     EXCEPT !.undoes = Objects("customer_profiles", ContactColumns)]

Revision6 ==
    Revision(Objects("customer_profiles", ContactColumns \cup {"preferred_communication"}), {})

TermsColumns == {"terms_accepted_at", "terms_ip_address", "terms_user_agent"}

\* Columns of enumerated types become strings, and the downgrade would turn
\* strings into enumerated types again, which needs a USING it does not have.
Revision7 ==
    [Revision(Tables({"fatca_declarations"})
              \cup Objects("customer_profiles",
                           TermsColumns \cup {"cif_number", "customer_status", "pep_flag",
                                              "high_risk_flag", "fatca_required"}), {})
     EXCEPT !.back = FALSE]

Revision8 ==
    Revision(Objects("employment_details", {"organisation_name", "organisation_country",
                                            "designation"}),
             Objects("employment_details", {"job_title", "employer_name", "employer_country"}))

Revision9 == Revision({<<"customer_profiles", "kyc_reupload_requested">>}, {})

Revision10 == Revision({}, {})

Revision11 ==
    Revision(Objects("customer_profiles", {"gender", "marital_status", "preferred_language"}),
             Objects("customer_profiles", ContactColumns \cup TermsColumns))

\* Mutation of Revision12: the table is made anew instead of altered.
Revision12Recreates ==
    [Revision(Objects("customer_addresses", {"address_type", "same_as_current",
                                             "is_kyc_verified"}),
              Objects("customer_addresses", {"is_current", "residence_type"}))
     EXCEPT !.deletes = {"customer_addresses"}]

Revision12 ==
    Revision(Objects("customer_addresses", {"address_type", "same_as_current",
                                            "is_kyc_verified"}),
             Objects("customer_addresses", {"is_current", "residence_type"}))

Revision13 == Revision({<<"customer_addresses", "residence_type">>}, {})

Revision14 ==
    Revision(Tables({"kyc_document_submissions", "risk_compliance_logs", "kyc_otp_verifications"})
             \cup Objects("customer_profiles", {"kyc_state", "primary_jurisdiction"}),
             Tables({"kyc_records"}) \cup {<<"customer_profiles", "kyc_status">>})

Revision15 == Revision({<<"users", "is_kyc_completed">>}, {})

CreditProductTables ==
    With("credit_product_information", {"product_sub_category"})
    \cup With("credit_product_fees", {"foreign_markup_fee_pct"})
    \cup With("credit_product_governance", {"approved_by_fkey", "created_by_fkey",
                                            "updated_by_fkey"})
    \cup Tables({"card_product_core", "credit_product_accounting_mapping",
                 "credit_product_compliance_metadata", "credit_product_eligibility_rules",
                 "credit_product_interest_framework", "credit_product_international_config",
                 "credit_product_limits"})

CardProductTables ==
    With("card_transaction_controls", {"atm_enabled", "pos_enabled", "ecommerce_enabled"})
    \cup With("card_usage_limits", {"international_txn_daily_cap"})
    \cup Tables({"card_authorization_rules", "card_billing_configuration",
                 "card_fraud_risk_profile", "card_lifecycle_rules", "card_product_governance",
                 "card_rewards_configuration"})

Revision16 ==
    Revision(CreditProductTables \cup CardProductTables
             \cup With("credit_account", {"sanctioned_limit"})
             \cup With("credit_card_application", {"risk_band", "cibil_score"})
             \cup Tables({"card"}), {})

Revision17 == [Revision({<<"admins", "password_hash">>}, {}) EXCEPT !.deletes = {"admins"}]

\* PostgreSQL names the constraint; the downgrade drops one without a name.
Revision18 == [Revision(Objects("admins", {"contact", "contact_key"}), {}) EXCEPT !.back = FALSE]

DeliveryColumns ==
    {"residential_status", "years_at_current_address", "preferred_billing_cycle",
     "statement_delivery_mode", "card_delivery_address_type", "preferred_branch_code"}

ApplicantColumns ==
    {"income_frequency", "occupation", "employer_name", "work_experience_years",
     "existing_emis_monthly", "has_existing_credit_card", "existing_cards_count",
     "approx_credit_limit_total", "nominee_name", "nominee_relationship",
     "consent_terms_accepted", "consent_credit_bureau_check",
     "consent_marketing_communication", "application_declaration_accepted"}

Revision19 ==
    [Revision(Tables({"audit_log", "bureau_report", "credit_decision", "fraud_flag",
                      "risk_assessment"})
              \cup Objects("card", {"expiry_date_masked", "cvv_encrypted", "cvv_masked"})
              \cup Objects("credit_card_application", ApplicantColumns \cup DeliveryColumns),
              Objects("credit_card_application", {"risk_band", "cibil_score"}))
     EXCEPT !.empty = {"card"}]

Revision20 == Revision({}, Objects("credit_card_application", DeliveryColumns))

Revision21 == Revision(Objects("credit_card_application", DeliveryColumns), {})

Revision22 ==
    Revision(Objects("admins", {"first_name", "middle_name", "last_name", "suffix",
                                "country_code", "phone_number"}),
             Objects("admins", {"contact", "contact_key"}))

\* The foreign keys are dropped and made again under the same names.
Revision23 == [Revision({}, {}) EXCEPT !.back = FALSE]

Revision24 == Revision({}, {})

Revision25 ==
    Revision(Objects("credit_account", {"created_by", "approved_by", "created_by_admins",
                                        "approved_by_admins"}), {})

Revision26 == Revision({<<"credit_product_governance", "rejection_reason">>}, {})

Revision27 == Revision({<<"credit_card_application", "rejection_reason">>}, {})

Revision28 == Revision(Objects("credit_account", {"card_product_id", "card_product_fkey"}), {})

Revision29 == Revision(Objects("credit_account", {"application_id", "application_fkey"}), {})

Revision30 ==
    Revision(Tables({"card_fx_configuration"})
             \cup Objects("card_transaction_controls",
                          {"pos_allowed", "ecommerce_allowed", "atm_withdrawal_allowed",
                           "international_txn_allowed", "international_txn_limit_cap",
                           "international_cash_allowed"}),
             Tables({"credit_product_international_config"})
             \cup Objects("card_transaction_controls", {"atm_enabled", "pos_enabled",
                                                        "ecommerce_enabled"})
             \cup {<<"card_usage_limits", "international_txn_daily_cap">>,
                   <<"credit_product_fees", "foreign_markup_fee_pct">>})

\* No revision makes card_product_core.code.
Revision31 ==
    [Revision(Objects("card", {"card_product_id", "activation_date",
                               "international_usage_enabled", "ecommerce_enabled",
                               "atm_enabled"})
              \cup Objects("credit_account",
                           {"credit_limit", "cash_advance_limit", "billing_cycle_id",
                            "internal_risk_rating", "aml_risk_category", "overlimit_allowed",
                            "overlimit_percentage", "revolving_credit_enabled",
                            "autopay_enabled", "autopay_type"}),
              {<<"card_product_core", "code">>, <<"credit_account", "sanctioned_limit">>,
               <<"credit_product_information", "product_sub_category">>})
     EXCEPT !.empty = {"card", "credit_account"}, !.back = FALSE]

\* The scripts in the order of their down_revision.
Script ==
    <<Revision1, Revision2, Revision3, Revision4, Revision5, Revision6, Revision7, Revision8,
      Revision9, Revision10, Revision11, Revision12, Revision13, Revision14, Revision15,
      Revision16, Revision17, Revision18, Revision19, Revision20, Revision21, Revision22,
      Revision23, Revision24, Revision25, Revision26, Revision27, Revision28, Revision29,
      Revision30, Revision31>>

Last == Len(Script)

\* Rows of a table that is dropped go with it.
RowsWithout(kept, objects) == {t \in kept : <<t, "*">> \notin objects}

\* The database after upgrade() or downgrade() of a script; ok is FALSE as
\* soon as a statement cannot be executed.
Upgraded(db, s) ==
    [ok |-> /\ db.ok
            /\ s.makes \cap db.schema = {}
            /\ s.drops \subseteq db.schema
            /\ s.types \cap db.types = {}
            /\ s.empty \cap db.rows = {},
     schema |-> (db.schema \ s.drops) \cup s.makes,
     types |-> db.types \cup s.types,
     rows |-> RowsWithout(db.rows, s.drops) \ s.deletes]

Downgraded(db, s) ==
    [ok |-> /\ db.ok
            /\ s.back
            /\ s.undoes \subseteq db.schema
            /\ s.restores \cap db.schema = {},
     schema |-> (db.schema \ s.undoes) \cup s.restores,
     types |-> db.types,
     rows |-> RowsWithout(db.rows, s.undoes)]

\* The scripts after version from up to version to, and back down.
UpgradedTo(db, from, to) ==
    LET after[n \in from .. to] ==
            IF n = from THEN db ELSE Upgraded(after[n - 1], Script[n])
    IN  after[to]

DowngradedTo(db, from, to) ==
    LET after[n \in to .. from] ==
            IF n = from THEN db ELSE Downgraded(after[n + 1], Script[n + 1])
    IN  after[to]

\* The database after a run of the command.
Reached(db, from, to) ==
    IF from < to THEN UpgradedTo(db, from, to) ELSE DowngradedTo(db, from, to)

Empty == [ok |-> TRUE, schema |-> {}, types |-> {}, rows |-> {}]

Idle == [seen |-> 0, target |-> 0]

Init ==
    /\ version = 0
    /\ schema = {}
    /\ types = {}
    /\ rows = {}
    /\ run = [o \in Operators |-> Idle]

\* alembic upgrade or downgrade: reads the version and plans the path.
Begin(o, target) ==
    /\ run[o] = Idle
    /\ target # version
    /\ run' = [run EXCEPT ![o] = [seen |-> version, target |-> target]]
    /\ UNCHANGED <<version, schema, types, rows>>

\* The transaction commits: every statement was executed, and the row of
\* alembic_version still held the version that the run started from.
Commit(o) ==
    LET db == Reached([ok |-> TRUE, schema |-> schema, types |-> types, rows |-> rows],
                      run[o].seen, run[o].target)
    IN  /\ run[o] # Idle
        /\ run[o].seen = version
        /\ db.ok
        /\ version' = run[o].target
        /\ schema' = db.schema
        /\ types' = db.types
        /\ rows' = db.rows
        /\ run' = [run EXCEPT ![o] = Idle]

\* A statement failed, because of the schema, of the values in the rows, or
\* of another run that committed first; or the operator interrupted the run.
Fail(o) ==
    /\ run[o] # Idle
    /\ run' = [run EXCEPT ![o] = Idle]
    /\ UNCHANGED <<version, schema, types, rows>>

\* The application writes rows.
Fill(t) ==
    /\ <<t, "*">> \in schema
    /\ t \notin rows
    /\ rows' = rows \cup {t}
    /\ UNCHANGED <<version, schema, types, run>>

Next ==
    \/ \E o \in Operators :
          \/ \E target \in (Targets \cup {version - 1, version + 1}) \cap 0 .. Last :
                Begin(o, target)
          \/ Commit(o)
          \/ Fail(o)
    \/ \E t \in Watched : Fill(t)

Spec == Init /\ [][Next]_vars

--------------------------------------------------------------------------------
(* Properties *)

\* The schema that a straight upgrade of an empty database to version n makes.
SchemaOf == [n \in 0 .. Last |-> Reached(Empty, 0, n).schema]

\* Whatever upgrades and downgrades were run, one after the other or two at
\* a time, completed or failed half-way, a database that says it is at a
\* version has the tables and columns of that version: the downgrades of the
\* scripts reverse their upgrades, and the version changes with the schema.
SchemaFollowsVersion == schema = SchemaOf[version]

\* The revisions that take the rows of a table with them.
Taken == [t \in {"kyc_records", "admins", "credit_product_international_config"} |->
              CASE t = "kyc_records" -> 14 [] t = "admins" -> 17 [] OTHER -> 30]

\* An upgrade loses the rows of a table only where it passes the revision
\* that replaces the table or empties it (f16ca6ef7f52 for the records of
\* identity checks, 6011f54b952f for administrators, 49d94bae5339 for the
\* international configuration), and a downgrade only the rows of the tables
\* that the older version does not have.
RowsLostOnlyThere ==
    [][\A t \in rows \ rows' :
          IF version < version'
          THEN t \in DOMAIN Taken /\ version < Taken[t] /\ Taken[t] <= version'
          ELSE <<t, "*">> \notin SchemaOf[version']]_vars
===============================================================================
