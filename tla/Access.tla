------------------------------- MODULE Access --------------------------------
(* Who may call what: ROLE_PERMISSIONS for the endpoints that are modelled,   *)
(* and the check made by require().                                           *)

Roles == {"SUPERADMIN", "ADMIN", "MANAGER", "SALES", "USER"}
Staff == Roles \ {"USER"}

\* The roles named for a permission.
Allowed ==
    [admin_create          |-> {"SUPERADMIN"},
     application_evaluate  |-> {"MANAGER"},
     application_configure |-> {"MANAGER"},
     product_create        |-> {"ADMIN", "SUPERADMIN"},
     product_status        |-> {"MANAGER"},
     product_delete        |-> {"MANAGER"}]

\* A SUPERADMIN passes every check.
May(role, permission) == role \in Allowed[permission] \cup {"SUPERADMIN"}
==============================================================================
