CONSTANTS
    super = super manager = manager p1 = p1 c1 = c1 c2 = c2 t1 = t1 t2 = t2 b1 = b1 b2 = b2
    Threads = {t1}
    Admins = {super, manager}
    RoleOf <- MCRoleOf
    CreditProducts = {p1}
    CardProducts = {c1}
    None = None
    Submitters = {b1, b2}
    Applicants <- MCApplicants
    Rules <- MCRules
    MaxVelocity = 1
    MaxAccounts = 1
SYMMETRY Symmetry
SPECIFICATION Spec
INVARIANT EvaluationConfirms
INVARIANT OneAccountEach
INVARIANT ApplicationsBounded
PROPERTY ProductsSpec
