CONSTANTS
    super = super admin = admin manager = manager p1 = p1 c1 = c1 c2 = c2 t1 = t1 t2 = t2
    Threads = {t1, t2}
    Admins = {super, admin, manager}
    RoleOf <- MCRoleOf
    CreditProducts = {p1}
    CardProducts = {c1, c2}
    None = None
SYMMETRY Symmetry
SPECIFICATION ProductsSpec
INVARIANT FourEyes
INVARIANT LaunchedUnderApproved
INVARIANT NoOrphans
