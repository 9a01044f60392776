CONSTANTS
    o1 = o1 o2 = o2
    Operators = {o1, o2}
    Watched = {"users", "admins", "kyc_records", "customer_addresses", "credit_product_international_config"}
    Targets = {0, 30, 31}
SPECIFICATION Spec
SYMMETRY Symmetry
INVARIANT SchemaFollowsVersion
PROPERTY RowsLostOnlyThere
