SPECIFICATION Spec
CONSTANTS
    OrderIds = {o1}
    Couriers = {c1, c2}
    Orgs = {g1}
    Handlers = {h1, h2}
    None = None
    MaxEvents = 3
    OrgOf <- MCOrgOf
SYMMETRY Symm
CHECK_DEADLOCK FALSE
INVARIANTS UnderwayHasCourier
