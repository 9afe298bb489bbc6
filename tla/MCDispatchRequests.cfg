SPECIFICATION DispatchSpec
CONSTANTS
    OrderIds = {o1}
    Couriers = {c1}
    Orgs = {g1}
    Handlers = {h1, h2}
    None = None
    MaxEvents = 2
    OrgOf <- MCOrgOf
    Copies = {k1, k2}
    MaxFailures = 0
    MaxForgotten = 0
SYMMETRY Symm
CHECK_DEADLOCK FALSE
INVARIANTS CourierOnlyAfterReady
PROPERTIES DeletedStaysDeleted
