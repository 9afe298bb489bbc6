SPECIFICATION BatchSpec
CONSTANTS
    OrderIds = {o1}
    Couriers = {c1, c2}
    Orgs = {g1}
    Handlers = {h1}
    None = None
    MaxEvents = 9
    OrgOf <- MCOrgOf
    Queries = {q1}
    Batches = {b1}
    CourierCapacity = 1
    Distances = {1, 60}
VIEW BatchView
SYMMETRY Symm
CHECK_DEADLOCK FALSE
INVARIANTS RouteStaleDuringRunOnly AnnouncedIsMine
