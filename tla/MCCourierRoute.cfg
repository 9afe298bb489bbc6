SPECIFICATION RouteSpec
CONSTANTS
    OrderIds = {o1}
    Couriers = {c1, c2}
    Orgs = {g1}
    Handlers = {h1, h2}
    None = None
    MaxEvents = 9
    OrgOf <- MCOrgOf
    Queries = {q1}
VIEW RouteView
SYMMETRY Symm
CHECK_DEADLOCK FALSE
INVARIANTS StaleRouteHasCause
