SPECIFICATION DispatchSpec
CONSTANTS
    OrderIds = {o1}
    Couriers = {c1, c2}
    Orgs = {g1}
    Handlers = {h1}
    None = None
    MaxEvents = 1
    OrgOf <- MCOrgOf
    Copies = {k1, k2}
    MaxFailures = 1
    MaxForgotten = 1
CHECK_DEADLOCK FALSE
PROPERTIES CourierChangesOnlyWhenReady
