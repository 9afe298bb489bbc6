SPECIFICATION Spec
CONSTANTS
    CourierCapacity = 3
    HELD_KARP_LIMIT = 4
    Matrices <- MCMatrices
    Batches <- MCBatches
    Symmetric <- MCSymmetric
    Trips <- MCTrips
    Fees <- MCFees
CHECK_DEADLOCK FALSE
INVARIANTS
    HungarianOptimal PlanPlacesOrders PolishedTour RouteFollowsRoads LegsAgree
    EtaFollowsRoutes FeeMonotone ItemsAddUp
