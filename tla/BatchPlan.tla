------------------------------ MODULE BatchPlan ------------------------------
(***************************************************************************)
(* What BatchAssignmentService.rebalance() decides between its last read    *)
(* and its first write (src/backend/src/modules/courier-assignment/         *)
(* batch-assignment.service.ts): which of the orders it has loaded go to    *)
(* which courier.  Kilometres are whole numbers here.                       *)
(*                                                                         *)
(* An order is [id, courier, km], a courier [id, online, active, km]: km of *)
(* the courier is the way to the pickup of each order, km of the order the  *)
(* way from there to its client.                                            *)
(***************************************************************************)
EXTENDS Hungarian, Sequences

CONSTANT CourierCapacity   \* COURIER_CAPACITY, which is 3: the slots of a courier

ASSUME CapacityAssumption == CourierCapacity \in Nat \ {0}

LoadPenaltyKm == 3
DummyCost     == 1000 * 1000

pairCost(order, courier, slot) ==
    LET approach == IF courier.online THEN courier.km[order.id] ELSE DummyCost \div 4
        load     == courier.active + slot + 1
    IN  approach + order.km + load * load * LoadPenaltyKm

currentAssignmentCost(order, couriers) ==
    LET own == {i \in DOMAIN couriers : couriers[i].id = order.courier}
    IN  IF own = {} THEN DummyCost
        ELSE pairCost(order, couriers[CHOOSE i \in own : TRUE], 0)

\* Mutant: two slots too many.
OwnerWithSpare(couriers, j) == couriers[((j - 1) \div (CourierCapacity + 2)) + 1]

\* The courier of column j, which is slot (j - 1) % CourierCapacity.
SlotOwner(couriers, j) == couriers[((j - 1) \div CourierCapacity) + 1]

\* buildCostMatrix and padToSquare
CostMatrix(orders, couriers) ==
    LET slots == CourierCapacity * Len(couriers)
        size  == IF Len(orders) > slots THEN Len(orders) ELSE slots
    IN  [i \in 1..size |-> [j \in 1..size |->
            IF i <= Len(orders) /\ j <= slots
            THEN pairCost(orders[i], SlotOwner(couriers, j), (j - 1) % CourierCapacity)
            ELSE DummyCost]]

\* The saving is REASSIGN_THRESHOLD, 15 %, of the cost now, or more.
Worthwhile(cost, now) == 100 * (now - cost) >= 15 * now

\* The moves for sequences of orders and couriers as the SELECTs return them.
Moves(orders, couriers) ==
    LET matrix == CostMatrix(orders, couriers)
        column == hungarian(matrix, Len(matrix))
        placed == {i \in DOMAIN orders : column[i] <= CourierCapacity * Len(couriers)}
        owner(i) == SlotOwner(couriers, column[i]).id
    IN  IF orders = <<>> \/ couriers = <<>> THEN {}
        ELSE {[order |-> orders[i].id, from |-> orders[i].courier, to |-> owner(i)] :
                 i \in {k \in placed :
                           /\ owner(k) # orders[k].courier
                           /\ Worthwhile(matrix[k][column[k]],
                                         currentAssignmentCost(orders[k], couriers))}}

=============================================================================
