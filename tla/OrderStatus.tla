----------------------------- MODULE OrderStatus -----------------------------
(***************************************************************************)
(* The order statuses and the table of the transitions the backend allows  *)
(* (src/backend/src/common/enums/order-status.enum.ts).                    *)
(***************************************************************************)

Status == {"PENDING", "ACCEPTED", "READY_FOR_DELIVERY", "PICKED_UP", "DELIVERED"}

\* ORDER_STATUS_TRANSITIONS: what each status may be followed by.
Transitions ==
    [PENDING            |-> {"ACCEPTED"},
     ACCEPTED           |-> {"READY_FOR_DELIVERY"},
     READY_FOR_DELIVERY |-> {"PICKED_UP"},
     PICKED_UP          |-> {"DELIVERED"},
     DELIVERED          |-> {}]

\* The statuses in which an order is work for a courier (the filter of the
\* workload counts, of the courier's list and of the route query).
ActiveStatus == {"READY_FOR_DELIVERY", "PICKED_UP"}

=============================================================================
