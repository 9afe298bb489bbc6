----------------------------- MODULE Decisions -----------------------------
(***************************************************************************)
(* The decisions the backend computes from what it has read, each made once *)
(* of each kind: the assignment of orders to couriers, the plan of a batch  *)
(* run, and the delivery fee.  The input of a call is chosen, its output is *)
(* what the code returns.                                                   *)
(***************************************************************************)
EXTENDS BatchPlan, Pricing

CONSTANTS
    Matrices,     \* square cost matrices for hungarian
    Batches,      \* [orders, couriers] for the plan of a batch run
    Fees          \* [distance, at, active, couriers, rows] for quote

ASSUME MatricesAssumption ==
    \A m \in Matrices : m \in Seq(Seq(Int)) /\ \A i \in DOMAIN m : Len(m[i]) = Len(m)

FarthestKm == 21 * 1000     \* more than halfway round the earth

\* The orders and the couriers are rows of tables, no way is longer than that,
\* and no courier has hundreds of orders.
ASSUME BatchesAssumption ==
    \A b \in Batches :
        /\ b.orders \in Seq(ToSet(b.orders)) /\ b.couriers \in Seq(ToSet(b.couriers))
        /\ \A i, j \in DOMAIN b.orders : b.orders[i].id = b.orders[j].id => i = j
        /\ \A i, j \in DOMAIN b.couriers : b.couriers[i].id = b.couriers[j].id => i = j
        /\ \A o \in ToSet(b.orders) : o.km \in 0..FarthestKm
        /\ \A c \in ToSet(b.couriers) :
              /\ c.online \in BOOLEAN /\ c.active \in Nat /\ c.active + CourierCapacity <= 400
              /\ \A o \in ToSet(b.orders) : c.km[o.id] \in 0..FarthestKm

\* A distance is not negative, and the orders and the couriers are counted.
ASSUME FeesAssumption ==
    \A f \in Fees : f.distance \in Nat /\ f.active \in Nat /\ IsFiniteSet(f.couriers)

VARIABLE call     \* the call made: [fn, input, output]

NoCall == [fn |-> "none"]

Init == call = NoCall

Call(fn, input, output) ==
    /\ call = NoCall
    /\ call' = [fn |-> fn, input |-> input, output |-> output]

Assign == \E m \in Matrices : Call("hungarian", m, hungarian(m, Len(m)))

Rebalance == \E b \in Batches : Call("rebalance", b, Moves(b.orders, b.couriers))

\* quoteDelivery
Quote == \E f \in Fees :
    Call("quote", f, quote(f.distance, f.at, f.active, f.couriers, f.rows))

Decide == Assign \/ Rebalance \/ Quote

DecisionSpec == Init /\ [][Decide]_call

-----------------------------------------------------------------------------
\* Properties

Sum(w, n) ==
    LET sum[k \in 0..n] == IF k = 0 THEN 0 ELSE sum[k - 1] + w[k] IN sum[n]

\* hungarian() gives every row a column of its own, at the least total cost of
\* all the ways to do so.
HungarianOptimal ==
    call.fn = "hungarian" =>
        LET rows == DOMAIN call.input
            total(f) == Sum([i \in rows |-> call.input[i][f[i]]], Len(call.input))
        IN  /\ call.output \in Bijection(rows, rows)
            /\ \A f \in Bijection(rows, rows) : total(call.output) <= total(f)

\* A batch run moves no more orders to a courier than the courier has slots,
\* and as long as there are slots for all, no loaded order stays without one.
PlanPlacesOrders ==
    call.fn = "rebalance" =>
        LET orders == ToSet(call.input.orders)
            couriers == ToSet(call.input.couriers)
        IN  /\ \A c \in couriers :
                  Cardinality({m \in call.output : m.to = c.id}) <= CourierCapacity
            /\ Cardinality(orders) <= CourierCapacity * Cardinality(couriers) =>
                  \A o \in orders : \/ \E c \in couriers : c.id = o.courier
                                    \/ \E m \in call.output : m.order = o.id

\* A longer way, one more active order, or a courier less on shift never makes
\* a delivery cheaper, also where a tier begins and when the last courier goes.
FeeMonotone ==
    call.fn = "quote" =>
        LET f == call.input
            fee == call.output.finalFee
        IN  /\ quote(f.distance + 1, f.at, f.active, f.couriers, f.rows).finalFee >= fee
            /\ quote(f.distance, f.at, f.active + 1, f.couriers, f.rows).finalFee >= fee
            /\ \A c \in f.couriers :
                  quote(f.distance, f.at, f.active, f.couriers \ {c}, f.rows).finalFee >= fee

\* The items the client is shown add up to the fee, but for one hryvnia too
\* many when rush hour and surge both apply to an amount that ends on a half.
ItemsAddUp ==
    call.fn = "quote" =>
        LET q == call.output
            sum == q.items.base + Total(q.items.tiers) + q.items.rush + q.items.surge
                   + q.items.cap
        IN  \/ sum = q.finalFee
            \/ /\ sum = q.finalFee + 1
               /\ q.load # 100 /\ (q.subtotal * Rush(call.input.at.hour)) % 10 = 5

=============================================================================
