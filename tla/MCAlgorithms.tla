---------------------------- MODULE MCAlgorithms ----------------------------
(***************************************************************************)
(* Every input of a small kind: cost matrices of three rows with ties and   *)
(* gaps, up to four orders for one courier and two for two, symmetric       *)
(* distances of five stops, trips over two ways of four known nodes and an  *)
(* unknown one, and fees around every boundary of the price list.           *)
(***************************************************************************)
EXTENDS Algorithms

MCMatrices == [1..3 -> [1..3 -> {0, 1, 2}]]

-----------------------------------------------------------------------------
BatchOrder(ids) == [id: ids, courier: {0, 1, 2, 9}, km: {1}]

OrderRows(n) == {s \in [1..n -> BatchOrder(1..n)] : \A i \in 1..n : s[i].id = i}

BatchCouriers(n, kms) ==
    {s \in [1..n -> [id: 1..n, online: BOOLEAN, active: {0, 2},
                     km: {[o \in 1..4 |-> k] : k \in kms}]] : \A i \in 1..n : s[i].id = i}

MCBatches ==
    UNION {[orders: OrderRows(n), couriers: BatchCouriers(1, {1, 60})] : n \in 1..3}
    \cup [orders: {[i \in 1..4 |-> [id |-> i, courier |-> c, km |-> 1]] : c \in {0, 1, 9}},
          couriers: BatchCouriers(1, {1}) \cup BatchCouriers(2, {1, 60})]
    \cup UNION {[orders: OrderRows(n), couriers: BatchCouriers(2, {1, 60})] : n \in 1..1}

-----------------------------------------------------------------------------
Pairs5 == {<<i, j>> \in (0..4) \X (0..4) : i < j}

MCSymmetric ==
    {[i \in 0..4 |-> [j \in 0..4 |-> IF i = j THEN 0 ELSE IF i < j THEN d[<<i, j>>]
                                     ELSE d[<<j, i>>]]] : d \in [Pairs5 -> {1, 3}]}

-----------------------------------------------------------------------------
Nodes == <<[id |-> 1, at |-> 0], [id |-> 2, at |-> 2], [id |-> 3, at |-> 5], [id |-> 4, at |-> 9]>>

WayOf == [nodes: {<<1, 2, 3, 4>>, <<1, 3>>, <<4, 2>>, <<1, 5, 4>>, <<2, 3>>}, oneway: BOOLEAN]

Networks == {[nodes |-> Nodes, ways |-> <<v, w>>] : v, w \in WayOf}

OrdersOf(ids, places) ==
    {s \in [1..Cardinality(ids) -> [id: ids, picked: BOOLEAN, at: places]] :
        \A i \in DOMAIN s : s[i].id = Min(ids) + i - 1}

Trip(orders, locs, roads) == [orders: orders, org: {2}, loc: locs, roads: roads]

MCTrips ==
    {<<t>> : t \in Trip(OrdersOf({1}, {0, 2, 9}) \cup OrdersOf({1, 2}, {0, 2, 9}),
                        {Nowhere, 6}, Networks \cup {NoRoads})}
    \cup {<<t>> : t \in Trip(OrdersOf({1, 2, 3}, {0, 9}), {6},
                             {NoRoads, [nodes |-> Nodes, ways |->
                                 <<[nodes |-> <<1, 2, 3, 4>>, oneway |-> TRUE],
                                   [nodes |-> <<4, 2>>, oneway |-> FALSE]>>]})}
    \cup {<<t, u>> : t \in Trip(OrdersOf({1, 2}, {0, 5}), {6}, {NoRoads}),
                     u \in Trip(OrdersOf({3}, {0, 9}), {6}, {NoRoads})}

-----------------------------------------------------------------------------
MCFees ==
    [distance: (0..60) \cup (290..310) \cup (990..1010) \cup (2990..3010)
               \cup (9990..10010) \cup (99990..100010),
     at: [day: {1}, hour: {9, 13, 19, 22}],
     active: 0..4,
     couriers: {{}, {1, 2}},
     rows: {{}, {[courier |-> 1, slot |-> [day |-> 1, start |-> 9, end |-> 13]]}}]
=============================================================================
