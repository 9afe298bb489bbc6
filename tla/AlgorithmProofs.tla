--------------------------- MODULE AlgorithmProofs ---------------------------
(***************************************************************************)
(* The decisions of the backend, for every input: the assignment of the     *)
(* batch job, the plan of a run, and the delivery fee.                      *)
(***************************************************************************)
EXTENDS Decisions, FiniteSetTheorems, NaturalsInduction, WellFoundedInduction, TLAPS

-----------------------------------------------------------------------------
\* The call

CallInv ==
    /\ call.fn \in {"none", "hungarian", "rebalance", "quote"}
    /\ call.fn = "hungarian" =>
          /\ call.input \in Matrices
          /\ call.output = hungarian(call.input, Len(call.input))
    /\ call.fn = "rebalance" =>
          /\ call.input \in Batches
          /\ call.output = Moves(call.input.orders, call.input.couriers)
    /\ call.fn = "quote" =>
          /\ call.input \in Fees
          /\ call.output = quote(call.input.distance, call.input.at, call.input.active,
                                 call.input.couriers, call.input.rows)

\* The output of a call is that of its input, which never changes.
LEMMA CallInvHolds == DecisionSpec => []CallInv
<1>1. Init => CallInv
  BY DEF Init, NoCall, CallInv
<1>2. CallInv /\ [Decide]_call => CallInv'
  BY DEF CallInv, Decide, Assign, Rebalance, Quote, Call
<1> QED BY <1>1, <1>2, PTL DEF DecisionSpec

-----------------------------------------------------------------------------
\* Rounding

\* A factor that is not negative keeps the order.
LEMMA Scaled ==
    ASSUME NEW a \in Int, NEW b \in Int, NEW k \in Nat, a <= b
    PROVE  k * a \in Int /\ k * b \in Int /\ k * a <= k * b
OBVIOUS

\* What rounds to n lies around it, less than a half above or a half below.
LEMMA RoundIs ==
    ASSUME NEW x \in Int, NEW unit \in Nat, unit > 0
    PROVE  /\ Round(x, unit) \in Int
           /\ 2 * (unit * Round(x, unit)) <= 2 * x + unit
           /\ 2 * x < 2 * (unit * Round(x, unit)) + unit
<1> DEFINE n == 2 * x + unit
           u == 2 * unit
<1>1. n \in Int /\ u \in Nat /\ u > 0
  OBVIOUS
<1>2. n \div u \in Int /\ u * (n \div u) <= n /\ n < u * (n \div u) + u
  <2> HIDE DEF n, u
  <2> QED BY <1>1
<1>3. u * (n \div u) = 2 * (unit * (n \div u))
  BY <1>2
<1> QED BY <1>2, <1>3 DEF Round

LEMMA RoundMonotone ==
    ASSUME NEW x \in Int, NEW y \in Int, NEW unit \in Nat, unit > 0, x <= y
    PROVE  Round(x, unit) <= Round(y, unit)
<1>1. PICK a : a = Round(x, unit)
  OBVIOUS
<1>2. PICK b : b = Round(y, unit)
  OBVIOUS
<1>3. /\ a \in Int /\ b \in Int
      /\ 2 * (unit * a) <= 2 * x + unit
      /\ 2 * y < 2 * (unit * b) + unit
  BY <1>1, <1>2, RoundIs
<1>4. ASSUME b + 1 <= a
      PROVE  FALSE
  <2>1. unit * (b + 1) <= unit * a /\ unit * a \in Int /\ unit * b \in Int
    BY <1>3, <1>4, Scaled
  <2>2. unit * (b + 1) = unit * b + unit
    BY <1>3
  <2> QED BY <1>3, <2>1, <2>2
<1> QED BY <1>1, <1>2, <1>3, <1>4

\* What is not negative does not round to less than nothing.
LEMMA RoundNat ==
    ASSUME NEW x \in Nat, NEW unit \in Nat, unit > 0
    PROVE  Round(x, unit) \in Nat
<1>1. Round(0, unit) <= Round(x, unit) /\ Round(x, unit) \in Int /\ Round(0, unit) \in Int
  BY RoundMonotone, RoundIs
<1>2. 0 < 2 * (unit * Round(0, unit)) + unit
  BY RoundIs
<1>3. ASSUME Round(0, unit) <= -1
      PROVE  FALSE
  <2>1. unit * Round(0, unit) <= unit * (-1) /\ unit * Round(0, unit) \in Int
    BY <1>1, <1>3, Scaled
  <2> QED BY <1>2, <2>1
<1> QED BY <1>1, <1>3

-----------------------------------------------------------------------------
\* The parts of the fee

\* In each tier a longer way costs no less.
LEMMA TierMonotone ==
    ASSUME NEW d \in Nat, NEW i \in 1..5
    PROVE  /\ TierFee(d, Tiers[i]) \in Nat
           /\ TierFee(d, Tiers[i]) <= TierFee(d + 1, Tiers[i])
<1>1. PICK t : t = Tiers[i]
  OBVIOUS
<1>2. t.from \in Nat /\ t.upTo \in Nat /\ t.perKm \in Nat /\ t.from < t.upTo
  BY <1>1 DEF Tiers, Far
<1> DEFINE part(e) == AtMost(e, t.upTo) - t.from
<1>3. /\ d > t.from => part(d) \in Nat /\ part(d + 1) \in Nat /\ part(d) <= part(d + 1)
      /\ d + 1 > t.from => part(d + 1) \in Nat
  BY <1>2 DEF AtMost
<1>4. d > t.from => /\ part(d) * t.perKm \in Nat /\ part(d + 1) * t.perKm \in Nat
                    /\ part(d) * t.perKm <= part(d + 1) * t.perKm
  BY <1>2, <1>3, Scaled
<1>5. d + 1 > t.from => part(d + 1) * t.perKm \in Nat
  BY <1>2, <1>3
<1>6. /\ d > t.from => /\ Round(part(d) * t.perKm, 100) \in Nat
                        /\ Round(part(d) * t.perKm, 100) <= Round(part(d + 1) * t.perKm, 100)
      /\ d + 1 > t.from => Round(part(d + 1) * t.perKm, 100) \in Nat
  BY <1>4, <1>5, RoundNat, RoundMonotone
<1>7. d > t.from => d + 1 > t.from
  BY <1>2
<1> HIDE DEF part
<1>8. /\ TierFee(d, t) = IF d > t.from THEN Round(part(d) * t.perKm, 100) ELSE 0
      /\ TierFee(d + 1, t) = IF d + 1 > t.from THEN Round(part(d + 1) * t.perKm, 100) ELSE 0
  BY DEF TierFee, part
<1>9. TierFee(d, t) \in Nat /\ TierFee(d, t) <= TierFee(d + 1, t)
  BY <1>6, <1>7, <1>8
<1> QED BY <1>1, <1>9

LEMMA TiersMonotone ==
    ASSUME NEW d \in Nat
    PROVE  /\ Total(calculateTieredDistanceFee(d)) \in Nat
           /\ Total(calculateTieredDistanceFee(d)) <= Total(calculateTieredDistanceFee(d + 1))
<1>1. DOMAIN Tiers = 1..5
  BY DEF Tiers
<1>2. \A i \in 1..5 : /\ calculateTieredDistanceFee(d)[i] = TierFee(d, Tiers[i])
                      /\ calculateTieredDistanceFee(d + 1)[i] = TierFee(d + 1, Tiers[i])
  BY <1>1 DEF calculateTieredDistanceFee
<1>3. \A i \in 1..5 : /\ TierFee(d, Tiers[i]) \in Nat /\ TierFee(d + 1, Tiers[i]) \in Nat
                      /\ TierFee(d, Tiers[i]) <= TierFee(d + 1, Tiers[i])
  <2>1. d + 1 \in Nat
    OBVIOUS
  <2> QED BY <2>1, TierMonotone
<1> QED BY <1>2, <1>3 DEF Total

LEMMA RushIs == ASSUME NEW hour PROVE Rush(hour) \in {10, 12, 13, 14}
BY DEF Rush

\* The load multiplier, before its limit.
LEMMA LoadIs ==
    ASSUME NEW active \in Nat, NEW n \in Nat
    PROVE  getLoadMultiplier(active, n) \in Nat /\ getLoadMultiplier(active, n) \in 100..150
<1>1. n > 0 => Round(20 * AtLeast(0, active - n), n) \in Nat
  <2>1. 20 * AtLeast(0, active - n) \in Nat
    BY DEF AtLeast
  <2> QED BY <2>1, RoundNat
<1> QED BY <1>1 DEF getLoadMultiplier, AtMost

LEMMA LoadGrows ==
    ASSUME NEW active \in Nat, NEW n \in Nat
    PROVE  getLoadMultiplier(active, n) <= getLoadMultiplier(active + 1, n)
<1>1. ASSUME n > 0
      PROVE  /\ Round(20 * AtLeast(0, active - n), n) \in Int
             /\ Round(20 * AtLeast(0, active + 1 - n), n) \in Int
             /\ Round(20 * AtLeast(0, active - n), n) <= Round(20 * AtLeast(0, active + 1 - n), n)
  <2>1. /\ 20 * AtLeast(0, active - n) \in Int /\ 20 * AtLeast(0, active + 1 - n) \in Int
        /\ 20 * AtLeast(0, active - n) <= 20 * AtLeast(0, active + 1 - n)
    BY DEF AtLeast
  <2> QED BY <1>1, <2>1, RoundMonotone, RoundIs
<1> QED BY <1>1 DEF getLoadMultiplier, AtMost

\* Fewer couriers, m, share the orders that n had, and with none the load is at its limit.
LEMMA LoadShared ==
    ASSUME NEW active \in Nat, NEW n \in Nat, NEW m \in Nat, m <= n
    PROVE  getLoadMultiplier(active, n) <= getLoadMultiplier(active, m)
<1>1. CASE m = 0
  BY <1>1, LoadIs DEF getLoadMultiplier
<1>2. CASE m > 0 /\ active <= n
  <2>1. AtLeast(0, active - n) = 0 /\ 20 * AtLeast(0, active - m) \in Nat
    BY <1>2 DEF AtLeast
  <2>2. PICK p : p = Round(0, n)
    OBVIOUS
  <2>3. p \in Nat /\ 2 * (n * p) <= n
    BY <1>2, <2>2, RoundIs, RoundNat
  <2>4. ASSUME 1 <= p PROVE FALSE
    <3>1. n * 1 <= n * p /\ n * p \in Int
      BY <2>3, <2>4, Scaled
    <3> QED BY <1>2, <2>3, <3>1
  <2>5. Round(20 * AtLeast(0, active - n), n) = 0
    BY <2>1, <2>2, <2>3, <2>4
  <2>6. Round(20 * AtLeast(0, active - m), m) \in Nat
    BY <1>2, <2>1, RoundNat
  <2> QED BY <1>2, <2>5, <2>6 DEF getLoadMultiplier, AtMost
<1>3. CASE m > 0 /\ active > n
  <2>1. AtLeast(0, active - n) = active - n /\ AtLeast(0, active - m) = active - m
    BY <1>3 DEF AtLeast
  <2>2. PICK p : p = Round(20 * (active - n), n)
    OBVIOUS
  <2>3. PICK q : q = Round(20 * (active - m), m)
    OBVIOUS
  <2>4. p \in Nat /\ 2 * (n * p) <= 2 * (20 * (active - n)) + n
    <3>1. 20 * (active - n) \in Nat /\ 20 * (active - n) \in Int /\ n > 0
      BY <1>3
    <3> QED BY <2>2, <3>1, RoundIs, RoundNat
  <2>5. q \in Nat /\ 2 * (20 * (active - m)) < 2 * (m * q) + m
    <3>1. 20 * (active - m) \in Nat /\ 20 * (active - m) \in Int /\ m > 0
      BY <1>3
    <3> QED BY <2>3, <3>1, RoundIs, RoundNat
  <2>6. ASSUME q + 1 <= p
        PROVE  FALSE
    <3>1. m * (q + 1) <= m * p /\ m * p \in Int /\ m * q \in Int
      BY <2>4, <2>5, <2>6, Scaled
    <3>2. m * (q + 1) = m * q + m
      BY <2>5
    <3>3. p * m <= p * n /\ p * n = n * p /\ p * m = m * p /\ n * p \in Int
      BY <2>4, Scaled
    <3> QED BY <2>4, <2>5, <3>1, <3>2, <3>3
  <2> QED BY <1>3, <2>1, <2>2, <2>3, <2>4, <2>5, <2>6 DEF getLoadMultiplier, AtMost
<1> QED BY <1>1, <1>2, <1>3

LEMMA ClampMonotone ==
    ASSUME NEW a \in Int, NEW b \in Int, a <= b
    PROVE  clamp(a) <= clamp(b)
BY DEF clamp, AtLeast, AtMost, MinFee, MaxFee

-----------------------------------------------------------------------------
\* The fee

\* The couriers on shift are counted, and there is none more when one goes.
LEMMA OnShift ==
    ASSUME NEW couriers, IsFiniteSet(couriers), NEW rows, NEW day, NEW minute, NEW c
    PROVE  /\ Cardinality(filterOnShiftCouriers(couriers, rows, day, minute)) \in Nat
           /\ Cardinality(filterOnShiftCouriers(couriers \ {c}, rows, day, minute)) \in Nat
           /\ Cardinality(filterOnShiftCouriers(couriers \ {c}, rows, day, minute)) <=
              Cardinality(filterOnShiftCouriers(couriers, rows, day, minute))
<1> DEFINE all == filterOnShiftCouriers(couriers, rows, day, minute)
           but == filterOnShiftCouriers(couriers \ {c}, rows, day, minute)
<1>1. all \subseteq couriers /\ but \subseteq all
  BY DEF filterOnShiftCouriers
<1> HIDE DEF all, but
<1>2. IsFiniteSet(all) /\ IsFiniteSet(but) /\ Cardinality(but) <= Cardinality(all)
  BY <1>1, FS_Subset
<1> QED BY <1>2, FS_CardinalityType DEF all, but

\* What is paid for a subtotal under two multipliers.
Paid(subtotal, rush, load) == clamp(Round(subtotal * rush * load, 1000))

LEMMA PaidMonotone ==
    ASSUME NEW s \in Nat, NEW t \in Nat, NEW r \in Nat, NEW l \in Nat, NEW k \in Nat,
           s <= t, l <= k
    PROVE  Paid(s, r, l) <= Paid(t, r, k)
<1>1. r * s <= r * t /\ s * r = r * s /\ t * r = r * t /\ s * r \in Nat /\ t * r \in Nat
  BY Scaled
<1>2. PICK x \in Nat : x = s * r
  BY <1>1
<1>3. PICK y \in Nat : y = t * r
  BY <1>1
<1>4. x <= y
  BY <1>1, <1>2, <1>3
<1>5. x * l \in Int /\ x * k \in Int /\ y * k \in Int /\ x * l <= x * k /\ x * k <= y * k
  <2>1. k * x <= k * y /\ x * k = k * x /\ y * k = k * y
    BY <1>4, Scaled
  <2> QED BY <2>1, Scaled
<1>6. x * l <= y * k
  BY <1>5
<1>7. /\ Round(x * l, 1000) \in Int /\ Round(y * k, 1000) \in Int
      /\ Round(x * l, 1000) <= Round(y * k, 1000)
  BY <1>5, <1>6, RoundIs, RoundMonotone
<1> QED BY <1>2, <1>3, <1>7, ClampMonotone DEF Paid

Subtotal(d) == Base + Total(calculateTieredDistanceFee(d))

LEMMA FeeIs ==
    ASSUME NEW d, NEW at, NEW active, NEW couriers, NEW rows
    PROVE  quote(d, at, active, couriers, rows).finalFee =
               Paid(Subtotal(d), Rush(at.hour),
                    getLoadMultiplier(active,
                        Cardinality(filterOnShiftCouriers(couriers, rows, at.day, at.hour))))
BY DEF quote, Paid, Subtotal

QuoteOf(f) == quote(f.distance, f.at, f.active, f.couriers, f.rows)

\* For any distance, any number of orders and any couriers, a longer way, one more
\* active order, or a courier less on shift never makes a delivery cheaper
\* (PricingService.quote).
THEOREM FeeTheorem == DecisionSpec => []FeeMonotone
<1>1. CallInv => FeeMonotone
  <2> SUFFICES ASSUME CallInv, call.fn = "quote"
               PROVE  FeeMonotone
    BY DEF FeeMonotone
  <2>1. PICK f \in Fees : f = call.input /\ call.output = QuoteOf(f)
    BY DEF CallInv, QuoteOf
  <2>2. f.distance \in Nat /\ f.active \in Nat /\ IsFiniteSet(f.couriers)
    BY FeesAssumption
  <2> DEFINE n == Cardinality(filterOnShiftCouriers(f.couriers, f.rows, f.at.day, f.at.hour))
             load(a, k) == getLoadMultiplier(a, k)
             fee == call.output.finalFee
  <2>3. n \in Nat
    BY <2>2, OnShift
  <2>4. /\ Subtotal(f.distance) \in Nat /\ Subtotal(f.distance + 1) \in Nat
        /\ Subtotal(f.distance) <= Subtotal(f.distance + 1)
    <3>1. f.distance + 1 \in Nat
      BY <2>2
    <3>2. /\ Total(calculateTieredDistanceFee(f.distance)) \in Nat
          /\ Total(calculateTieredDistanceFee(f.distance + 1)) \in Nat
          /\ Total(calculateTieredDistanceFee(f.distance)) <=
                 Total(calculateTieredDistanceFee(f.distance + 1))
      BY <2>2, <3>1, TiersMonotone
    <3> QED BY <3>2 DEF Subtotal, Base
  <2>5. Rush(f.at.hour) \in Nat
    BY RushIs
  <2>6. fee = Paid(Subtotal(f.distance), Rush(f.at.hour), load(f.active, n))
    BY <2>1, FeeIs DEF QuoteOf
  <2>7. \A a \in Nat, k \in Nat : load(a, k) \in Nat
    BY LoadIs
  <2>8. load(f.active, n) \in Nat /\ load(f.active, n) <= load(f.active, n)
    <3>1. load(f.active, n) \in Nat
      BY <2>2, <2>3, <2>7
    <3> HIDE DEF n, load
    <3> QED BY <3>1
  <2> HIDE DEF fee
  <2>9. quote(f.distance + 1, f.at, f.active, f.couriers, f.rows).finalFee >= fee
    <3>1. Paid(Subtotal(f.distance), Rush(f.at.hour), load(f.active, n)) <=
              Paid(Subtotal(f.distance + 1), Rush(f.at.hour), load(f.active, n))
      BY <2>4, <2>5, <2>8, PaidMonotone
    <3> QED BY <2>6, <3>1, FeeIs
  <2>10. quote(f.distance, f.at, f.active + 1, f.couriers, f.rows).finalFee >= fee
    <3>1. load(f.active + 1, n) \in Nat /\ load(f.active, n) <= load(f.active + 1, n)
      <4>1. f.active + 1 \in Nat
        BY <2>2
      <4> HIDE DEF n
      <4> QED BY <2>2, <2>3, <2>7, <4>1, LoadGrows
    <3>2. Paid(Subtotal(f.distance), Rush(f.at.hour), load(f.active, n)) <=
              Paid(Subtotal(f.distance), Rush(f.at.hour), load(f.active + 1, n))
      BY <2>4, <2>5, <2>8, <3>1, PaidMonotone
    <3> QED BY <2>6, <3>2, FeeIs
  <2>11. ASSUME NEW c \in f.couriers
         PROVE  quote(f.distance, f.at, f.active, f.couriers \ {c}, f.rows).finalFee >= fee
    <3> DEFINE m == Cardinality(filterOnShiftCouriers(f.couriers \ {c}, f.rows, f.at.day,
                                                      f.at.hour))
    <3>1. m \in Nat /\ m <= n
      BY <2>2, OnShift
    <3>2. load(f.active, m) \in Nat /\ load(f.active, n) <= load(f.active, m)
      <4> HIDE DEF n, m
      <4> QED BY <2>2, <2>3, <2>7, <3>1, LoadShared
    <3>3. Paid(Subtotal(f.distance), Rush(f.at.hour), load(f.active, n)) <=
              Paid(Subtotal(f.distance), Rush(f.at.hour), load(f.active, m))
      BY <2>4, <2>5, <2>8, <3>2, PaidMonotone
    <3> QED BY <2>6, <3>3, FeeIs
  <2> QED BY <2>1, <2>9, <2>10, <2>11 DEF FeeMonotone, fee
<1> QED BY <1>1, CallInvHolds, PTL

-----------------------------------------------------------------------------
\* The items

\* Taking off what is whole before rounding is taking it off after, and the two ways
\* to round a half differ by one.
LEMMA RoundWhole ==
    ASSUME NEW x \in Int, NEW n \in Int
    PROVE  /\ Round(x - 10 * n, 10) = Round(x, 10) - n
           /\ Round(10 * n - x, 10) = n - Round(x, 10) + (IF x % 10 = 5 THEN 1 ELSE 0)
BY DEF Round

\* For any distance, any number of orders and any couriers, what the client is shown
\* adds up to the fee, but for one hryvnia too many when rush hour and surge both
\* apply to an amount that ends on a half (PricingService.quote).
THEOREM ItemsTheorem == DecisionSpec => []ItemsAddUp
<1>1. CallInv => ItemsAddUp
  <2> SUFFICES ASSUME CallInv, call.fn = "quote"
               PROVE  ItemsAddUp
    BY DEF ItemsAddUp
  <2>1. PICK f \in Fees : f = call.input /\ call.output = QuoteOf(f)
    BY DEF CallInv, QuoteOf
  <2>2. f.distance \in Nat /\ f.active \in Nat /\ IsFiniteSet(f.couriers)
    BY FeesAssumption
  <2> DEFINE n     == Cardinality(filterOnShiftCouriers(f.couriers, f.rows, f.at.day, f.at.hour))
             tiers == Total(calculateTieredDistanceFee(f.distance))
             sub   == Base + tiers
             rush  == Rush(f.at.hour)
             a     == sub * rush
             load  == getLoadMultiplier(f.active, n)
             u     == Round(a * load, 1000)
             items == call.output.items
  <2>3. n \in Nat
    BY <2>2, OnShift
  <2>4. tiers \in Nat
    BY <2>2, TiersMonotone
  <2>5. rush \in {10, 12, 13, 14}
    BY RushIs
  <2>6. load \in Nat
    BY <2>2, <2>3, LoadIs
  <2>7. /\ items.base = Base /\ Total(items.tiers) = tiers
        /\ items.rush = (IF rush = 10 THEN 0 ELSE RushItem(a, sub))
        /\ items.surge = (IF load = 100 THEN 0 ELSE Round(10 * u - a, 10))
        /\ items.cap = clamp(u) - u
        /\ call.output.finalFee = clamp(u)
        /\ call.output.load = load /\ call.output.subtotal = sub
    BY <2>1 DEF QuoteOf, quote
  <2> HIDE DEF n, tiers, rush, load, items
  <2>8. sub \in Nat /\ a \in Nat
    BY <2>4, <2>5 DEF Base
  <2>9. u \in Int
    BY <2>6, <2>8, RoundIs
  <2>10. clamp(u) \in Int
    BY <2>9 DEF clamp, AtLeast, AtMost, MinFee, MaxFee
  <2>11. items.rush = Round(a, 10) - sub
    <3>1. CASE rush = 10
      <4>1. a = 10 * sub
        BY <2>8, <3>1
      <4> HIDE DEF sub, a
      <4> QED BY <2>7, <2>8, <3>1, <4>1 DEF Round
    <3>2. CASE rush # 10
      <4> HIDE DEF sub, a
      <4> QED BY <2>7, <2>8, <3>2, RoundWhole DEF RushItem
    <3> QED BY <3>1, <3>2
  <2>12. CASE load = 100
    <3>1. u = Round(a, 10)
      <4> HIDE DEF sub, a
      <4> QED BY <2>8, <2>12 DEF Round
    <3>2. Base + tiers + items.rush + items.surge = u
      <4>1. Round(a, 10) \in Int
        BY <2>9, <3>1
      <4> HIDE DEF a, u
      <4> QED BY <2>4, <2>7, <2>11, <2>12, <3>1, <4>1 DEF Base
    <3> HIDE DEF u, sub
    <3> QED BY <2>1, <2>4, <2>7, <2>9, <2>10, <3>2 DEF ItemsAddUp, items, Base
  <2>13. CASE load # 100
    <3>1. items.surge = u - Round(a, 10) + (IF a % 10 = 5 THEN 1 ELSE 0)
      <4>1. items.surge = Round(10 * u - a, 10)
        BY <2>7, <2>13
      <4>2. a \in Int
        BY <2>8
      <4> HIDE DEF a, u
      <4> QED BY <2>9, <4>1, <4>2, RoundWhole
    <3>2. Base + tiers + items.rush + items.surge = u + (IF a % 10 = 5 THEN 1 ELSE 0)
      <4>1. Round(a, 10) \in Int
        BY <2>8, RoundIs
      <4> HIDE DEF a, u
      <4> QED BY <2>4, <2>9, <2>11, <3>1, <4>1 DEF Base
    <3>3. a = call.output.subtotal * Rush(call.input.at.hour)
      BY <2>1, <2>7 DEF rush
    <3> HIDE DEF u, sub, a
    <3> QED BY <2>1, <2>4, <2>7, <2>9, <2>10, <2>13, <3>2, <3>3 DEF ItemsAddUp, items, Base
  <2> QED BY <2>12, <2>13
<1> QED BY <1>1, CallInvHolds, PTL

-----------------------------------------------------------------------------
\* Numbers and recursive functions

LEMMA LeastNumber ==
    ASSUME NEW T, T \subseteq Nat, T # {}
    PROVE  \E n \in T : \A m \in T : n <= m
<1>1. PICK n \in T : \A m \in T : ~(<<m, n>> \in OpToRel(<, Nat))
  BY NatLessThanWellFounded, WFMin
<1>2. \A m \in T : ~(m < n)
  BY <1>1 DEF OpToRel
<1> QED BY <1>2

\* Of the values of finitely many numbers one is the least.
LEMMA LeastValue ==
    ASSUME NEW n \in Nat, NEW F, F \subseteq 1..n, F # {}, NEW f, \A j \in F : f[j] \in Int
    PROVE  \E j \in F : \A x \in F : f[j] <= f[x]
<1> DEFINE upTo(k) == F \cap (1..k)
           bad == {k \in 1..n : /\ upTo(k) # {}
                                /\ \A j \in upTo(k) : \E x \in upTo(k) : ~(f[j] <= f[x])}
<1>1. ASSUME bad # {}
      PROVE  FALSE
  <2>1. PICK k \in bad : \A m \in bad : k <= m
    <3>1. bad \subseteq Nat
      OBVIOUS
    <3> HIDE DEF bad
    <3> QED BY <1>1, <3>1, LeastNumber
  <2>2. k \in 1..n /\ upTo(k) \subseteq upTo(k - 1) \cup {k} /\ upTo(k - 1) \subseteq upTo(k)
    BY <2>1
  <2>3. CASE upTo(k - 1) = {}
    <3>1. upTo(k) = {k} /\ k \in F
      BY <2>1, <2>2, <2>3
    <3>2. f[k] <= f[k]
      BY <3>1
    <3> QED BY <2>1, <3>1, <3>2
  <2>4. CASE upTo(k - 1) # {}
    <3>1. k - 1 \in 1..n /\ ~(k <= k - 1)
      BY <2>2, <2>4
    <3>2. k - 1 \notin bad
      BY <2>1, <3>1
    <3>3. PICK j \in upTo(k - 1) : \A x \in upTo(k - 1) : f[j] <= f[x]
      BY <2>4, <3>1, <3>2
    <3>4. CASE k \notin F \/ f[j] <= f[k]
      BY <2>1, <2>2, <3>3, <3>4
    <3>5. CASE k \in F /\ ~(f[j] <= f[k])
      <4>1. k \in upTo(k) /\ \A x \in upTo(k - 1) : f[k] <= f[x]
        BY <2>2, <3>3, <3>5
      <4>2. f[k] <= f[k]
        BY <3>5
      <4> QED BY <2>1, <2>2, <4>1, <4>2
    <3> QED BY <3>4, <3>5
  <2> QED BY <2>3, <2>4
<1>2. n \in 1..n /\ upTo(n) = F
  <2>1. PICK j : j \in F
    OBVIOUS
  <2>2. j \in 1..n
    BY <2>1
  <2>3. n \in 1..n
    BY <2>2
  <2>4. F \cap (1..n) = F
    OBVIOUS
  <2> QED BY <2>3, <2>4
<1> QED BY <1>1, <1>2

LEMMA MinIs ==
    ASSUME NEW S, NEW x \in S, \A y \in S : x <= y
    PROVE  Min(S) \in S /\ \A y \in S : Min(S) <= y
BY DEF Min

LEMMA MinNumber ==
    ASSUME NEW S, S \subseteq Nat, S # {}
    PROVE  Min(S) \in S /\ \A y \in S : Min(S) <= y
BY LeastNumber, MinIs

\* What the recursive functions of the models are, which are defined by a choice.
LEMMA TurnsIs ==
    ASSUME NEW cost, NEW n \in Nat, NEW first
    PROVE  LET t == Turns(cost, n, first)
           IN  t[0] = first /\ \A k \in 1..n : t[k] = Turn(cost, n, t[k - 1])
<1> DEFINE Is(f, m) == f = [k \in 0..m |-> IF k = 0 THEN first ELSE Turn(cost, n, f[k - 1])]
           bad == {m \in Nat : ~\E f : Is(f, m)}
<1>1. ASSUME bad # {}
      PROVE  FALSE
  <2> HIDE DEF Is
  <2>1. PICK m \in bad : \A l \in bad : m <= l
    BY <1>1, LeastNumber
  <2>2. CASE m = 0
    <3>1. Is([k \in 0..0 |-> first], 0)
      BY DEF Is
    <3> QED BY <2>1, <2>2, <3>1
  <2>3. CASE m # 0
    <3>1. m - 1 \in Nat /\ m - 1 \notin bad
      BY <2>1, <2>3
    <3>2. PICK g : Is(g, m - 1)
      BY <3>1
    <3> DEFINE h == [k \in 0..m |-> IF k = m THEN Turn(cost, n, g[m - 1]) ELSE g[k]]
    <3>3. \A k \in 0..m : h[k] = IF k = 0 THEN first ELSE Turn(cost, n, h[k - 1])
      BY <2>3, <3>1, <3>2 DEF Is
    <3>4. Is(h, m)
      BY <3>3 DEF Is
    <3> QED BY <2>1, <3>4
  <2> QED BY <2>2, <2>3
<1>2. Is(Turns(cost, n, first), n)
  <2>1. \E f : Is(f, n)
    BY <1>1
  <2> QED BY <2>1 DEF Turns
<1> QED BY <1>2

LEMMA ShiftsIs ==
    ASSUME NEW n \in Nat, NEW p, NEW way, NEW j
    PROVE  /\ Shifts(n, p, way, j)[0] = [p |-> p, j |-> j]
           /\ \A k \in 1..(n + 1) :
                 Shifts(n, p, way, j)[k] = Shift(Shifts(n, p, way, j)[k - 1], way)
<1> DEFINE Is(f, m) == f = [k \in 0..m |-> IF k = 0 THEN [p |-> p, j |-> j]
                                           ELSE Shift(f[k - 1], way)]
           bad == {m \in Nat : ~\E f : Is(f, m)}
<1>1. ASSUME bad # {}
      PROVE  FALSE
  <2> HIDE DEF Is
  <2>1. PICK m \in bad : \A l \in bad : m <= l
    BY <1>1, LeastNumber
  <2>2. CASE m = 0
    <3>1. Is([k \in 0..0 |-> [p |-> p, j |-> j]], 0)
      BY DEF Is
    <3> QED BY <2>1, <2>2, <3>1
  <2>3. CASE m # 0
    <3>1. m - 1 \in Nat /\ m - 1 \notin bad
      BY <2>1, <2>3
    <3>2. PICK g : Is(g, m - 1)
      BY <3>1
    <3> DEFINE h == [k \in 0..m |-> IF k = m THEN Shift(g[m - 1], way) ELSE g[k]]
    <3>3. \A k \in 0..m : h[k] = IF k = 0 THEN [p |-> p, j |-> j] ELSE Shift(h[k - 1], way)
      BY <2>3, <3>1, <3>2 DEF Is
    <3>4. Is(h, m)
      BY <3>3 DEF Is
    <3> QED BY <2>1, <3>4
  <2> QED BY <2>2, <2>3
<1>2. Is(Shifts(n, p, way, j), n + 1)
  <2>1. n + 1 \in Nat
    OBVIOUS
  <2>2. \E f : Is(f, n + 1)
    <3> HIDE DEF Is
    <3> QED BY <1>1, <2>1
  <2> QED BY <2>2 DEF Shifts
<1> QED BY <1>2

\* The tables before the first row is added.
NoRows(n) ==
    [u |-> [i \in 1..n |-> 0], v |-> [j \in 0..n |-> 0],
     p |-> [j \in 0..n |-> 0], way |-> [j \in 1..n |-> 0],
     minv |-> [j \in 1..n |-> 0], used |-> {}, j0 |-> 0]

LEMMA TableIs ==
    ASSUME NEW cost, NEW n \in Nat
    PROVE  LET t == Table(cost, n)
           IN  t[0] = NoRows(n) /\ \A i \in 1..n : t[i] = AddRow(cost, n, t[i - 1], i)
<1> DEFINE Is(f, m) == f = [i \in 0..m |-> IF i = 0 THEN NoRows(n)
                                           ELSE AddRow(cost, n, f[i - 1], i)]
           bad == {m \in Nat : ~\E f : Is(f, m)}
<1>1. ASSUME bad # {}
      PROVE  FALSE
  <2> HIDE DEF Is
  <2>1. PICK m \in bad : \A l \in bad : m <= l
    BY <1>1, LeastNumber
  <2>2. CASE m = 0
    <3>1. Is([i \in 0..0 |-> NoRows(n)], 0)
      BY DEF Is
    <3> QED BY <2>1, <2>2, <3>1
  <2>3. CASE m # 0
    <3>1. m - 1 \in Nat /\ m - 1 \notin bad
      BY <2>1, <2>3
    <3>2. PICK g : Is(g, m - 1)
      BY <3>1
    <3> DEFINE h == [i \in 0..m |-> IF i = m THEN AddRow(cost, n, g[m - 1], m) ELSE g[i]]
    <3>3. \A i \in 0..m : h[i] = IF i = 0 THEN NoRows(n) ELSE AddRow(cost, n, h[i - 1], i)
      BY <2>3, <3>1, <3>2 DEF Is
    <3>4. Is(h, m)
      BY <3>3 DEF Is
    <3> QED BY <2>1, <3>4
  <2> QED BY <2>2, <2>3
<1>2. Is(Table(cost, n), n)
  <2>1. \E f : Is(f, n)
    BY <1>1
  <2> QED BY <2>1 DEF Table, NoRows
<1> QED BY <1>2

-----------------------------------------------------------------------------
\* The assignment: one turn

Square(n) == [1..n -> [1..n -> Int]]

State(n) ==
    [u : [1..n -> Int], v : [0..n -> Int], p : [0..n -> 0..n], way : [1..n -> 0..n],
     minv : [1..n -> Int], used : SUBSET (0..n), j0 : 0..n]

\* Each of the first i rows has one column, and no other row has any.
Matching(n, p, i) ==
    /\ \A j \in 1..n : p[j] \in 0..i
    /\ \A r \in 1..i : \E j \in 1..n : p[j] = r
    /\ \A j, x \in 1..n : p[j] = p[x] /\ p[j] # 0 => j = x

\* The potentials stay below the costs, and meet them where a row has its column.
Feasible(cost, n, s, i) == \A r \in 1..i : \A j \in 1..n : 0 <= Reduced(cost, s, r, j)
Tight(cost, n, s) == \A j \in 1..n : s.p[j] # 0 => Reduced(cost, s, s.p[j], j) = 0

\* The used columns are a tree that way leads down to column 0, in the order of their
\* ranks, along edges at which the potentials meet the costs.
Tree(cost, s, rank, k) ==
    \A j \in s.used :
        /\ rank[j] < k
        /\ j # 0 => /\ s.way[j] \in s.used /\ rank[s.way[j]] < rank[j]
                    /\ Reduced(cost, s, s.p[s.way[j]], j) = 0

\* minv[j] is what the nearest of the rows reached lacks to column j, and way[j] its column.
Nearest(cost, s, j) ==
    /\ s.way[j] \in s.used /\ s.minv[j] = Reduced(cost, s, s.p[s.way[j]], j)
    /\ \A x \in s.used : s.minv[j] <= Reduced(cost, s, s.p[x], j)

\* After k turns for row i.
Search(cost, n, s, i, k) ==
    /\ s \in State(n) /\ s.p[0] = i /\ Matching(n, s.p, i - 1)
    /\ Tight(cost, n, s)
    /\ k = 0 => s.used = {} /\ s.j0 = 0 /\ Feasible(cost, n, s, i - 1)
    /\ k > 0 => /\ s.j0 \in 1..n /\ s.j0 \notin s.used /\ 0 \in s.used
                /\ Feasible(cost, n, s, i)
                /\ s.minv[s.j0] = 0
                /\ \A j \in (1..n) \ s.used : Nearest(cost, s, j)
    /\ Cardinality(s.used) = k
    /\ \A j \in s.used : j # 0 => s.p[j] # 0
    /\ \E rank \in [0..n -> 0..n] : Tree(cost, s, rank, k)

\* Column 0 comes before the columns.
LEMMA Columns ==
    \A n \in Nat : /\ 0 \in 0..n
                  /\ \A j \in 1..n : j \in 0..n /\ j # 0
                  /\ \A x \in 0..n : x # 0 => x \in 1..n
OBVIOUS

LEMMA FiniteColumns == \A n \in Nat : IsFiniteSet(0..n) /\ Cardinality(0..n) = n + 1
<1> SUFFICES ASSUME NEW n \in Nat
             PROVE  IsFiniteSet(0..n) /\ Cardinality(0..n) = n + 1
  OBVIOUS
<1>1. IsFiniteSet(0..n) /\ Cardinality(0..n) = (IF 0 > n THEN 0 ELSE n - 0 + 1)
  BY FS_Interval
<1> QED BY <1>1

LEMMA StateFields ==
    ASSUME NEW n \in Nat, NEW s \in State(n)
    PROVE  /\ s = [u |-> s.u, v |-> s.v, p |-> s.p, way |-> s.way, minv |-> s.minv,
                   used |-> s.used, j0 |-> s.j0]
           /\ s.u \in [1..n -> Int] /\ s.v \in [0..n -> Int] /\ s.p \in [0..n -> 0..n]
           /\ s.way \in [1..n -> 0..n] /\ s.minv \in [1..n -> Int]
           /\ s.used \subseteq 0..n /\ s.j0 \in 0..n
BY DEF State

LEMMA ReducedInt ==
    ASSUME NEW n \in Nat, NEW cost \in Square(n), NEW s \in State(n),
           NEW i \in 1..n, NEW j \in 1..n
    PROVE  Reduced(cost, s, i, j) \in Int
<1>1. cost[i][j] \in Int /\ s.u[i] \in Int /\ s.v[j] \in Int
  BY StateFields DEF Square
<1> QED BY <1>1 DEF Reduced

\* A column is without a row as long as a row is without a column.
LEMMA Unmatched ==
    ASSUME NEW n \in Nat, NEW p, NEW i \in 1..n, Matching(n, p, i - 1)
    PROVE  \E j \in 1..n : p[j] = 0
<1> SUFFICES ASSUME \A j \in 1..n : p[j] # 0
             PROVE  FALSE
  OBVIOUS
<1> DEFINE f == [j \in 1..n |-> p[j]]
<1>1. f \in [1..n -> 1..(i - 1)]
  BY DEF Matching
<1>2. /\ IsFiniteSet(1..n) /\ IsFiniteSet(1..(i - 1))
      /\ Cardinality(1..(i - 1)) < Cardinality(1..n)
  <2>1. /\ IsFiniteSet(1..n) /\ Cardinality(1..n) = (IF 1 > n THEN 0 ELSE n - 1 + 1)
        /\ IsFiniteSet(1..(i - 1))
        /\ Cardinality(1..(i - 1)) = (IF 1 > i - 1 THEN 0 ELSE (i - 1) - 1 + 1)
    BY FS_Interval
  <2> QED BY <2>1
<1>3. PICK x, y \in 1..n : x # y /\ f[x] = f[y]
  <2> HIDE DEF f
  <2> QED BY <1>1, <1>2, FS_PigeonHole
<1> QED BY <1>3 DEF Matching

\* What the turn from s to r does, which moves the potentials by delta.
Turned(cost, n, s, r, delta) ==
    LET used == s.used \cup {s.j0} IN
    /\ r \in State(n) /\ r.p = s.p /\ r.used = used
    /\ r.j0 \in Free(n, s) /\ Minv(cost, s, r.j0) = delta
    /\ \A j \in Free(n, s) : delta <= Minv(cost, s, j) /\ r.minv[j] = Minv(cost, s, j) - delta
    /\ \A j \in 1..n : r.way[j] = IF j \in Free(n, s) /\ Nearer(cost, s, j)
                                  THEN s.j0 ELSE s.way[j]
    /\ \A i \in 1..n : r.u[i] = IF \E j \in used : s.p[j] = i
                                THEN s.u[i] + delta ELSE s.u[i]
    /\ \A j \in 0..n : r.v[j] = IF j \in used THEN s.v[j] - delta ELSE s.v[j]

LEMMA ReachIs ==
    ASSUME NEW n \in Nat, NEW cost \in Square(n), NEW s \in State(n), Free(n, s) # {},
           s.p[s.j0] \in 1..n
    PROVE  \E delta \in Int : Turned(cost, n, s, Reach(cost, n, s), delta)
<1> DEFINE used == s.used \cup {s.j0}
           free == Free(n, s)
           minv == [j \in free |-> Minv(cost, s, j)]
           values == {minv[j] : j \in free}
           delta == Min(values)
           least == {j \in free : minv[j] = delta}
           r == Reach(cost, n, s)
<1>1. free \subseteq 1..n /\ free # {} /\ \A j \in free : minv[j] \in Int
  <2>1. free \subseteq 1..n
    BY DEF Free
  <2>2. ASSUME NEW j \in free
        PROVE  Minv(cost, s, j) \in Int
    <3>1. j \in 1..n
      BY <2>1
    <3>2. Reduced(cost, s, s.p[s.j0], j) \in Int /\ s.minv[j] \in Int
      BY <3>1, ReducedInt, StateFields
    <3> QED BY <3>2 DEF Minv
  <2> QED BY <2>1, <2>2
<1>2. delta \in values /\ \A y \in values : delta <= y
  <2> HIDE DEF minv, free
  <2>1. PICK j \in free : \A x \in free : minv[j] <= minv[x]
    BY <1>1, LeastValue
  <2>2. minv[j] \in values /\ \A y \in values : minv[j] <= y
    BY <2>1
  <2> HIDE DEF values
  <2> QED BY <2>2, MinIs
<1>3. delta \in Int /\ \A j \in free : delta <= minv[j]
  <2> HIDE DEF minv, free, delta
  <2> QED BY <1>1, <1>2
<1>4. Min(least) \in least
  <2>1. least \subseteq Nat /\ least # {}
    <3> HIDE DEF minv, free, delta
    <3>1. PICK j \in free : minv[j] = delta
      BY <1>2
    <3>2. \A x \in least : x \in 1..n
      BY <1>1
    <3> QED BY <3>1, <3>2
  <2> HIDE DEF least
  <2> QED BY <2>1, MinNumber
<1>5. r = [s EXCEPT
            !.used = used,
            !.way  = [j \in 1..n |-> IF j \in free /\ Nearer(cost, s, j) THEN s.j0 ELSE s.way[j]],
            !.u    = [i \in 1..n |-> IF \E j \in used : s.p[j] = i
                                     THEN s.u[i] + delta ELSE s.u[i]],
            !.v    = [j \in 0..n |-> IF j \in used THEN s.v[j] - delta ELSE s.v[j]],
            !.minv = [j \in 1..n |-> IF j \in free THEN minv[j] - delta ELSE s.minv[j]],
            !.j0   = Min(least)]
  BY DEF Reach
<1> DEFINE way1 == [j \in 1..n |-> IF j \in free /\ Nearer(cost, s, j) THEN s.j0 ELSE s.way[j]]
           u1 == [i \in 1..n |-> IF \E j \in used : s.p[j] = i THEN s.u[i] + delta ELSE s.u[i]]
           v1 == [j \in 0..n |-> IF j \in used THEN s.v[j] - delta ELSE s.v[j]]
           minv1 == [j \in 1..n |-> IF j \in free THEN minv[j] - delta ELSE s.minv[j]]
<1>6. r = [u |-> u1, v |-> v1, p |-> s.p, way |-> way1, minv |-> minv1, used |-> used,
           j0 |-> Min(least)]
  <2> HIDE DEF u1, v1, way1, minv1, used, least, delta, minv, free, r
  <2>1. r = [s EXCEPT !.used = used, !.way = way1, !.u = u1, !.v = v1, !.minv = minv1,
                      !.j0 = Min(least)]
    BY <1>5 DEF u1, v1, way1, minv1
  <2> QED BY <2>1 DEF State
<1>7. /\ u1 \in [1..n -> Int] /\ v1 \in [0..n -> Int] /\ way1 \in [1..n -> 0..n]
      /\ minv1 \in [1..n -> Int] /\ used \subseteq 0..n /\ Min(least) \in 0..n
  <2> HIDE DEF delta, minv, free
  <2>1. u1 \in [1..n -> Int] /\ v1 \in [0..n -> Int]
    BY <1>3, StateFields
  <2>2. way1 \in [1..n -> 0..n] /\ used \subseteq 0..n
    BY StateFields
  <2>3. minv1 \in [1..n -> Int]
    BY <1>1, <1>3, StateFields
  <2>4. Min(least) \in 0..n
    <3> HIDE DEF least
    <3>1. Min(least) \in free
      BY <1>4 DEF least
    <3>2. Min(least) \in 1..n
      BY <1>1, <3>1
    <3> QED BY <3>2
  <2> QED BY <2>1, <2>2, <2>3, <2>4
<1>8. r \in State(n)
  <2> HIDE DEF u1, v1, way1, minv1, used, least, delta, minv, free, r
  <2> QED BY <1>6, <1>7, StateFields DEF State
<1>9. r.j0 \in free /\ Minv(cost, s, r.j0) = delta
  <2> HIDE DEF delta, free, r
  <2>1. r.j0 = Min(least)
    BY <1>6
  <2> QED BY <1>4, <2>1
<1>10. /\ r.p = s.p /\ r.used = used /\ r.way = way1 /\ r.u = u1 /\ r.v = v1
       /\ r.minv = minv1
  <2> HIDE DEF u1, v1, way1, minv1, used, least, delta, minv, free, r
  <2> QED BY <1>6
<1>11. /\ \A j \in free : delta <= Minv(cost, s, j)
       /\ \A j \in free : r.minv[j] = Minv(cost, s, j) - delta
  <2> HIDE DEF delta, free, r
  <2> QED BY <1>1, <1>3, <1>10
<1> HIDE DEF delta, free, r
<1> QED BY <1>3, <1>8, <1>9, <1>10, <1>11 DEF Turned, free, r

\* A turn keeps what the search knows, and uses one column more.
LEMMA SearchStep ==
    ASSUME NEW n \in Nat, NEW cost \in Square(n), NEW i \in 1..n, NEW k \in 0..n, NEW s,
           Search(cost, n, s, i, k), s.p[s.j0] # 0
    PROVE  Search(cost, n, Reach(cost, n, s), i, k + 1)
<1> DEFINE used == s.used \cup {s.j0}
           free == Free(n, s)
           r == Reach(cost, n, s)
           red(q, j) == Reduced(cost, s, q, j)
           of(q) == \E x \in used : s.p[x] = q
<1>1. /\ s \in State(n) /\ s.p[0] = i /\ Matching(n, s.p, i - 1) /\ Tight(cost, n, s)
      /\ k = 0 => s.used = {} /\ s.j0 = 0 /\ Feasible(cost, n, s, i - 1)
      /\ k > 0 => /\ s.j0 \in 1..n /\ s.j0 \notin s.used /\ 0 \in s.used
                  /\ Feasible(cost, n, s, i)
                  /\ s.minv[s.j0] = 0
                  /\ \A j \in (1..n) \ s.used : Nearest(cost, s, j)
      /\ Cardinality(s.used) = k
      /\ \A j \in s.used : j # 0 => s.p[j] # 0
      /\ \E rank \in [0..n -> 0..n] : Tree(cost, s, rank, k)
  BY DEF Search
<1>2. /\ used \subseteq 0..n /\ 0 \in used /\ s.used \subseteq 0..n /\ s.j0 \in 0..n
      /\ s.j0 \notin s.used
  BY <1>1, StateFields
<1>a. (k = 0 \/ k > 0) /\ (s.used # {} => k > 0) /\ (s.j0 # 0 => k > 0)
  <2>1. k = 0 \/ k > 0
    OBVIOUS
  <2> QED BY <1>1, <2>1
<1>3. \A x \in used : s.p[x] \in 1..i /\ s.p[x] \in 1..n /\ (x # 0 => s.p[x] # i)
  <2> SUFFICES ASSUME NEW x \in used
               PROVE  s.p[x] \in 1..i /\ s.p[x] \in 1..n /\ (x # 0 => s.p[x] # i)
    OBVIOUS
  <2>1. CASE x = 0
    BY <1>1, <2>1
  <2>2. CASE x # 0
    <3>1. x \in 1..n
      BY <1>2, <2>2
    <3>2. s.p[x] \in 0..(i - 1) /\ s.p[x] # 0
      BY <1>1, <2>2, <3>1 DEF Matching
    <3> QED BY <3>2
  <2> QED BY <2>1, <2>2
<1>4. \A x, y \in used : s.p[x] = s.p[y] => x = y
  <2> SUFFICES ASSUME NEW x \in used, NEW y \in used, s.p[x] = s.p[y], x # y
               PROVE  FALSE
    OBVIOUS
  <2>1. CASE x = 0 \/ y = 0
    BY <1>1, <1>3, <2>1
  <2>2. CASE x # 0 /\ y # 0
    <3>1. x \in 1..n /\ y \in 1..n
      BY <1>2, <2>2
    <3>2. s.p[x] # 0
      BY <1>3
    <3> QED BY <1>1, <3>1, <3>2 DEF Matching
  <2> QED BY <2>1, <2>2
<1>5. free # {} /\ free = (1..n) \ used
  <2>1. PICK j \in 1..n : s.p[j] = 0
    BY <1>1, Unmatched
  <2>2. j \notin used
    BY <1>3, <2>1
  <2> QED BY <2>1, <2>2 DEF Free
<1>6. PICK delta \in Int : Turned(cost, n, s, r, delta)
  <2>1. s.p[s.j0] \in 1..n
    BY <1>3
  <2> QED BY <1>1, <1>5, <2>1, ReachIs
<1>7. /\ r \in State(n) /\ r.p = s.p /\ r.used = used /\ r.j0 \in free
      /\ Minv(cost, s, r.j0) = delta
      /\ \A j \in free : delta <= Minv(cost, s, j) /\ r.minv[j] = Minv(cost, s, j) - delta
      /\ \A j \in 1..n : r.way[j] = IF j \in free /\ Nearer(cost, s, j)
                                    THEN s.j0 ELSE s.way[j]
      /\ \A q \in 1..n : r.u[q] = IF of(q) THEN s.u[q] + delta ELSE s.u[q]
      /\ \A j \in 0..n : r.v[j] = IF j \in used THEN s.v[j] - delta ELSE s.v[j]
  <2> HIDE DEF r, free
  <2> QED BY <1>6 DEF Turned, free
<1>8. \A q \in 1..n, j \in 1..n : red(q, j) \in Int
  BY <1>1, ReducedInt
<1>9. \A j \in free : /\ j \in 1..n /\ j \notin used
                      /\ r.way[j] \in used
                      /\ Minv(cost, s, j) = red(s.p[r.way[j]], j)
                      /\ \A x \in used : Minv(cost, s, j) <= red(s.p[x], j)
  <2> SUFFICES ASSUME NEW j \in free
               PROVE  /\ j \in 1..n /\ j \notin used
                      /\ r.way[j] \in used
                      /\ Minv(cost, s, j) = red(s.p[r.way[j]], j)
                      /\ \A x \in used : Minv(cost, s, j) <= red(s.p[x], j)
    OBVIOUS
  <2>1. j \in 1..n /\ j \notin used
    BY <1>5
  <2>2. \A x \in used : red(s.p[x], j) \in Int
    BY <1>3, <1>8, <2>1
  <2>3. s.used # {} => Nearest(cost, s, j)
    BY <1>1, <1>a, <2>1
  <2>4. CASE Nearer(cost, s, j)
    <3>1. r.way[j] = s.j0 /\ Minv(cost, s, j) = red(s.p[s.j0], j)
      BY <1>7, <2>1, <2>4 DEF Minv
    <3>2. ASSUME NEW x \in s.used
          PROVE  red(s.p[s.j0], j) <= red(s.p[x], j)
      <4>1. s.minv[j] \in Int /\ red(s.p[s.j0], j) < s.minv[j] /\ s.minv[j] <= red(s.p[x], j)
        BY <1>1, <2>1, <2>3, <2>4, <3>2, StateFields DEF Nearer, Nearest
      <4> HIDE DEF red
      <4> QED BY <2>2, <4>1
    <3>3. red(s.p[s.j0], j) <= red(s.p[s.j0], j)
      <4> HIDE DEF red
      <4> QED BY <2>2
    <3> QED BY <2>1, <3>1, <3>2, <3>3
  <2>5. CASE ~Nearer(cost, s, j)
    <3>1. r.way[j] = s.way[j] /\ Minv(cost, s, j) = s.minv[j] /\ s.used # {}
          /\ ~(red(s.p[s.j0], j) < s.minv[j])
      BY <1>7, <2>1, <2>5 DEF Minv, Nearer
    <3>2. s.minv[j] \in Int
      BY <1>1, <2>1, StateFields
    <3>3. s.minv[j] <= red(s.p[s.j0], j)
      <4> HIDE DEF red
      <4> QED BY <2>2, <3>1, <3>2
    <3>4. /\ s.way[j] \in s.used /\ s.minv[j] = red(s.p[s.way[j]], j)
          /\ \A x \in s.used : s.minv[j] <= red(s.p[x], j)
      BY <2>3, <3>1 DEF Nearest
    <3> HIDE DEF red
    <3> QED BY <2>1, <3>1, <3>3, <3>4
  <2> QED BY <2>4, <2>5
<1>10. \A q \in 1..n, j \in 1..n :
          Reduced(cost, r, q, j) = red(q, j) - (IF of(q) THEN delta ELSE 0)
                                             + (IF j \in used THEN delta ELSE 0)
  <2> SUFFICES ASSUME NEW q \in 1..n, NEW j \in 1..n
               PROVE  Reduced(cost, r, q, j) = red(q, j) - (IF of(q) THEN delta ELSE 0)
                                                  + (IF j \in used THEN delta ELSE 0)
    OBVIOUS
  <2>1. cost[q][j] \in Int /\ s.u[q] \in Int /\ s.v[j] \in Int
    <3>1. cost[q] \in [1..n -> Int]
      BY DEF Square
    <3>2. j \in 0..n
      OBVIOUS
    <3> QED BY <1>1, <3>1, <3>2, StateFields
  <2>2. /\ r.u[q] = IF of(q) THEN s.u[q] + delta ELSE s.u[q]
        /\ r.v[j] = IF j \in used THEN s.v[j] - delta ELSE s.v[j]
    BY <1>7
  <2> HIDE DEF of, used, r
  <2> QED BY <1>7, <2>1, <2>2 DEF Reduced
<1> HIDE DEF r, red, free
<1>11. k > 0 => 0 <= delta
  <2>1. s.p[r.way[r.j0]] \in 1..i /\ r.j0 \in 1..n
    BY <1>3, <1>7, <1>9
  <2>2. delta = red(s.p[r.way[r.j0]], r.j0)
    BY <1>7, <1>9
  <2>3. k > 0 => Feasible(cost, n, s, i)
    BY <1>1
  <2> QED BY <2>1, <2>2, <2>3 DEF Feasible, red
<1>12. Feasible(cost, n, r, i)
  <2> SUFFICES ASSUME NEW q \in 1..i, NEW j \in 1..n
               PROVE  0 <= Reduced(cost, r, q, j)
    BY DEF Feasible
  <2>1. q \in 1..n
    OBVIOUS
  <2>2. red(q, j) \in Int
    BY <1>8, <2>1
  <2>3. CASE of(q) /\ j \notin used
    <3>1. PICK x \in used : s.p[x] = q
      BY <2>3
    <3>2. j \in free
      BY <1>5, <2>3
    <3>3. delta <= Minv(cost, s, j) /\ Minv(cost, s, j) <= red(q, j)
      BY <1>7, <1>9, <3>1, <3>2
    <3>4. Minv(cost, s, j) \in Int
      BY <1>3, <1>8, <1>9, <3>2
    <3>5. Reduced(cost, r, q, j) = red(q, j) - delta
      BY <1>7, <1>10, <2>1, <2>2, <2>3
    <3> QED BY <1>7, <2>2, <3>3, <3>4, <3>5
  <2>4. CASE ~of(q)
    <3>1. q # i /\ q \in 1..(i - 1)
      BY <1>1, <1>2, <2>4
    <3>2. 0 <= red(q, j)
      BY <1>1, <3>1 DEF Feasible, red
    <3>3. j \in used => 0 <= delta
      BY <1>1, <1>11
    <3> QED BY <1>7, <1>10, <2>1, <2>2, <2>4, <3>2, <3>3
  <2>5. CASE of(q) /\ j \in used
    <3>1. k > 0
      <4>1. k = 0 => used = {0}
        BY <1>1
      <4> HIDE DEF used
      <4> QED BY <1>a, <2>5, <4>1
    <3>2. 0 <= red(q, j)
      BY <1>1, <3>1 DEF Feasible, red
    <3> QED BY <1>7, <1>10, <2>1, <2>2, <2>5, <3>2
  <2> QED BY <2>3, <2>4, <2>5
<1>13. Tight(cost, n, r)
  <2> SUFFICES ASSUME NEW j \in 1..n, s.p[j] # 0
               PROVE  Reduced(cost, r, s.p[j], j) = 0
    BY <1>7 DEF Tight
  <2>1. s.p[j] \in 1..n /\ s.p[j] # i /\ red(s.p[j], j) = 0
    <3>1. s.p[j] \in 0..(i - 1)
      BY <1>1 DEF Matching
    <3> QED BY <1>1, <3>1 DEF Tight, red
  <2>2. of(s.p[j]) <=> j \in used
    <3>1. ASSUME NEW x \in used, s.p[x] = s.p[j]
          PROVE  x = j
      <4>1. x # 0
        BY <1>1, <2>1, <3>1
      <4>2. x \in 1..n
        BY <1>2, <4>1
      <4> QED BY <1>1, <3>1, <4>2 DEF Matching
    <3> QED BY <3>1
  <2>3. Reduced(cost, r, s.p[j], j) = red(s.p[j], j) - (IF of(s.p[j]) THEN delta ELSE 0)
                                             + (IF j \in used THEN delta ELSE 0)
    BY <1>10, <2>1
  <2> HIDE DEF of, used
  <2> QED BY <1>7, <2>1, <2>2, <2>3
<1>14. \A j \in (1..n) \ r.used : Nearest(cost, r, j)
  <2> SUFFICES ASSUME NEW j \in free
               PROVE  Nearest(cost, r, j)
    BY <1>5, <1>7
  <2>1. \A x \in used : /\ s.p[x] \in 1..n /\ red(s.p[x], j) \in Int
                        /\ Reduced(cost, r, s.p[x], j) = red(s.p[x], j) - delta
    <3> SUFFICES ASSUME NEW x \in used
                 PROVE  /\ s.p[x] \in 1..n /\ red(s.p[x], j) \in Int
                        /\ Reduced(cost, r, s.p[x], j) = red(s.p[x], j) - delta
      OBVIOUS
    <3>1. s.p[x] \in 1..n /\ red(s.p[x], j) \in Int /\ j \in 1..n /\ j \notin used
      BY <1>3, <1>8, <1>9
    <3>2. of(s.p[x])
      OBVIOUS
    <3>3. Reduced(cost, r, s.p[x], j) = red(s.p[x], j) - delta + 0
      BY <1>10, <3>1, <3>2
    <3> QED BY <1>7, <3>1, <3>3
  <2>2. r.minv[j] = Minv(cost, s, j) - delta
    BY <1>7
  <2>3. /\ r.way[j] \in used /\ Minv(cost, s, j) = red(s.p[r.way[j]], j)
        /\ \A x \in used : Minv(cost, s, j) <= red(s.p[x], j)
    BY <1>9
  <2>4. Minv(cost, s, j) \in Int
    BY <2>1, <2>3
  <2>5. \A x \in used : r.minv[j] <= Reduced(cost, r, s.p[x], j)
    BY <1>7, <2>1, <2>2, <2>3, <2>4
  <2>6. r.minv[j] = Reduced(cost, r, s.p[r.way[j]], j)
    BY <2>1, <2>2, <2>3
  <2> QED BY <1>7, <2>3, <2>5, <2>6 DEF Nearest
<1>15. r.minv[r.j0] = 0
  BY <1>7
<1>16. Cardinality(r.used) = k + 1
  <2>1. IsFiniteSet(s.used)
    <3>1. IsFiniteSet(0..n)
      BY FiniteColumns, Zenon
    <3> QED BY <1>2, <3>1, FS_Subset
  <2>2. Cardinality(used) = Cardinality(s.used) + 1
    BY <1>2, <2>1, FS_AddElement
  <2> QED BY <1>1, <1>7, <2>2
<1>17. \E rank \in [0..n -> 0..n] : Tree(cost, r, rank, k + 1)
  <2>1. PICK old \in [0..n -> 0..n] : Tree(cost, s, old, k)
    BY <1>1
  <2> DEFINE rank == [old EXCEPT ![s.j0] = k]
  <2>2. rank \in [0..n -> 0..n] /\ rank[s.j0] = k /\ \A j \in s.used : rank[j] = old[j]
    BY <1>2
  <2>3. \A j \in s.used : old[j] < k /\ old[j] \in 0..n
    BY <1>2, <2>1 DEF Tree
  <2>4. \A j \in used : rank[j] < k + 1
    BY <2>2, <2>3
  <2>5. ASSUME NEW j \in used, j # 0
        PROVE  r.way[j] \in used /\ rank[r.way[j]] < rank[j]
               /\ Reduced(cost, r, s.p[r.way[j]], j) = 0
    <3>a. j \in 1..n
      BY <1>2, <2>5, Columns, Zenon
    <3>1. j \in 1..n /\ j \notin free
      BY <1>5, <2>5, <3>a, Zenon
    <3>2. r.way[j] = s.way[j]
      BY <1>7, <3>1
    <3>3. /\ s.way[j] \in s.used /\ rank[s.way[j]] < rank[j]
          /\ red(s.p[s.way[j]], j) = 0
      <4>1. CASE j \in s.used
        BY <2>1, <2>2, <2>5, <4>1 DEF Tree, red
      <4>2. CASE j = s.j0
        <5>1. k > 0
          BY <1>a, <2>5, <4>2
        <5>2. s.way[j] \in s.used /\ red(s.p[s.way[j]], j) = 0
          BY <1>1, <3>1, <4>2, <5>1 DEF Nearest, red
        <5> QED BY <2>2, <2>3, <4>2, <5>2
      <4> QED BY <4>1, <4>2
    <3>4. of(s.p[s.way[j]]) /\ s.p[s.way[j]] \in 1..n
      BY <1>3, <3>3
    <3>5. Reduced(cost, r, s.p[s.way[j]], j) = red(s.p[s.way[j]], j) - delta + delta
      BY <1>10, <2>5, <3>1, <3>4
    <3>6. red(s.p[s.way[j]], j) - delta + delta = 0
      BY <3>3
    <3> HIDE DEF rank
    <3> QED BY <3>2, <3>3, <3>5, <3>6
  <2> HIDE DEF rank
  <2>6. Tree(cost, r, rank, k + 1)
    BY <1>7, <2>4, <2>5 DEF Tree
  <2> QED BY <2>2, <2>6
<1>18. \A j \in r.used : j # 0 => r.p[j] # 0
  BY <1>3, <1>7
<1>19. r.j0 \in 1..n /\ r.j0 \notin r.used /\ 0 \in r.used /\ r.p[0] = i
       /\ Matching(n, r.p, i - 1)
  BY <1>1, <1>2, <1>7, <1>9
<1>20. k + 1 > 0 /\ k + 1 # 0
  OBVIOUS
<1> QED BY <1>7, <1>12, <1>13, <1>14, <1>15, <1>16, <1>17, <1>18, <1>19, <1>20 DEF Search, r

-----------------------------------------------------------------------------
\* The assignment: one row

LEMMA Below ==
    \A x, y, z \in Nat : x < y /\ y < z => x < z /\ x # z
OBVIOUS

LEMMA NoRank ==
    \A x, n, k \in Nat : x + (n + 1) <= k => ~(k <= n)
OBVIOUS

LEMMA EarlierRows ==
    \A i \in Nat : \A r \in 0..(i - 1) : r \in 0..i /\ r # i
OBVIOUS

\* After i rows.
RowDone(cost, n, s, i) ==
    /\ s \in State(n) /\ Matching(n, s.p, i)
    /\ Feasible(cost, n, s, i) /\ Tight(cost, n, s)

LEMMA FirstTurn ==
    ASSUME NEW n \in Nat, NEW cost \in Square(n), NEW i \in 1..n, NEW s,
           RowDone(cost, n, s, i - 1)
    PROVE  Search(cost, n, [s EXCEPT !.p[0] = i, !.j0 = 0, !.used = {}], i, 0)
<1> DEFINE f == [s EXCEPT !.p[0] = i, !.j0 = 0, !.used = {}]
           p0 == [s.p EXCEPT ![0] = i]
<1>1. s \in State(n) /\ s.p \in [0..n -> 0..n]
  <2>1. s \in State(n)
    BY DEF RowDone
  <2> QED BY <2>1, StateFields
<1>2. f = [u |-> s.u, v |-> s.v, p |-> p0, way |-> s.way, minv |-> s.minv, used |-> {}, j0 |-> 0]
  <2>1. f = [s EXCEPT !.p = p0, !.j0 = 0, !.used = {}]
    BY Zenon
  <2> HIDE DEF f, p0
  <2> QED BY <1>1, <2>1 DEF State
<1>3. p0 \in [0..n -> 0..n] /\ p0[0] = i /\ \A j \in 1..n : p0[j] = s.p[j]
  BY <1>1
<1> HIDE DEF p0, f
<1>4. f \in State(n)
  <2>1. /\ s.u \in [1..n -> Int] /\ s.v \in [0..n -> Int] /\ s.way \in [1..n -> 0..n]
        /\ s.minv \in [1..n -> Int]
    BY <1>1, StateFields
  <2>2. 0 \in 0..n /\ {} \subseteq 0..n
    OBVIOUS
  <2> QED BY <1>2, <1>3, <2>1, <2>2 DEF State
<1>5. /\ f.p = p0 /\ f.used = {} /\ f.j0 = 0 /\ f.u = s.u /\ f.v = s.v
  BY <1>2
<1>6. Matching(n, f.p, i - 1)
  <2>1. Matching(n, s.p, i - 1)
    BY DEF RowDone
  <2>2. \A j \in 1..n : f.p[j] = s.p[j]
    BY <1>3, <1>5
  <2> QED BY <2>1, <2>2, Zenon DEF Matching
<1>7. Feasible(cost, n, f, i - 1) /\ Tight(cost, n, f)
  BY <1>3, <1>5 DEF RowDone, Feasible, Tight, Reduced
<1>8. Cardinality(f.used) = 0
  BY <1>5, FS_EmptySet
<1>9. Tree(cost, f, [j \in 0..n |-> 0], 0) /\ [j \in 0..n |-> 0] \in [0..n -> 0..n]
  BY <1>5 DEF Tree
<1> QED BY <1>3, <1>4, <1>5, <1>6, <1>7, <1>8, <1>9 DEF Search, f

\* The turns reach a column without a row, before they run out of columns.
LEMMA TurnsEnd ==
    ASSUME NEW n \in Nat, NEW cost \in Square(n), NEW i \in 1..n, NEW first,
           Search(cost, n, first, i, 0)
    PROVE  LET s == Turns(cost, n, first)[n]
           IN  s.p[s.j0] = 0 /\ \E k \in 1..n : Search(cost, n, s, i, k)
<1> DEFINE t == Turns(cost, n, first)
           Good(k) == \E l \in 0..k : /\ Search(cost, n, t[k], i, l)
                                      /\ l = k \/ t[k].p[t[k].j0] = 0
           bad == {k \in 0..n : ~Good(k)}
<1>1. t[0] = first /\ \A k \in 1..n : t[k] = Turn(cost, n, t[k - 1])
  BY TurnsIs
<1> HIDE DEF t
<1>2. ASSUME bad # {}
      PROVE  FALSE
  <2>1. PICK k \in bad : \A m \in bad : k <= m
    <3>1. bad \subseteq Nat
      OBVIOUS
    <3> HIDE DEF bad
    <3> QED BY <1>2, <3>1, LeastNumber
  <2>2. CASE k = 0
    BY <1>1, <2>1, <2>2
  <2>3. CASE k # 0
    <3>1. k \in 1..n /\ k - 1 \in 0..n /\ ~(k <= k - 1)
      BY <2>1, <2>3
    <3>2. Good(k - 1)
      BY <2>1, <3>1
    <3>3. PICK l \in 0..(k - 1) : /\ Search(cost, n, t[k - 1], i, l)
                                  /\ l = k - 1 \/ t[k - 1].p[t[k - 1].j0] = 0
      BY <3>2
    <3>4. t[k] = Turn(cost, n, t[k - 1])
      BY <1>1, <3>1
    <3>5. CASE t[k - 1].p[t[k - 1].j0] = 0
      <4>1. t[k] = t[k - 1] /\ l \in 0..k
        BY <3>1, <3>4, <3>5 DEF Turn
      <4> QED BY <2>1, <3>3, <3>5, <4>1
    <3>6. CASE t[k - 1].p[t[k - 1].j0] # 0
      <4>1. t[k] = Reach(cost, n, t[k - 1]) /\ l = k - 1 /\ l \in 0..n
        BY <3>1, <3>3, <3>4, <3>6 DEF Turn
      <4>2. Search(cost, n, t[k], i, l + 1)
        BY <3>3, <3>6, <4>1, SearchStep
      <4>3. l + 1 = k /\ k \in 0..k
        BY <3>1, <4>1
      <4> QED BY <2>1, <4>2, <4>3
    <3> QED BY <3>5, <3>6
  <2> QED BY <2>2, <2>3
<1>3. PICK l \in 0..n : /\ Search(cost, n, t[n], i, l)
                        /\ l = n \/ t[n].p[t[n].j0] = 0
  BY <1>2
<1> DEFINE s == t[n]
<1>4. ASSUME s.p[s.j0] # 0
      PROVE  FALSE
  <2>1. l = n /\ l > 0
    BY <1>3, <1>4
  <2>2. /\ s \in State(n) /\ s.j0 \in 1..n /\ s.j0 \notin s.used
        /\ Cardinality(s.used) = n
        /\ \A j \in s.used : j # 0 => s.p[j] # 0
        /\ Matching(n, s.p, i - 1)
    BY <1>3, <2>1 DEF Search
  <2> HIDE DEF s
  <2>3. s.used \subseteq 0..n /\ s.used \cup {s.j0} \subseteq 0..n
    BY <2>2, StateFields
  <2>4. IsFiniteSet(0..n) /\ Cardinality(0..n) = n + 1
    BY FiniteColumns, Zenon
  <2>5. Cardinality(s.used \cup {s.j0}) = n + 1
    <3>1. IsFiniteSet(s.used)
      BY <2>3, <2>4, FS_Subset
    <3> QED BY <2>2, <3>1, FS_AddElement
  <2>6. s.used \cup {s.j0} = 0..n
    BY <2>3, <2>4, <2>5, FS_Subset
  <2>7. PICK j \in 1..n : s.p[j] = 0
    BY <2>2, Unmatched
  <2>8. j \in 0..n /\ j # 0
    OBVIOUS
  <2> QED BY <1>4, <2>2, <2>6, <2>7, <2>8
<1>5. l # 0
  <2>1. l = 0 => s.j0 = 0 /\ s.p[0] = i
    BY <1>3 DEF Search
  <2> QED BY <1>4, <2>1
<1>6. l \in 1..n
  BY <1>5
<1> QED BY <1>3, <1>4, <1>6 DEF t

\* After m of the shifts from s, q.p has the rows, all but one of whose columns are theirs
\* to keep, and q.j is the column that is free.  On the rest of the path nothing has moved.
Path(cost, n, s, i, k, rank, q, m) ==
    /\ q = [p |-> q.p, j |-> q.j]
    /\ q.p \in [0..n -> 0..n] /\ q.j \in s.used \cup {s.j0}
    /\ q.j = 0 \/ rank[q.j] + m <= k
    /\ \A x \in 0..n : q.p[x] \in 0..i
    /\ \A r \in 1..i : \E x \in 0..n : x # q.j /\ q.p[x] = r
    /\ \A x, y \in 0..n : x # q.j /\ y # q.j /\ q.p[x] = q.p[y] /\ q.p[x] # 0 => x = y
    /\ \A x \in 1..n : x # q.j /\ q.p[x] # 0 => Reduced(cost, s, q.p[x], x) = 0
    /\ \A x \in s.used : rank[x] < rank[q.j] => q.p[x] = s.p[x]

LEMMA PathStep ==
    ASSUME NEW n \in Nat, NEW cost, NEW s \in State(n), NEW i \in 1..n, NEW k \in 0..n,
           NEW rank \in [0..n -> 0..n], NEW q, NEW m \in Nat,
           Path(cost, n, s, i, k, rank, q, m),
           \A j \in s.used \cup {s.j0} : j # 0 =>
               /\ s.way[j] \in s.used /\ rank[s.way[j]] < rank[j]
               /\ Reduced(cost, s, s.p[s.way[j]], j) = 0
    PROVE  Path(cost, n, s, i, k, rank, Shift(q, s.way), m + 1)
<1>1. s.used \subseteq 0..n /\ s.j0 \in 0..n /\ s.p \in [0..n -> 0..n]
  BY StateFields
<1>2. CASE q.j = 0
  <2>1. Shift(q, s.way) = q
    BY <1>2 DEF Shift
  <2> QED BY <1>2, <2>1 DEF Path
<1>3. CASE q.j # 0
  <2> DEFINE w == s.way[q.j]
             P == [q.p EXCEPT ![q.j] = q.p[w]]
             q1 == Shift(q, s.way)
  <2>1. q1 = [p |-> P, j |-> w] /\ q1.p = P /\ q1.j = w
    BY <1>3 DEF Shift
  <2>2. /\ q.j \in s.used \cup {s.j0} /\ q.j \in 0..n /\ q.j \in 1..n
    BY <1>1, <1>3 DEF Path
  <2>3. /\ w \in s.used /\ w \in 0..n /\ rank[w] < rank[q.j]
        /\ Reduced(cost, s, s.p[w], q.j) = 0
    BY <1>1, <1>3, <2>2
  <2>4. rank[w] \in Nat /\ rank[q.j] \in Nat /\ w # q.j /\ q.p[w] = s.p[w]
    BY <2>2, <2>3 DEF Path
  <2>5. /\ P \in [0..n -> 0..n] /\ P[q.j] = q.p[w]
        /\ \A x \in 0..n : x # q.j => P[x] = q.p[x]
    BY <2>2, <2>3 DEF Path
  <2> HIDE DEF P, w, q1
  <2>6. rank[w] + (m + 1) <= k
    BY <1>3, <2>3, <2>4 DEF Path
  <2>7. \A x \in 0..n : P[x] \in 0..i
    BY <2>3, <2>5 DEF Path
  <2>8. ASSUME NEW r \in 1..i
        PROVE  \E x \in 0..n : x # w /\ P[x] = r
    <3>1. PICK x \in 0..n : x # q.j /\ q.p[x] = r
      BY DEF Path
    <3>2. CASE x = w
      BY <2>2, <2>4, <2>5, <3>1, <3>2
    <3>3. CASE x # w
      BY <2>5, <3>1, <3>3
    <3> QED BY <3>2, <3>3
  <2>9. ASSUME NEW x \in 0..n, NEW y \in 0..n, x # w, y # w, P[x] = P[y], P[x] # 0
        PROVE  x = y
    <3>1. CASE x # q.j /\ y # q.j
      BY <2>5, <2>9, <3>1 DEF Path
    <3>2. CASE x = q.j /\ y # q.j
      <4>1. q.p[w] = q.p[y] /\ q.p[w] # 0
        BY <2>5, <2>9, <3>2
      <4> QED BY <2>3, <2>4, <2>9, <3>2, <4>1 DEF Path
    <3>3. CASE x # q.j /\ y = q.j
      <4>1. q.p[w] = q.p[x] /\ q.p[w] # 0
        BY <2>5, <2>9, <3>3
      <4> QED BY <2>3, <2>4, <2>9, <3>3, <4>1 DEF Path
    <3>4. CASE x = q.j /\ y = q.j
      BY <3>4
    <3> QED BY <3>1, <3>2, <3>3, <3>4
  <2>10. ASSUME NEW x \in 1..n, x # w, P[x] # 0
         PROVE  Reduced(cost, s, P[x], x) = 0
    <3>1. CASE x = q.j
      BY <2>3, <2>4, <2>5, <3>1
    <3>2. CASE x # q.j
      <4>1. x \in 0..n
        OBVIOUS
      <4> QED BY <2>5, <2>10, <3>2, <4>1 DEF Path
    <3> QED BY <3>1, <3>2
  <2>11. ASSUME NEW x \in s.used, rank[x] < rank[w]
         PROVE  P[x] = s.p[x]
    <3>1. x \in 0..n
      BY <1>1, <2>11
    <3>b. rank[x] \in Nat
      BY <3>1
    <3>2. rank[x] < rank[q.j] /\ x # q.j
      <4>1. rank[x] < rank[w] /\ rank[w] < rank[q.j]
        BY <2>3, <2>11
      <4>2. rank[x] < rank[q.j] /\ rank[x] # rank[q.j]
        BY <2>4, <3>b, <4>1, Below, Zenon
      <4> QED BY <4>2, Zenon
    <3> QED BY <2>5, <2>11, <3>1, <3>2 DEF Path
  <2>12. Path(cost, n, s, i, k, rank, q1, m + 1)
    BY <2>1, <2>3, <2>5, <2>6, <2>7, <2>8, <2>9, <2>10, <2>11 DEF Path
  <2> QED BY <2>12 DEF q1
<1> QED BY <1>2, <1>3

\* Rows 1 to i have columns in P, where the potentials of s meet the costs.
Placed(cost, n, s, P, i) ==
    /\ P \in [0..n -> 0..n] /\ Matching(n, P, i)
    /\ \A j \in 1..n : P[j] # 0 => Reduced(cost, s, P[j], j) = 0

\* The shifts end at column 0, and the row has a column.
LEMMA ShiftsEnd ==
    ASSUME NEW n \in Nat, NEW cost \in Square(n), NEW i \in 1..n, NEW k \in 1..n, NEW s,
           Search(cost, n, s, i, k), s.p[s.j0] = 0
    PROVE  Placed(cost, n, s, Shifts(n, s.p, s.way, s.j0)[n + 1].p, i)
<1>1. /\ s \in State(n) /\ s.p[0] = i /\ Matching(n, s.p, i - 1) /\ Tight(cost, n, s)
      /\ s.j0 \in 1..n /\ s.j0 \notin s.used /\ 0 \in s.used
      /\ s.minv[s.j0] = 0
      /\ \A j \in (1..n) \ s.used : Nearest(cost, s, j)
      /\ \E rank \in [0..n -> 0..n] : Tree(cost, s, rank, k)
  BY DEF Search
<1>2. PICK old \in [0..n -> 0..n] : Tree(cost, s, old, k)
  BY <1>1
<1>3. s.used \subseteq 0..n /\ s.p \in [0..n -> 0..n]
  BY <1>1, StateFields
<1> DEFINE rank == [old EXCEPT ![s.j0] = k]
<1>4. /\ rank \in [0..n -> 0..n] /\ rank[s.j0] = k
      /\ \A j \in s.used : rank[j] = old[j] /\ rank[j] < k
  <2>1. s.j0 \in 0..n /\ k \in 0..n
    BY <1>1, Columns, Zenon
  <2>2. \A j \in s.used : j \in 0..n /\ j # s.j0 /\ old[j] < k
    BY <1>1, <1>2, <1>3 DEF Tree
  <2> QED BY <2>1, <2>2
<1> HIDE DEF rank
<1>a. s.j0 \in 0..n /\ s.j0 # 0 /\ 0 \in 0..n
  BY <1>1, Columns, Zenon
<1>b. s.p[0] = i
  BY <1>1
<1>5. ASSUME NEW j \in s.used \cup {s.j0}, j # 0
      PROVE  /\ s.way[j] \in s.used /\ rank[s.way[j]] < rank[j]
             /\ Reduced(cost, s, s.p[s.way[j]], j) = 0
  <2>1. CASE j \in s.used
    BY <1>2, <1>4, <1>5, <2>1 DEF Tree
  <2>2. CASE j = s.j0
    <3>1. Nearest(cost, s, j) /\ s.minv[j] = 0
      BY <1>1, <2>2
    <3> QED BY <1>4, <2>2, <3>1 DEF Nearest
  <2> QED BY <1>5, <2>1, <2>2
<1> DEFINE t == Shifts(n, s.p, s.way, s.j0)
           Good(m) == Path(cost, n, s, i, k, rank, t[m], m)
           bad == {m \in 0..(n + 1) : ~Good(m)}
<1>6. /\ t[0] = [p |-> s.p, j |-> s.j0]
      /\ \A m \in 1..(n + 1) : t[m] = Shift(t[m - 1], s.way)
  <2> HIDE DEF t, Good, bad
  <2> DEFINE From(p, way, j) ==
                 /\ Shifts(n, p, way, j)[0] = [p |-> p, j |-> j]
                 /\ \A m \in 1..(n + 1) :
                       Shifts(n, p, way, j)[m] = Shift(Shifts(n, p, way, j)[m - 1], way)
  <2>1. \A p, way, j : From(p, way, j)
    BY ShiftsIs
  <2>2. From(s.p, s.way, s.j0)
    <3> HIDE DEF From
    <3> QED BY <2>1
  <2> QED BY <2>2, Zenon DEF t
<1> HIDE DEF t
<1>7. Good(0)
  <2>1. \A x \in 1..n : s.p[x] \in 0..(i - 1)
    BY <1>1 DEF Matching
  <2>2. \A x \in 0..n : s.p[x] \in 0..i /\ (x # 0 => s.p[x] # i)
    <3> SUFFICES ASSUME NEW x \in 0..n
                 PROVE  s.p[x] \in 0..i /\ (x # 0 => s.p[x] # i)
      OBVIOUS
    <3>1. CASE x = 0
      BY <1>b, <3>1
    <3>2. CASE x # 0
      <4>1. x \in 1..n
        BY <3>2
      <4>2. s.p[x] \in 0..(i - 1)
        BY <2>1, <4>1
      <4>3. i \in Nat
        OBVIOUS
      <4> QED BY <4>2, <4>3, EarlierRows, Zenon
    <3> QED BY <3>1, <3>2
  <2>3. ASSUME NEW r \in 1..i
        PROVE  \E x \in 0..n : x # s.j0 /\ s.p[x] = r
    <3>1. CASE r = i
      <4>1. 0 \in 0..n /\ 0 # s.j0
        BY <1>a, Zenon
      <4> QED BY <1>b, <3>1, <4>1
    <3>2. CASE r # i
      <4>1. r \in 1..(i - 1) /\ r # 0
        BY <3>2
      <4>2. PICK x \in 1..n : s.p[x] = r
        BY <1>1, <4>1 DEF Matching
      <4>3. x \in 0..n /\ x # s.j0
        BY <4>1, <4>2, Columns, Zenon
      <4> QED BY <4>2, <4>3
    <3> QED BY <3>1, <3>2
  <2>4. ASSUME NEW x \in 0..n, NEW y \in 0..n, s.p[x] = s.p[y], s.p[x] # 0
        PROVE  x = y
    <3>1. CASE x = 0 \/ y = 0
      BY <1>1, <2>2, <2>4, <3>1
    <3>2. CASE x # 0 /\ y # 0
      <4>1. x \in 1..n /\ y \in 1..n
        BY <3>2
      <4> QED BY <1>1, <2>4, <4>1 DEF Matching
    <3> QED BY <3>1, <3>2
  <2>5. \A x \in 1..n : s.p[x] # 0 => Reduced(cost, s, s.p[x], x) = 0
    BY <1>1 DEF Tight
  <2>6. t[0].p = s.p /\ t[0].j = s.j0 /\ rank[s.j0] + 0 <= k
    BY <1>4, <1>6
  <2> QED BY <1>1, <1>3, <1>6, <2>2, <2>3, <2>4, <2>5, <2>6 DEF Path
<1>8. ASSUME bad # {}
      PROVE  FALSE
  <2>1. PICK m \in bad : \A l \in bad : m <= l
    <3>1. bad \subseteq Nat
      OBVIOUS
    <3> HIDE DEF bad
    <3> QED BY <1>8, <3>1, LeastNumber
  <2>2. m \in 1..(n + 1) /\ m - 1 \in 0..(n + 1) /\ m - 1 \in Nat /\ ~(m <= m - 1)
    BY <1>7, <2>1
  <2>3. Good(m - 1)
    BY <2>1, <2>2
  <2>4. Path(cost, n, s, i, k, rank, Shift(t[m - 1], s.way), (m - 1) + 1)
    <3>1. k \in 0..n
      OBVIOUS
    <3> QED BY <1>1, <1>4, <1>5, <2>2, <2>3, <3>1, PathStep
  <2>5. (m - 1) + 1 = m
    BY <2>2
  <2>6. Good(m)
    BY <1>6, <2>2, <2>4, <2>5
  <2> QED BY <2>1, <2>6
<1> DEFINE q == t[n + 1]
<1>9. Path(cost, n, s, i, k, rank, q, n + 1)
  <2>1. n + 1 \in 0..(n + 1)
    OBVIOUS
  <2> QED BY <1>8, <2>1
<1> HIDE DEF q
<1>10. q.j = 0
  <2>1. q.j \in 0..n /\ (q.j = 0 \/ rank[q.j] + (n + 1) <= k)
    BY <1>1, <1>3, <1>9 DEF Path
  <2>2. rank[q.j] \in Nat
    BY <1>4, <2>1
  <2>3. k \in Nat /\ k <= n
    OBVIOUS
  <2> QED BY <2>1, <2>2, <2>3, NoRank, Zenon
<1>11. Matching(n, q.p, i)
  <2>1. \A j \in 1..n : j \in 0..n /\ j # q.j
    BY <1>10
  <2>2. ASSUME NEW r \in 1..i
        PROVE  \E j \in 1..n : q.p[j] = r
    <3>1. PICK x \in 0..n : x # q.j /\ q.p[x] = r
      BY <1>9 DEF Path
    <3>2. x \in 1..n
      BY <1>10, <3>1
    <3> QED BY <3>1, <3>2
  <2> QED BY <1>9, <2>1, <2>2 DEF Path, Matching
<1>12. \A j \in 1..n : q.p[j] # 0 => Reduced(cost, s, q.p[j], j) = 0
  BY <1>9, <1>10 DEF Path
<1>13. q.p \in [0..n -> 0..n]
  BY <1>9 DEF Path
<1> QED BY <1>11, <1>12, <1>13 DEF q, t, Placed

LEMMA AddRowDone ==
    ASSUME NEW n \in Nat, NEW cost \in Square(n), NEW i \in 1..n, NEW s,
           RowDone(cost, n, s, i - 1)
    PROVE  RowDone(cost, n, AddRow(cost, n, s, i), i)
<1> DEFINE last == Turns(cost, n, [s EXCEPT !.p[0] = i, !.j0 = 0, !.used = {}])[n]
           P == Shifts(n, last.p, last.way, last.j0)[n + 1].p
           r == AddRow(cost, n, s, i)
<1>1. last.p[last.j0] = 0 /\ \E k \in 1..n : Search(cost, n, last, i, k)
  BY FirstTurn, TurnsEnd
<1>2. r = [last EXCEPT !.p = P]
  BY DEF AddRow
<1> HIDE DEF last, r
<1>3. PICK k \in 1..n : Search(cost, n, last, i, k)
  BY <1>1
<1>4. Placed(cost, n, last, P, i)
  BY <1>1, <1>3, ShiftsEnd
<1>5. last \in State(n) /\ Feasible(cost, n, last, i)
  BY <1>3 DEF Search
<1> HIDE DEF P
<1>6. /\ r = [u |-> last.u, v |-> last.v, p |-> P, way |-> last.way, minv |-> last.minv,
              used |-> last.used, j0 |-> last.j0]
      /\ r.p = P /\ r.u = last.u /\ r.v = last.v
  BY <1>2, <1>5 DEF State
<1>7. r \in State(n)
  BY <1>4, <1>5, <1>6, StateFields DEF State, Placed
<1>8. Feasible(cost, n, r, i) /\ Tight(cost, n, r)
  BY <1>4, <1>5, <1>6 DEF Feasible, Tight, Reduced, Placed
<1> QED BY <1>4, <1>6, <1>7, <1>8 DEF RowDone, r, Placed

LEMMA TableDone ==
    ASSUME NEW n \in Nat, NEW cost \in Square(n)
    PROVE  RowDone(cost, n, Table(cost, n)[n], n)
<1> DEFINE t == Table(cost, n)
           bad == {i \in 0..n : ~RowDone(cost, n, t[i], i)}
<1>1. t[0] = NoRows(n) /\ \A i \in 1..n : t[i] = AddRow(cost, n, t[i - 1], i)
  BY TableIs
<1> HIDE DEF t
<1>2. RowDone(cost, n, NoRows(n), 0)
  BY DEF RowDone, NoRows, State, Matching, Feasible, Tight
<1>3. ASSUME bad # {}
      PROVE  FALSE
  <2>1. PICK i \in bad : \A l \in bad : i <= l
    <3>1. bad \subseteq Nat
      OBVIOUS
    <3> HIDE DEF bad
    <3> QED BY <1>3, <3>1, LeastNumber
  <2>2. i \in 1..n /\ i - 1 \in 0..n /\ ~(i <= i - 1)
    BY <1>1, <1>2, <2>1
  <2>3. RowDone(cost, n, t[i - 1], i - 1)
    BY <2>1, <2>2
  <2> QED BY <1>1, <2>1, <2>2, <2>3, AddRowDone
<1>4. n \in 0..n
  OBVIOUS
<1> QED BY <1>3, <1>4 DEF t

-----------------------------------------------------------------------------
\* Sums

\* s has the sums of the first numbers of w.
RunSum(s, w, n) ==
    /\ s \in [0..n -> Int] /\ s[0] = 0
    /\ \A k \in 1..n : s[k] = s[k - 1] + w[k]

LEMMA SumIs ==
    ASSUME NEW n \in Nat, NEW w, \A k \in 1..n : w[k] \in Int
    PROVE  \E s : RunSum(s, w, n) /\ Sum(w, n) = s[n]
<1> DEFINE Is(f, m) == f = [k \in 0..m |-> IF k = 0 THEN 0 ELSE f[k - 1] + w[k]]
           bad == {m \in Nat : ~\E f : Is(f, m)}
<1>1. ASSUME bad # {}
      PROVE  FALSE
  <2> HIDE DEF Is
  <2>1. PICK m \in bad : \A l \in bad : m <= l
    BY <1>1, LeastNumber
  <2>2. CASE m = 0
    <3>1. Is([k \in 0..0 |-> 0], 0)
      BY DEF Is
    <3> QED BY <2>1, <2>2, <3>1
  <2>3. CASE m # 0
    <3>1. m - 1 \in Nat /\ m - 1 \notin bad
      BY <2>1, <2>3
    <3>2. PICK g : Is(g, m - 1)
      BY <3>1
    <3> DEFINE h == [k \in 0..m |-> IF k = m THEN g[m - 1] + w[m] ELSE g[k]]
    <3>3. \A k \in 0..m : h[k] = IF k = 0 THEN 0 ELSE h[k - 1] + w[k]
      BY <2>3, <3>1, <3>2 DEF Is
    <3>4. Is(h, m)
      BY <3>3 DEF Is
    <3> QED BY <2>1, <3>4
  <2> QED BY <2>2, <2>3
<1> DEFINE s == CHOOSE f : Is(f, n)
<1>2. Is(s, n) /\ Sum(w, n) = s[n]
  <2>1. \E f : Is(f, n)
    BY <1>1
  <2>2. Is(s, n)
    BY <2>1
  <2>3. Sum(w, n) = s[n]
    BY DEF Sum
  <2> QED BY <2>2, <2>3
<1> HIDE DEF s
<1>3. s[0] = 0 /\ \A k \in 1..n : s[k] = s[k - 1] + w[k]
  BY <1>2
<1> DEFINE odd == {k \in 0..n : s[k] \notin Int}
<1>4. ASSUME odd # {}
      PROVE  FALSE
  <2>1. PICK k \in odd : \A l \in odd : k <= l
    <3>1. odd \subseteq Nat
      OBVIOUS
    <3> HIDE DEF odd
    <3> QED BY <1>4, <3>1, LeastNumber
  <2>2. k \in 1..n /\ k - 1 \in 0..n /\ ~(k <= k - 1)
    BY <1>3, <2>1
  <2>3. s[k - 1] \in Int
    BY <2>1, <2>2
  <2> QED BY <1>3, <2>1, <2>2, <2>3
<1>5. s \in [0..n -> Int]
  BY <1>2, <1>4
<1> QED BY <1>2, <1>3, <1>5 DEF RunSum

LEMMA SumMonotone ==
    ASSUME NEW n \in Nat, NEW w, NEW x, NEW s, NEW t,
           \A k \in 1..n : w[k] \in Int /\ x[k] \in Int /\ w[k] <= x[k],
           RunSum(s, w, n), RunSum(t, x, n)
    PROVE  s[n] <= t[n]
<1> DEFINE bad == {k \in 0..n : ~(s[k] <= t[k])}
<1>1. /\ s \in [0..n -> Int] /\ s[0] = 0 /\ \A k \in 1..n : s[k] = s[k - 1] + w[k]
      /\ t \in [0..n -> Int] /\ t[0] = 0 /\ \A k \in 1..n : t[k] = t[k - 1] + x[k]
  BY DEF RunSum
<1>2. ASSUME bad # {}
      PROVE  FALSE
  <2>1. PICK k \in bad : \A l \in bad : k <= l
    <3>1. bad \subseteq Nat
      OBVIOUS
    <3> HIDE DEF bad
    <3> QED BY <1>2, <3>1, LeastNumber
  <2>2. k \in 1..n /\ k - 1 \in 0..n /\ ~(k <= k - 1)
    BY <1>1, <2>1
  <2>3. s[k - 1] <= t[k - 1] /\ s[k - 1] \in Int /\ t[k - 1] \in Int
    BY <1>1, <2>1, <2>2
  <2>4. w[k] \in Int /\ x[k] \in Int /\ w[k] <= x[k]
    BY <2>2
  <2>5. s[k] = s[k - 1] + w[k] /\ t[k] = t[k - 1] + x[k]
    BY <1>1, <2>2
  <2>6. s[k] <= t[k]
    BY <2>3, <2>4, <2>5
  <2> QED BY <2>1, <2>6
<1> QED BY <1>2

LEMMA SumAdd ==
    ASSUME NEW n \in Nat, NEW w, NEW x, NEW y, NEW s, NEW t, NEW r,
           \A k \in 1..n : w[k] \in Int /\ x[k] \in Int /\ y[k] = w[k] + x[k],
           RunSum(s, w, n), RunSum(t, x, n), RunSum(r, y, n)
    PROVE  r[n] = s[n] + t[n]
<1> DEFINE bad == {k \in 0..n : r[k] # s[k] + t[k]}
<1>1. /\ s \in [0..n -> Int] /\ s[0] = 0 /\ \A k \in 1..n : s[k] = s[k - 1] + w[k]
      /\ t \in [0..n -> Int] /\ t[0] = 0 /\ \A k \in 1..n : t[k] = t[k - 1] + x[k]
      /\ r \in [0..n -> Int] /\ r[0] = 0 /\ \A k \in 1..n : r[k] = r[k - 1] + y[k]
  BY DEF RunSum
<1>2. ASSUME bad # {}
      PROVE  FALSE
  <2>1. PICK k \in bad : \A l \in bad : k <= l
    <3>1. bad \subseteq Nat
      OBVIOUS
    <3> HIDE DEF bad
    <3> QED BY <1>2, <3>1, LeastNumber
  <2>2. k \in 1..n /\ k - 1 \in 0..n /\ ~(k <= k - 1)
    BY <1>1, <2>1
  <2>3. r[k - 1] = s[k - 1] + t[k - 1] /\ s[k - 1] \in Int /\ t[k - 1] \in Int
    BY <1>1, <2>1, <2>2
  <2>4. w[k] \in Int /\ x[k] \in Int /\ y[k] = w[k] + x[k]
    BY <2>2
  <2>5. s[k] = s[k - 1] + w[k] /\ t[k] = t[k - 1] + x[k] /\ r[k] = r[k - 1] + y[k]
    BY <1>1, <2>2
  <2>6. r[k] = s[k] + t[k]
    BY <2>3, <2>4, <2>5
  <2> QED BY <2>1, <2>6
<1> QED BY <1>2

\* One number becomes another.
LEMMA SumChange ==
    ASSUME NEW n \in Nat, NEW m \in 1..n, NEW w, NEW x, NEW s, NEW t,
           \A k \in 1..n : w[k] \in Int /\ x[k] \in Int /\ (k # m => x[k] = w[k]),
           RunSum(s, w, n), RunSum(t, x, n)
    PROVE  t[n] = s[n] + (x[m] - w[m])
<1> DEFINE c == x[m] - w[m]
           d == [k \in 1..n |-> IF k = m THEN c ELSE 0]
           r == [k \in 0..n |-> IF k < m THEN 0 ELSE c]
<1>1. c \in Int
  OBVIOUS
<1> HIDE DEF c
<1>2. \A k \in 1..n : w[k] \in Int /\ d[k] \in Int /\ x[k] = w[k] + d[k]
  BY <1>1 DEF c
<1>3. RunSum(r, d, n)
  <2>1. r \in [0..n -> Int] /\ r[0] = 0
    BY <1>1
  <2>2. ASSUME NEW k \in 1..n
        PROVE  r[k] = r[k - 1] + d[k]
    BY <1>1
  <2> QED BY <2>1, <2>2 DEF RunSum
<1>4. r[n] = c
  OBVIOUS
<1> HIDE DEF d, r
<1>5. t[n] = s[n] + r[n]
  BY <1>2, <1>3, SumAdd
<1> QED BY <1>4, <1>5 DEF c

\* f puts the numbers up to n in another order.
Reorders(f, n) ==
    /\ \A k \in 1..n : f[k] \in 1..n
    /\ \A j, k \in 1..n : f[j] = f[k] => j = k
    /\ \A x \in 1..n : \E k \in 1..n : f[k] = x

\* The sum does not depend on the order.
SameSum(n) ==
    \A f, v, w, s, t :
        /\ Reorders(f, n)
        /\ \A k \in 1..n : v[k] \in Int /\ w[k] = v[f[k]]
        /\ RunSum(s, v, n) /\ RunSum(t, w, n)
        => s[n] = t[n]

LEMMA ReorderedSum == \A n \in Nat : SameSum(n)
<1> DEFINE bad == {n \in Nat : ~SameSum(n)}
<1>1. ASSUME bad # {}
      PROVE  FALSE
  <2>1. PICK n \in bad : \A l \in bad : n <= l
    BY <1>1, LeastNumber
  <2>2. PICK f, v, w, s, t :
            /\ Reorders(f, n)
            /\ \A k \in 1..n : v[k] \in Int /\ w[k] = v[f[k]]
            /\ RunSum(s, v, n) /\ RunSum(t, w, n)
            /\ s[n] # t[n]
    BY <2>1 DEF SameSum
  <2>3. /\ s \in [0..n -> Int] /\ s[0] = 0 /\ \A k \in 1..n : s[k] = s[k - 1] + v[k]
        /\ t \in [0..n -> Int] /\ t[0] = 0 /\ \A k \in 1..n : t[k] = t[k - 1] + w[k]
    BY <2>2 DEF RunSum
  <2>4. n # 0
    BY <2>2, <2>3
  <2> DEFINE a == n - 1
  <2>5. /\ a \in Nat /\ n \in 1..n /\ SameSum(a)
        /\ \A k \in 1..a : k \in 1..n /\ k # n
        /\ \A k \in 1..n : k # n => k \in 1..a
        /\ \A k \in 0..a : k \in 0..n
    BY <2>1, <2>4
  <2>6. /\ \A k \in 1..n : f[k] \in 1..n
        /\ \A j, k \in 1..n : f[j] = f[k] => j = k
        /\ \A x \in 1..n : \E k \in 1..n : f[k] = x
    BY <2>2 DEF Reorders
  <2>7. \A k \in 1..n : v[k] \in Int /\ w[k] = v[f[k]] /\ w[k] \in Int
    BY <2>2, <2>6
  <2>8. PICK m \in 1..n : f[m] = n
    BY <2>5, <2>6
  <2> DEFINE g == [k \in 1..a |-> IF k = m THEN f[n] ELSE f[k]]
             y == [k \in 1..a |-> v[g[k]]]
             s1 == [k \in 0..a |-> s[k]]
             t1 == [k \in 0..a |-> t[k]]
  <2>9. s[n] = s[a] + v[n] /\ t[n] = t[a] + w[n] /\ w[n] = v[f[n]] /\ w[m] = v[n]
        /\ s[a] \in Int /\ t[a] \in Int /\ v[n] \in Int /\ w[n] \in Int
    <3>1. a \in 0..n
      BY <2>5
    <3> QED BY <2>3, <2>5, <2>7, <2>8, <3>1
  <2>10. RunSum(s1, v, a) /\ RunSum(t1, w, a) /\ s1[a] = s[a] /\ t1[a] = t[a]
    <3>1. a \in 0..a /\ 0 \in 0..a /\ \A k \in 1..a : k \in 0..a /\ k - 1 \in 0..a
      BY <2>5
    <3>2. s1 \in [0..a -> Int] /\ t1 \in [0..a -> Int]
      BY <2>3, <2>5
    <3>3. \A k \in 1..a : s1[k] = s1[k - 1] + v[k] /\ t1[k] = t1[k - 1] + w[k]
      <4> HIDE DEF a
      <4> QED BY <2>3, <2>5, <3>1
    <3>4. s1[0] = 0 /\ t1[0] = 0 /\ s1[a] = s[a] /\ t1[a] = t[a]
      <4> HIDE DEF a
      <4> QED BY <2>3, <3>1
    <3> HIDE DEF s1, t1, a
    <3> QED BY <3>2, <3>3, <3>4 DEF RunSum
  <2> HIDE DEF a, s1, t1
  <2>11. \A k \in 1..a : /\ k # m => g[k] = f[k]
                         /\ k = m => g[k] = f[n]
    OBVIOUS
  <2>12. \A k \in 1..a : y[k] = v[g[k]]
    OBVIOUS
  <2> HIDE DEF g, y
  <2>13. \A k \in 1..a : g[k] \in 1..a
    <3> SUFFICES ASSUME NEW k \in 1..a
                 PROVE  g[k] \in 1..a
      OBVIOUS
    <3>1. k \in 1..n /\ k # n
      BY <2>5
    <3>2. CASE k = m
      <4>1. f[n] \in 1..n /\ f[n] # n
        BY <2>5, <2>6, <2>8, <3>1, <3>2
      <4> QED BY <2>5, <2>11, <3>2, <4>1
    <3>3. CASE k # m
      <4>1. f[k] \in 1..n /\ f[k] # n
        BY <2>6, <2>8, <3>1, <3>3
      <4> QED BY <2>5, <2>11, <3>3, <4>1
    <3> QED BY <3>2, <3>3
  <2>14. Reorders(g, a)
    <3>1. ASSUME NEW j \in 1..a, NEW k \in 1..a, g[j] = g[k]
          PROVE  j = k
      <4>1. j \in 1..n /\ k \in 1..n /\ j # n /\ k # n
        BY <2>5
      <4>2. CASE j = m \/ k = m
        BY <2>5, <2>6, <2>11, <3>1, <4>1, <4>2
      <4>3. CASE j # m /\ k # m
        BY <2>6, <2>11, <3>1, <4>1, <4>3
      <4> QED BY <4>2, <4>3
    <3>2. ASSUME NEW x \in 1..a
          PROVE  \E k \in 1..a : g[k] = x
      <4>1. x \in 1..n /\ x # n
        BY <2>5
      <4>2. PICK k \in 1..n : f[k] = x
        BY <2>6, <4>1
      <4>3. k # m
        BY <2>8, <4>1, <4>2
      <4>4. CASE k = n
        <5>1. m \in 1..a /\ g[m] = x
          BY <2>5, <2>11, <4>2, <4>3, <4>4
        <5> QED BY <5>1
      <4>5. CASE k # n
        <5>1. k \in 1..a /\ g[k] = x
          BY <2>5, <2>11, <4>2, <4>3, <4>5
        <5> QED BY <5>1
      <4> QED BY <4>4, <4>5
    <3> QED BY <2>13, <3>1, <3>2 DEF Reorders
  <2>15. \A k \in 1..a : v[k] \in Int /\ y[k] = v[g[k]] /\ y[k] \in Int /\ w[k] \in Int
    BY <2>5, <2>7, <2>12, <2>13
  <2>16. PICK z : RunSum(z, y, a)
    BY <2>5, <2>15, SumIs
  <2>17. s1[a] = z[a]
    BY <2>5, <2>10, <2>14, <2>15, <2>16 DEF SameSum
  <2>18. CASE m = n
    <3>1. \A k \in 1..a : y[k] = w[k]
      BY <2>5, <2>7, <2>11, <2>12, <2>18
    <3>2. RunSum(t1, y, a)
      BY <2>10, <3>1 DEF RunSum
    <3>3. z[a] <= t1[a] /\ t1[a] <= z[a]
      <4>1. \A k \in 1..a : y[k] \in Int /\ y[k] <= y[k]
        BY <2>15
      <4> QED BY <2>5, <2>16, <3>2, <4>1, SumMonotone
    <3>4. z[a] = t1[a]
      BY <2>9, <2>10, <2>17, <3>3
    <3>5. t[n] = s[n]
      BY <2>8, <2>9, <2>10, <2>17, <2>18, <3>4
    <3> QED BY <2>2, <3>5
  <2>19. CASE m # n
    <3>1. m \in 1..a
      BY <2>5, <2>19
    <3>2. \A k \in 1..a : k # m => y[k] = w[k]
      BY <2>5, <2>7, <2>11, <2>12
    <3>3. z[a] = t1[a] + (y[m] - w[m])
      BY <2>5, <2>10, <2>15, <2>16, <3>1, <3>2, SumChange
    <3>4. y[m] = w[n] /\ w[m] = v[n]
      BY <2>9, <2>11, <2>12, <3>1
    <3>5. t[n] = s[n]
      BY <2>9, <2>10, <2>17, <3>3, <3>4
    <3> QED BY <2>2, <3>5
  <2> QED BY <2>18, <2>19
<1> QED BY <1>1

-----------------------------------------------------------------------------
\* The assignment: the optimum

LEMMA MatrixSquare ==
    ASSUME NEW m \in Matrices
    PROVE  Len(m) \in Nat /\ m \in Square(Len(m)) /\ DOMAIN m = 1..Len(m)
<1>1. m \in Seq(Seq(Int)) /\ \A i \in DOMAIN m : Len(m[i]) = Len(m)
  BY MatricesAssumption
<1>2. Len(m) \in Nat /\ DOMAIN m = 1..Len(m) /\ m \in [1..Len(m) -> Seq(Int)]
  BY <1>1
<1>3. \A i \in 1..Len(m) : m[i] \in [1..Len(m) -> Int]
  <2> SUFFICES ASSUME NEW i \in 1..Len(m)
               PROVE  m[i] \in [1..Len(m) -> Int]
    OBVIOUS
  <2>1. m[i] \in Seq(Int) /\ Len(m[i]) = Len(m)
    BY <1>1, <1>2
  <2>2. \A x \in Seq(Int) : x \in [1..Len(x) -> Int]
    OBVIOUS
  <2> QED BY <2>1, <2>2
<1> QED BY <1>2, <1>3 DEF Square

LEMMA BijectionReorders ==
    ASSUME NEW n \in Nat, NEW f \in Bijection(1..n, 1..n)
    PROVE  Reorders(f, n)
BY DEF Bijection, Injection, IsInjective, Surjection, Reorders

\* The column of each row is one of its own, at which its potentials meet the cost.
Meets(cost, n, s, out) ==
    /\ out \in Bijection(1..n, 1..n)
    /\ \A i \in 1..n : cost[i][out[i]] = s.u[i] + s.v[out[i]]

LEMMA ColumnsOfRows ==
    ASSUME NEW n \in Nat, NEW cost \in Square(n), NEW s, RowDone(cost, n, s, n)
    PROVE  Meets(cost, n, s, [i \in 1..n |-> CHOOSE j \in 1..n : s.p[j] = i])
<1> DEFINE out == [i \in 1..n |-> CHOOSE j \in 1..n : s.p[j] = i]
<1>1. s \in State(n) /\ Matching(n, s.p, n) /\ Tight(cost, n, s)
  BY DEF RowDone
<1>2. \A i \in 1..n : out[i] \in 1..n /\ s.p[out[i]] = i
  <2> SUFFICES ASSUME NEW i \in 1..n
               PROVE  out[i] \in 1..n /\ s.p[out[i]] = i
    OBVIOUS
  <2>1. \E j \in 1..n : s.p[j] = i
    BY <1>1 DEF Matching
  <2> QED BY <2>1
<1>a. DOMAIN out = 1..n
  OBVIOUS
<1> HIDE DEF out
<1>3. out \in [1..n -> 1..n]
  <2>1. out = [i \in 1..n |-> out[i]]
    BY DEF out
  <2> QED BY <1>2, <2>1
<1>4. out \in Injection(1..n, 1..n) /\ out \in Surjection(1..n, 1..n)
  <2>1. out \in Injection(1..n, 1..n)
    <3>1. \A x, y \in 1..n : out[x] = out[y] => x = y
      BY <1>2
    <3> QED BY <1>a, <1>3, <3>1 DEF Injection, IsInjective
  <2>2. IsFiniteSet(1..n)
    BY FS_Interval
  <2> QED BY <2>1, <2>2, FS_Injection
<1>5. out \in Bijection(1..n, 1..n)
  BY <1>4 DEF Bijection
<1>6. ASSUME NEW i \in 1..n
      PROVE  cost[i][out[i]] = s.u[i] + s.v[out[i]]
  <2> DEFINE j == out[i]
  <2>1. j \in 1..n /\ s.p[j] = i /\ s.p[j] # 0
    BY <1>2
  <2>2. Reduced(cost, s, i, j) = 0
    BY <1>1, <2>1 DEF Tight
  <2>3. cost[i][j] \in Int /\ s.u[i] \in Int /\ s.v[j] \in Int
    <3> HIDE DEF j
    <3> QED BY <1>1, <2>1, StateFields DEF Square
  <2> HIDE DEF j
  <2>4. cost[i][j] = s.u[i] + s.v[j]
    BY <2>2, <2>3 DEF Reduced
  <2> QED BY <2>4 DEF j
<1> QED BY <1>5, <1>6 DEF Meets, out

\* w has the potentials of the rows and of their columns f.
Potentials(n, u, v, f, w) ==
    /\ Reorders(f, n)
    /\ \A k \in 1..n : u[k] \in Int /\ v[k] \in Int /\ w[k] = u[k] + v[f[k]]

\* What they add up to is the same for all ways to assign the columns.
LEMMA PotentialSum ==
    ASSUME NEW n \in Nat, NEW u, NEW v, NEW f, NEW w, NEW a, NEW b, NEW t,
           Potentials(n, u, v, f, w), RunSum(a, u, n), RunSum(b, v, n), RunSum(t, w, n)
    PROVE  t[n] = a[n] + b[n]
<1> DEFINE x == [k \in 1..n |-> v[f[k]]]
<1>1. \A k \in 1..n : x[k] = v[f[k]] /\ x[k] \in Int /\ w[k] = u[k] + x[k]
  BY DEF Reorders, Potentials
<1> HIDE DEF x
<1>2. PICK c : RunSum(c, x, n)
  BY <1>1, SumIs
<1>3. c[n] = b[n]
  BY <1>1, <1>2, ReorderedSum DEF SameSum, Potentials
<1>4. t[n] = a[n] + c[n]
  <2>1. \A k \in 1..n : u[k] \in Int /\ x[k] \in Int /\ w[k] = u[k] + x[k]
    BY <1>1 DEF Potentials
  <2> QED BY <1>2, <2>1, SumAdd
<1> QED BY <1>3, <1>4

\* For any cost matrix, hungarian() gives every row a column of its own, and no other
\* way to do so costs less in total (hungarian.ts): the potentials that it keeps are a
\* lower bound of every assignment, which its own assignment meets.
THEOREM HungarianTheorem == DecisionSpec => []HungarianOptimal
<1>1. CallInv => HungarianOptimal
  <2> SUFFICES ASSUME CallInv, call.fn = "hungarian"
               PROVE  HungarianOptimal
    BY DEF HungarianOptimal
  <2> DEFINE cost == call.input
             n == Len(cost)
             s == Table(cost, n)[n]
             u == s.u
             v == s.v
             out == call.output
             pay(f) == [i \in 1..n |-> cost[i][f[i]]]
  <2>1. cost \in Matrices /\ out = hungarian(cost, n)
    BY DEF CallInv
  <2>2. n \in Nat /\ cost \in Square(n) /\ DOMAIN cost = 1..n
    BY <2>1, MatrixSquare
  <2>3. out = [i \in 1..n |-> CHOOSE j \in 1..n : s.p[j] = i]
    BY <2>1 DEF hungarian
  <2> HIDE DEF cost, n, out, s, u, v
  <2>4. RowDone(cost, n, s, n)
    BY <2>2, TableDone DEF s
  <2>5. /\ out \in Bijection(1..n, 1..n)
        /\ \A i \in 1..n : cost[i][out[i]] = u[i] + v[out[i]]
    <3>1. Meets(cost, n, s, out)
      BY <2>2, <2>3, <2>4, ColumnsOfRows
    <3> QED BY <3>1 DEF Meets, u, v
  <2>6. s \in State(n) /\ Feasible(cost, n, s, n)
    BY <2>4 DEF RowDone
  <2>7. /\ \A k \in 1..n : u[k] \in Int /\ v[k] \in Int
        /\ \A i, j \in 1..n : cost[i][j] \in Int /\ u[i] + v[j] <= cost[i][j]
    <3>1. \A k \in 1..n : u[k] \in Int /\ v[k] \in Int
      BY <2>2, <2>6, StateFields DEF u, v
    <3>2. ASSUME NEW i \in 1..n, NEW j \in 1..n
          PROVE  cost[i][j] \in Int /\ u[i] + v[j] <= cost[i][j]
      <4>1. cost[i][j] \in Int
        BY <2>2 DEF Square
      <4>2. 0 <= cost[i][j] - u[i] - v[j]
        BY <2>6 DEF Feasible, Reduced, u, v
      <4> QED BY <3>1, <4>1, <4>2
    <3> QED BY <3>1, <3>2
  <2>8. PICK a, b : RunSum(a, u, n) /\ RunSum(b, v, n)
    <3>1. \E a : RunSum(a, u, n)
      BY <2>2, <2>7, SumIs
    <3>2. \E b : RunSum(b, v, n)
      BY <2>2, <2>7, SumIs
    <3> QED BY <3>1, <3>2
  <2>9. ASSUME NEW f \in Bijection(1..n, 1..n)
        PROVE  /\ a[n] + b[n] <= Sum(pay(f), n) /\ Sum(pay(f), n) \in Int
               /\ f = out => Sum(pay(f), n) = a[n] + b[n]
    <3>1. Reorders(f, n)
      BY <2>2, BijectionReorders
    <3>2. \A k \in 1..n : f[k] \in 1..n
      BY <3>1 DEF Reorders
    <3> DEFINE w == [k \in 1..n |-> u[k] + v[f[k]]]
               x == pay(f)
    <3>3. \A k \in 1..n : w[k] = u[k] + v[f[k]] /\ x[k] = cost[k][f[k]]
      OBVIOUS
    <3> HIDE DEF w, x
    <3>4. \A k \in 1..n : w[k] \in Int /\ x[k] \in Int /\ w[k] <= x[k]
      BY <2>7, <3>2, <3>3
    <3>5. PICK t : RunSum(t, w, n)
      BY <2>2, <3>4, SumIs
    <3>6. t[n] = a[n] + b[n]
      <4>1. \A k \in 1..n : u[k] \in Int /\ v[k] \in Int /\ w[k] = u[k] + v[f[k]]
        BY <2>7, <3>3
      <4>2. Potentials(n, u, v, f, w)
        BY <3>1, <4>1 DEF Potentials
      <4> QED BY <2>2, <2>8, <3>5, <4>2, PotentialSum
    <3>7. PICK r : RunSum(r, x, n) /\ Sum(x, n) = r[n]
      BY <2>2, <3>4, SumIs
    <3>8. t[n] <= r[n] /\ r[n] \in Int
      <4>1. t[n] <= r[n]
        BY <2>2, <3>4, <3>5, <3>7, SumMonotone
      <4>2. r[n] \in Int
        BY <2>2, <3>7 DEF RunSum
      <4> QED BY <4>1, <4>2
    <3>9. ASSUME f = out
          PROVE  r[n] = a[n] + b[n]
      <4>1. \A k \in 1..n : u[k] \in Int /\ v[k] \in Int /\ x[k] = u[k] + v[f[k]]
        BY <2>5, <2>7, <3>3, <3>9
      <4>2. Potentials(n, u, v, f, x)
        BY <3>1, <4>1 DEF Potentials
      <4> QED BY <2>2, <2>8, <3>7, <4>2, PotentialSum
    <3> QED BY <3>6, <3>7, <3>8, <3>9 DEF x
  <2>10. ASSUME NEW f \in Bijection(1..n, 1..n)
         PROVE  Sum(pay(out), n) <= Sum(pay(f), n)
    <3>1. Sum(pay(out), n) = a[n] + b[n]
      BY <2>5, <2>9
    <3> QED BY <2>9, <3>1
  <2> QED BY <2>2, <2>5, <2>10 DEF HungarianOptimal, cost, n, out
<1> QED BY <1>1, CallInvHolds, PTL

-----------------------------------------------------------------------------
\* The plan of a batch run

\* What is assumed of a batch, for the positions in its lists.
LEMMA BatchIs ==
    ASSUME NEW b \in Batches
    PROVE  /\ Len(b.orders) \in Nat /\ DOMAIN b.orders = 1..Len(b.orders)
           /\ Len(b.couriers) \in Nat /\ DOMAIN b.couriers = 1..Len(b.couriers)
           /\ \A i, j \in 1..Len(b.orders) : b.orders[i].id = b.orders[j].id => i = j
           /\ \A i, j \in 1..Len(b.couriers) : b.couriers[i].id = b.couriers[j].id => i = j
           /\ \A i \in 1..Len(b.orders) : b.orders[i].km \in 0..FarthestKm
           /\ \A j \in 1..Len(b.couriers) :
                 /\ b.couriers[j].active \in Nat
                 /\ b.couriers[j].active + CourierCapacity <= 400
                 /\ \A i \in 1..Len(b.orders) : b.couriers[j].km[b.orders[i].id] \in 0..FarthestKm
<1> DEFINE orders == b.orders
           couriers == b.couriers
<1>1. /\ orders \in Seq(ToSet(orders)) /\ couriers \in Seq(ToSet(couriers))
      /\ \A i, j \in DOMAIN orders : orders[i].id = orders[j].id => i = j
      /\ \A i, j \in DOMAIN couriers : couriers[i].id = couriers[j].id => i = j
      /\ \A o \in ToSet(orders) : o.km \in 0..FarthestKm
      /\ \A c \in ToSet(couriers) :
            /\ c.active \in Nat /\ c.active + CourierCapacity <= 400
            /\ \A o \in ToSet(orders) : c.km[o.id] \in 0..FarthestKm
  BY BatchesAssumption
<1> HIDE DEF orders, couriers
<1>2. /\ Len(orders) \in Nat /\ DOMAIN orders = 1..Len(orders)
      /\ Len(couriers) \in Nat /\ DOMAIN couriers = 1..Len(couriers)
  BY <1>1
<1>3. /\ \A i \in 1..Len(orders) : orders[i] \in ToSet(orders)
      /\ \A i \in 1..Len(couriers) : couriers[i] \in ToSet(couriers)
  BY <1>2 DEF ToSet
<1>4. /\ \A i, j \in 1..Len(orders) : orders[i].id = orders[j].id => i = j
      /\ \A i, j \in 1..Len(couriers) : couriers[i].id = couriers[j].id => i = j
  BY <1>1, <1>2
<1>5. /\ \A i \in 1..Len(orders) : orders[i].km \in 0..FarthestKm
      /\ \A j \in 1..Len(couriers) :
            /\ couriers[j].active \in Nat /\ couriers[j].active + CourierCapacity <= 400
            /\ \A i \in 1..Len(orders) : couriers[j].km[orders[i].id] \in 0..FarthestKm
  BY <1>1, <1>3
<1> QED BY <1>2, <1>4, <1>5 DEF orders, couriers

\* A column is one of the slots of one courier.
LEMMA SlotOf ==
    ASSUME NEW j \in Nat, j > 0, NEW len \in Nat, j <= CourierCapacity * len
    PROVE  /\ (j - 1) \div CourierCapacity \in 0..(len - 1)
           /\ j - 1 \in (CourierCapacity * ((j - 1) \div CourierCapacity))
                        ..(CourierCapacity * ((j - 1) \div CourierCapacity) + CourierCapacity - 1)
           /\ (j - 1) % CourierCapacity \in 0..(CourierCapacity - 1)
<1> DEFINE K == CourierCapacity
           x == j - 1
           q == x \div K
<1>1. K \in Nat /\ K > 0 /\ x \in Nat
  BY CapacityAssumption
<1>a. j <= K * len /\ j = x + 1
  OBVIOUS
<1> HIDE DEF K, x
<1>2. q \in Int /\ K * q <= x /\ x < K * q + K /\ x % K \in 0..(K - 1)
  BY <1>1
<1>3. q >= 0
  BY <1>1
<1> HIDE DEF q
<1>4. ASSUME q >= len
      PROVE  FALSE
  <2>1. K * len <= K * q
    BY <1>1, <1>2, <1>4, Scaled
  <2>3. K * len \in Int /\ K * q \in Int
    BY <1>1, <1>2
  <2>2. x < K * len
    BY <1>1, <1>a, <2>3
  <2> QED BY <1>1, <1>2, <2>1, <2>2, <2>3
<1>5. q \in 0..(len - 1)
  BY <1>2, <1>3, <1>4
<1>6. K * q \in Int
  BY <1>1, <1>2
<1>7. x \in (K * q)..(K * q + K - 1)
  BY <1>1, <1>2, <1>6
<1> QED BY <1>2, <1>5, <1>7 DEF q, x, K

Quarter == DummyCost \div 4
Cheap   == 850 * 1000

LEMMA Bounds ==
    /\ Quarter \in Nat /\ FarthestKm \in Nat /\ FarthestKm <= Quarter
    /\ Cheap \in Nat
<1>1. Quarter = 250 * 1000
  BY DEF Quarter, DummyCost
<1>2. FarthestKm = 21 * 1000
  BY DEF FarthestKm
<1>3. Cheap = 850 * 1000
  BY DEF Cheap
<1> QED BY <1>1, <1>2, <1>3

LEMMA LoadBounded ==
    ASSUME NEW a \in Nat, NEW k \in Nat, a + k <= 400, NEW x \in 0..(k - 1)
    PROVE  a + x + 1 \in Nat /\ a + x + 1 <= 400
OBVIOUS

LEMMA CostIs ==
    \A x, y, z \in Nat : x <= Quarter /\ y <= FarthestKm /\ z <= 400 * 400
                            => x + y + z * 3 <= Cheap
<1>1. Quarter = 250 * 1000
  BY DEF Quarter, DummyCost
<1>2. FarthestKm = 21 * 1000
  BY DEF FarthestKm
<1>3. Cheap = 850 * 1000
  BY DEF Cheap
<1> QED BY <1>1, <1>2, <1>3

\* What a slot costs a loaded order is less than an order without a courier does, by more
\* than the threshold.
LEMMA PairCostIs ==
    ASSUME NEW b \in Batches, NEW i \in 1..Len(b.orders), NEW c \in 1..Len(b.couriers),
           NEW slot \in 0..(CourierCapacity - 1)
    PROVE  /\ pairCost(b.orders[i], b.couriers[c], slot) \in Nat
           /\ pairCost(b.orders[i], b.couriers[c], slot) <= Cheap
<1> DEFINE approach == IF b.couriers[c].online THEN b.couriers[c].km[b.orders[i].id] ELSE Quarter
           way == b.orders[i].km
           active == b.couriers[c].active
           load == active + slot + 1
           square == load * load
<1>1. approach \in Nat /\ approach <= Quarter
  <2> DEFINE km == b.couriers[c].km[b.orders[i].id]
  <2>1. km \in 0..FarthestKm
    BY BatchIs
  <2> HIDE DEF km
  <2>2. km \in Nat /\ km <= Quarter /\ Quarter \in Nat /\ Quarter <= Quarter
    BY <2>1, Bounds
  <2> QED BY <2>2 DEF km
<1>2. way \in Nat /\ way <= FarthestKm
  <2>1. way \in 0..FarthestKm
    BY BatchIs
  <2> HIDE DEF way
  <2> QED BY <2>1, Bounds
<1>3. load \in Nat /\ load <= 400
  <2>1. active \in Nat /\ active + CourierCapacity <= 400
    BY BatchIs
  <2>2. CourierCapacity \in Nat
    BY CapacityAssumption
  <2> HIDE DEF active
  <2> QED BY <2>1, <2>2, LoadBounded
<1>4. pairCost(b.orders[i], b.couriers[c], slot) = approach + way + square * 3
  BY DEF pairCost, LoadPenaltyKm, Quarter
<1> HIDE DEF approach, way, load
<1>5. square \in Nat /\ square <= 400 * 400
  <2>1. load * load <= load * 400 /\ load * load \in Nat
    BY <1>3, Scaled
  <2>2. load * 400 \in Int /\ load * 400 <= 400 * 400
    BY <1>3
  <2> HIDE DEF square
  <2>3. square <= load * 400 /\ square \in Nat
    BY <2>1 DEF square
  <2> QED BY <2>2, <2>3
<1> HIDE DEF square
<1>6. approach + way + square * 3 \in Nat
  BY <1>1, <1>2, <1>5
<1>7. approach + way + square * 3 <= Cheap
  BY <1>1, <1>2, <1>5, CostIs
<1> QED BY <1>4, <1>6, <1>7

\* The table of the costs: square, and at least as wide as there are slots.
LEMMA CostMatrixIs ==
    ASSUME NEW b \in Batches
    PROVE  /\ Len(CostMatrix(b.orders, b.couriers)) \in Nat
           /\ CostMatrix(b.orders, b.couriers) \in Square(Len(CostMatrix(b.orders, b.couriers)))
           /\ Len(b.orders) <= Len(CostMatrix(b.orders, b.couriers))
           /\ Len(b.orders) <= CourierCapacity * Len(b.couriers) =>
                 Len(CostMatrix(b.orders, b.couriers)) = CourierCapacity * Len(b.couriers)
           /\ \A i \in 1..Len(b.orders) :
                 \A j \in 1..Len(CostMatrix(b.orders, b.couriers)) :
                    j <= CourierCapacity * Len(b.couriers) =>
                       /\ CostMatrix(b.orders, b.couriers)[i][j] \in Nat
                       /\ CostMatrix(b.orders, b.couriers)[i][j] <= Cheap
<1> DEFINE slots == CourierCapacity * Len(b.couriers)
           size == IF Len(b.orders) > slots THEN Len(b.orders) ELSE slots
           matrix == CostMatrix(b.orders, b.couriers)
           entry(i, j) == IF i <= Len(b.orders) /\ j <= slots
                          THEN pairCost(b.orders[i], SlotOwner(b.couriers, j),
                                        (j - 1) % CourierCapacity)
                          ELSE DummyCost
<1>1. Len(b.orders) \in Nat /\ Len(b.couriers) \in Nat
  BY BatchIs
<1>2. slots \in Nat /\ size \in Nat /\ Len(b.orders) <= size
  <2>1. slots \in Nat
    BY <1>1, CapacityAssumption
  <2> HIDE DEF slots
  <2> QED BY <1>1, <2>1
<1>3. matrix = [i \in 1..size |-> [j \in 1..size |-> entry(i, j)]]
  BY DEF CostMatrix
<1>4. ASSUME NEW i \in 1..size, NEW j \in 1..size, i <= Len(b.orders), j <= slots
      PROVE  entry(i, j) \in Nat /\ entry(i, j) <= Cheap
  <2> DEFINE c == ((j - 1) \div CourierCapacity) + 1
             slot == (j - 1) % CourierCapacity
  <2>1. c \in 1..Len(b.couriers) /\ slot \in 0..(CourierCapacity - 1)
    <3>1. j \in Nat /\ j > 0
      BY <1>2
    <3>2. (j - 1) \div CourierCapacity \in 0..(Len(b.couriers) - 1) /\ slot \in 0..(CourierCapacity - 1)
      BY <1>1, <1>4, <3>1, SlotOf
    <3> QED BY <1>1, <3>2
  <2>2. i \in 1..Len(b.orders)
    BY <1>1, <1>2, <1>4
  <2>3. entry(i, j) = pairCost(b.orders[i], b.couriers[c], slot)
    BY <1>4 DEF SlotOwner
  <2> HIDE DEF c, slot, entry
  <2> QED BY <2>1, <2>2, <2>3, PairCostIs
<1>5. \A i, j \in 1..size : entry(i, j) \in Int
  <2> SUFFICES ASSUME NEW i \in 1..size, NEW j \in 1..size
               PROVE  entry(i, j) \in Int
    OBVIOUS
  <2>1. CASE i <= Len(b.orders) /\ j <= slots
    <3> HIDE DEF entry
    <3> QED BY <1>4, <2>1
  <2>2. CASE ~(i <= Len(b.orders) /\ j <= slots)
    <3>1. entry(i, j) = DummyCost
      BY <2>2
    <3> QED BY <3>1 DEF DummyCost
  <2> QED BY <2>1, <2>2
<1> HIDE DEF size, entry, matrix
<1>6. matrix \in Square(size)
  BY <1>3, <1>5 DEF Square
<1>7. Len(matrix) = size
  <2>1. matrix \in Seq([1..size -> Int])
    BY <1>2, <1>6 DEF Square
  <2>2. DOMAIN matrix = 1..size
    BY <1>3
  <2> QED BY <1>2, <2>1, <2>2
<1>8. \A i \in 1..Len(b.orders) : \A j \in 1..size :
          j <= slots => matrix[i][j] \in Nat /\ matrix[i][j] <= Cheap
  <2> SUFFICES ASSUME NEW i \in 1..Len(b.orders), NEW j \in 1..size, j <= slots
               PROVE  matrix[i][j] \in Nat /\ matrix[i][j] <= Cheap
    OBVIOUS
  <2>1. i \in 1..size /\ i <= Len(b.orders)
    BY <1>1, <1>2
  <2>2. matrix[i][j] = entry(i, j)
    BY <1>3, <2>1
  <2> QED BY <1>4, <2>1, <2>2
<1>9. Len(b.orders) <= slots => size = slots
  BY <1>1, <1>2 DEF size
<1> HIDE DEF slots
<1> QED BY <1>2, <1>6, <1>7, <1>8, <1>9 DEF matrix, slots

LEMMA HungarianColumns ==
    ASSUME NEW n \in Nat, NEW cost \in Square(n)
    PROVE  hungarian(cost, n) \in Bijection(1..n, 1..n)
<1> DEFINE s == Table(cost, n)[n]
<1>1. hungarian(cost, n) = [i \in 1..n |-> CHOOSE j \in 1..n : s.p[j] = i]
  BY DEF hungarian
<1>2. RowDone(cost, n, s, n)
  BY TableDone
<1> HIDE DEF s
<1>3. Meets(cost, n, s, hungarian(cost, n))
  BY <1>1, <1>2, ColumnsOfRows
<1> QED BY <1>3 DEF Meets

\* The columns of a run, and its moves.
ColumnsOf(b) ==
    hungarian(CostMatrix(b.orders, b.couriers), Len(CostMatrix(b.orders, b.couriers)))

Given(b, i) == SlotOwner(b.couriers, ColumnsOf(b)[i]).id

MoveOf(b, i) == [order |-> b.orders[i].id, from |-> b.orders[i].courier, to |-> Given(b, i)]

Moved(b) ==
    {i \in DOMAIN b.orders :
        /\ ColumnsOf(b)[i] <= CourierCapacity * Len(b.couriers)
        /\ Given(b, i) # b.orders[i].courier
        /\ Worthwhile(CostMatrix(b.orders, b.couriers)[i][ColumnsOf(b)[i]],
                      currentAssignmentCost(b.orders[i], b.couriers))}

LEMMA MovesAre ==
    ASSUME NEW b
    PROVE  Moves(b.orders, b.couriers) =
               IF b.orders = <<>> \/ b.couriers = <<>> THEN {} ELSE {MoveOf(b, i) : i \in Moved(b)}
<1> DEFINE matrix == CostMatrix(b.orders, b.couriers)
           column == hungarian(matrix, Len(matrix))
           placed == {i \in DOMAIN b.orders : column[i] <= CourierCapacity * Len(b.couriers)}
           moved == {k \in placed :
                        /\ SlotOwner(b.couriers, column[k]).id # b.orders[k].courier
                        /\ Worthwhile(matrix[k][column[k]],
                                      currentAssignmentCost(b.orders[k], b.couriers))}
<1>1. Moves(b.orders, b.couriers) =
          IF b.orders = <<>> \/ b.couriers = <<>> THEN {}
          ELSE {[order |-> b.orders[i].id, from |-> b.orders[i].courier,
                 to |-> SlotOwner(b.couriers, column[i]).id] : i \in moved}
  BY Zenon DEF Moves
<1>2. Moved(b) = moved
  BY DEF Moved, ColumnsOf, Given
<1>3. \A i : MoveOf(b, i) = [order |-> b.orders[i].id, from |-> b.orders[i].courier,
                             to |-> SlotOwner(b.couriers, column[i]).id]
  BY DEF MoveOf, ColumnsOf, Given
<1> HIDE DEF moved, column
<1> QED BY <1>1, <1>2, <1>3

LEMMA ColumnOf ==
    ASSUME NEW b \in Batches
    PROVE  /\ \A i, k \in 1..Len(b.orders) : ColumnsOf(b)[i] = ColumnsOf(b)[k] => i = k
           /\ \A i \in 1..Len(b.orders) :
                 ColumnsOf(b)[i] \in 1..Len(CostMatrix(b.orders, b.couriers))
<1> DEFINE matrix == CostMatrix(b.orders, b.couriers)
           n == Len(matrix)
<1>1. n \in Nat /\ matrix \in Square(n) /\ Len(b.orders) <= n /\ Len(b.orders) \in Nat
  BY CostMatrixIs, BatchIs
<1>2. ColumnsOf(b) = hungarian(matrix, n)
  BY DEF ColumnsOf
<1> HIDE DEF n, matrix
<1>3. ColumnsOf(b) \in Bijection(1..n, 1..n)
  BY <1>1, <1>2, HungarianColumns
<1>4. Reorders(ColumnsOf(b), n)
  BY <1>1, <1>3, BijectionReorders
<1>5. \A i \in 1..Len(b.orders) : i \in 1..n
  BY <1>1
<1> QED BY <1>4, <1>5 DEF Reorders, n, matrix

\* The slots of a courier are as many columns as the courier can carry orders.
LEMMA CapacityKept ==
    ASSUME NEW b \in Batches, NEW x \in 1..Len(b.couriers)
    PROVE  Cardinality({m \in Moves(b.orders, b.couriers) : m.to = b.couriers[x].id})
               <= CourierCapacity
<1> DEFINE K == CourierCapacity
           mine == {m \in Moves(b.orders, b.couriers) : m.to = b.couriers[x].id}
           slots == (K * (x - 1))..(K * (x - 1) + K - 1)
           pick(m) == CHOOSE i \in Moved(b) : MoveOf(b, i) = m
           slot == [m \in mine |-> ColumnsOf(b)[pick(m)] - 1]
<1>1. K \in Nat /\ K > 0 /\ x \in Nat /\ K * (x - 1) \in Int
  <2>1. K \in Nat /\ K > 0 /\ x \in Int /\ x \in Nat
    BY CapacityAssumption, BatchIs
  <2> HIDE DEF K
  <2> QED BY <2>1
<1> HIDE DEF K
<1>2. ASSUME NEW m \in mine
      PROVE  /\ pick(m) \in Moved(b) /\ MoveOf(b, pick(m)) = m
             /\ Given(b, pick(m)) = b.couriers[x].id
  <2>1. m \in Moves(b.orders, b.couriers) /\ m.to = b.couriers[x].id
    OBVIOUS
  <2>2. \E i \in Moved(b) : MoveOf(b, i) = m
    BY <2>1, MovesAre
  <2>3. pick(m) \in Moved(b) /\ MoveOf(b, pick(m)) = m
    BY <2>2
  <2> HIDE DEF pick
  <2> QED BY <2>1, <2>3 DEF MoveOf
<1>3. ASSUME NEW i \in Moved(b), Given(b, i) = b.couriers[x].id
      PROVE  ColumnsOf(b)[i] - 1 \in slots /\ i \in 1..Len(b.orders)
  <2> DEFINE j == ColumnsOf(b)[i]
             q == (j - 1) \div CourierCapacity
  <2>1. i \in 1..Len(b.orders) /\ j <= CourierCapacity * Len(b.couriers)
    BY BatchIs DEF Moved
  <2>2. j \in Nat /\ j > 0
    BY <2>1, ColumnOf, CostMatrixIs
  <2> HIDE DEF j
  <2>3. /\ q \in 0..(Len(b.couriers) - 1)
        /\ j - 1 \in (CourierCapacity * q)..(CourierCapacity * q + CourierCapacity - 1)
    BY <2>1, <2>2, SlotOf, BatchIs
  <2>4. b.couriers[q + 1].id = b.couriers[x].id
    BY <1>3 DEF Given, SlotOwner, j
  <2> HIDE DEF q
  <2>5. q + 1 \in 1..Len(b.couriers) /\ q \in Int
    BY <2>3, BatchIs
  <2>6. q + 1 = x
    BY <2>4, <2>5, BatchIs
  <2>7. q = x - 1
    BY <2>5, <2>6
  <2> QED BY <2>1, <2>3, <2>7 DEF j, K
<1>4. slot \in Injection(mine, slots)
  <2>1. slot \in [mine -> slots]
    BY <1>2, <1>3
  <2>2. ASSUME NEW m \in mine, NEW r \in mine, slot[m] = slot[r]
        PROVE  m = r
    <3> DEFINE i == pick(m)
               k == pick(r)
    <3>1. /\ i \in 1..Len(b.orders) /\ k \in 1..Len(b.orders)
          /\ MoveOf(b, i) = m /\ MoveOf(b, k) = r
      <4> HIDE DEF pick, mine, slots
      <4> QED BY <1>2, <1>3
    <3>2. ColumnsOf(b)[i] - 1 = ColumnsOf(b)[k] - 1
      BY <2>2
    <3> HIDE DEF i, k
    <3>3. ColumnsOf(b)[i] \in Int /\ ColumnsOf(b)[k] \in Int
      BY <3>1, ColumnOf, CostMatrixIs
    <3>4. ColumnsOf(b)[i] = ColumnsOf(b)[k]
      BY <3>2, <3>3
    <3> QED BY <3>1, <3>4, ColumnOf
  <2>3. DOMAIN slot = mine
    OBVIOUS
  <2> HIDE DEF slot, mine, slots
  <2> QED BY <2>1, <2>2, <2>3 DEF Injection, IsInjective
<1>5. IsFiniteSet(slots) /\ Cardinality(slots) = K
  <2> DEFINE a == K * (x - 1)
             z == a + K - 1
  <2>1. a \in Int /\ z \in Int
    BY <1>1
  <2>2. IsFiniteSet(a..z) /\ Cardinality(a..z) = (IF a > z THEN 0 ELSE z - a + 1)
    <3> HIDE DEF a, z
    <3> QED BY <2>1, FS_Interval
  <2> HIDE DEF a
  <2>3. Cardinality(a..z) = K
    BY <1>1, <2>1, <2>2
  <2> QED BY <2>2, <2>3 DEF a
<1> HIDE DEF slot, mine, slots
<1>6. Cardinality(mine) <= K
  BY <1>4, <1>5, FS_Injection
<1> QED BY <1>6 DEF mine, K

LEMMA ListCardinality ==
    ASSUME NEW s, NEW n \in Nat, DOMAIN s = 1..n, \A i, j \in 1..n : s[i] = s[j] => i = j
    PROVE  Cardinality(ToSet(s)) = n
<1> DEFINE f == [i \in 1..n |-> s[i]]
<1>1. f \in Bijection(1..n, ToSet(s))
  <2>1. f \in [1..n -> ToSet(s)] /\ DOMAIN f = 1..n
    BY DEF ToSet
  <2>2. \A x \in ToSet(s) : \E i \in 1..n : f[i] = x
    BY DEF ToSet
  <2>3. \A i, j \in 1..n : f[i] = f[j] => i = j
    OBVIOUS
  <2> HIDE DEF f
  <2> QED BY <2>1, <2>2, <2>3 DEF Bijection, Injection, IsInjective, Surjection
<1>2. IsFiniteSet(1..n) /\ Cardinality(1..n) = n
  <2>1. IsFiniteSet(1..n) /\ Cardinality(1..n) = (IF 1 > n THEN 0 ELSE n - 1 + 1)
    BY FS_Interval
  <2> QED BY <2>1
<1>3. ExistsBijection(1..n, ToSet(s))
  BY <1>1 DEF ExistsBijection
<1> QED BY <1>2, <1>3, FS_Bijection

\* An order without a loaded courier is worth any slot.
LEMMA OrdersPlaced ==
    ASSUME NEW b \in Batches, Len(b.orders) <= CourierCapacity * Len(b.couriers),
           NEW i \in 1..Len(b.orders),
           \A j \in 1..Len(b.couriers) : b.couriers[j].id # b.orders[i].courier
    PROVE  MoveOf(b, i) \in Moves(b.orders, b.couriers)
<1> DEFINE matrix == CostMatrix(b.orders, b.couriers)
           n == Len(matrix)
           j == ColumnsOf(b)[i]
           slots == CourierCapacity * Len(b.couriers)
           paid == matrix[i][j]
<1>1. n = slots /\ n \in Nat
  BY CostMatrixIs
<1>2. j \in 1..n
  BY ColumnOf
<1>3. j \in Nat /\ j > 0 /\ j <= slots
  BY <1>1, <1>2
<1>4. (j - 1) \div CourierCapacity \in 0..(Len(b.couriers) - 1)
  <2> HIDE DEF j
  <2> QED BY <1>3, SlotOf, BatchIs
<1>5. ((j - 1) \div CourierCapacity) + 1 \in 1..Len(b.couriers)
  <2> DEFINE q == (j - 1) \div CourierCapacity
  <2>1. q \in 0..(Len(b.couriers) - 1)
    BY <1>4
  <2> HIDE DEF q, j
  <2>2. q + 1 \in 1..Len(b.couriers)
    BY <2>1, BatchIs
  <2> QED BY <2>2 DEF q
<1>6. Given(b, i) # b.orders[i].courier
  BY <1>5 DEF Given, SlotOwner
<1>7. currentAssignmentCost(b.orders[i], b.couriers) = DummyCost
  BY BatchIs DEF currentAssignmentCost
<1>8. paid \in Nat /\ paid <= Cheap
  <2> HIDE DEF j, n
  <2>1. j \in 1..Len(CostMatrix(b.orders, b.couriers)) /\ j <= CourierCapacity * Len(b.couriers)
    BY <1>2, <1>3 DEF n
  <2> QED BY <2>1, CostMatrixIs
<1>9. Worthwhile(paid, DummyCost)
  <2> HIDE DEF paid
  <2> QED BY <1>8 DEF Worthwhile, DummyCost, Cheap
<1>10. i \in Moved(b)
  BY <1>3, <1>6, <1>7, <1>9, BatchIs DEF Moved
<1>11. b.orders # <<>> /\ b.couriers # <<>>
  <2>1. Len(b.orders) # 0
    BY BatchIs
  <2>2. Len(b.couriers) # 0
    BY <1>4, BatchIs
  <2> QED BY <2>1, <2>2
<1> QED BY <1>10, <1>11, MovesAre

\* For any orders and couriers that are loaded, a batch run moves no more orders to a
\* courier than the courier has slots, and where there are slots for all of them every
\* order without a loaded courier goes to one (BatchAssignmentService.rebalance).
THEOREM PlanTheorem == DecisionSpec => []PlanPlacesOrders
<1>1. CallInv => PlanPlacesOrders
  <2> SUFFICES ASSUME CallInv, call.fn = "rebalance"
               PROVE  PlanPlacesOrders
    BY DEF PlanPlacesOrders
  <2>1. PICK b \in Batches :
            call.input = b /\ call.output = Moves(b.orders, b.couriers)
    BY DEF CallInv
  <2>2. ASSUME NEW c \in ToSet(b.couriers)
        PROVE  Cardinality({m \in Moves(b.orders, b.couriers) : m.to = c.id}) <= CourierCapacity
    <3>1. PICK x \in 1..Len(b.couriers) : b.couriers[x] = c
      BY BatchIs DEF ToSet
    <3> QED BY <3>1, CapacityKept
  <2>3. /\ Cardinality(ToSet(b.orders)) = Len(b.orders)
        /\ Cardinality(ToSet(b.couriers)) = Len(b.couriers)
    <3>1. \A i, j \in 1..Len(b.orders) : b.orders[i] = b.orders[j] => i = j
      BY BatchIs
    <3>2. \A i, j \in 1..Len(b.couriers) : b.couriers[i] = b.couriers[j] => i = j
      BY BatchIs
    <3> QED BY <3>1, <3>2, BatchIs, ListCardinality
  <2>4. ASSUME Len(b.orders) <= CourierCapacity * Len(b.couriers), NEW o \in ToSet(b.orders),
               \A c \in ToSet(b.couriers) : c.id # o.courier
        PROVE  \E m \in Moves(b.orders, b.couriers) : m.order = o.id
    <3>1. PICK i \in 1..Len(b.orders) : b.orders[i] = o
      BY BatchIs DEF ToSet
    <3>2. \A j \in 1..Len(b.couriers) : b.couriers[j].id # b.orders[i].courier
      BY <2>4, <3>1, BatchIs DEF ToSet
    <3>3. MoveOf(b, i) \in Moves(b.orders, b.couriers)
      BY <2>4, <3>2, OrdersPlaced
    <3>4. MoveOf(b, i).order = o.id
      BY <3>1 DEF MoveOf
    <3> QED BY <3>3, <3>4
  <2> QED BY <2>1, <2>2, <2>3, <2>4 DEF PlanPlacesOrders
<1> QED BY <1>1, CallInvHolds, PTL

=============================================================================
