------------------------------ MODULE Pricing ------------------------------
(***************************************************************************)
(* The delivery fee: PricingService.quote() and PRICING_CONFIG in           *)
(* src/backend/src/modules/pricing/.  Distances are in hundredths of a      *)
(* kilometre, to which the code rounds them; multipliers are in hundredths, *)
(* and amounts before the last rounding in ten thousandths.  Math.round is  *)
(* the floor of the number and a half.  An item that is not shown, and a    *)
(* tier that is not reached, is an amount of zero.                          *)
(***************************************************************************)
EXTENDS Shifts

Base   == 40
MinFee == 40
MaxFee == 5000

\* distanceTiers: from where to where, and per kilometre.
Far   == 10000000
Tiers == << [from |-> 0,     upTo |-> 300,   perKm |-> 15],
            [from |-> 300,   upTo |-> 1000,  perKm |-> 10],
            [from |-> 1000,  upTo |-> 3000,  perKm |-> 7],
            [from |-> 3000,  upTo |-> 10000, perKm |-> 5],
            [from |-> 10000, upTo |-> Far,   perKm |-> 3] >>

\* rushHours, in tenths as they are written
Rush(hour) ==
    CASE hour \in 8..9   -> 12
      [] hour \in 12..13 -> 13
      [] hour \in 18..19 -> 14
      [] OTHER           -> 10

Round(x, unit) == (2 * x + unit) \div (2 * unit)

AtMost(a, b)  == IF a < b THEN a ELSE b
AtLeast(a, b) == IF a > b THEN a ELSE b

\* The fee of the stretch in a tier, rounded tier by tier.
TierFee(distance, t) ==
    IF distance > t.from THEN Round((AtMost(distance, t.upTo) - t.from) * t.perKm, 100) ELSE 0

calculateTieredDistanceFee(distance) == [i \in DOMAIN Tiers |-> TierFee(distance, Tiers[i])]

Total(fees) == fees[1] + fees[2] + fees[3] + fees[4] + fees[5]

\* Mutant: without couriers the ratio counts as zero.
LoadUnlessEmpty(active, available) ==
    IF available = 0 THEN 100
    ELSE AtMost(100 + Round(20 * AtLeast(0, active - available), available), 150)

\* The load multiplier, in hundredths.
getLoadMultiplier(active, available) ==
    IF available = 0 THEN 150
    ELSE AtMost(100 + Round(20 * AtLeast(0, active - available), available), 150)

clamp(v) == AtLeast(MinFee, AtMost(MaxFee, v))

\* Mutant: the rush item is cut off rather than rounded.
RushItemCut(afterRush, subtotal) == (afterRush - 10 * subtotal) \div 10

RushItem(afterRush, subtotal) == Round(afterRush - 10 * subtotal, 10)

\* The fee at a time [day, hour], with this many active orders and these
\* couriers, rows and their slots, which are in hours here.
quote(distance, at, active, couriers, rows) ==
    LET available == Cardinality(filterOnShiftCouriers(couriers, rows, at.day, at.hour))
        tiers     == calculateTieredDistanceFee(distance)
        subtotal  == Base + Total(tiers)
        afterRush == subtotal * Rush(at.hour)
        load      == getLoadMultiplier(active, available)
        uncapped  == Round(afterRush * load, 1000)
    IN  [finalFee |-> clamp(uncapped), subtotal |-> subtotal, load |-> load,
         items |-> [base  |-> Base,
                    tiers |-> tiers,
                    rush  |-> IF Rush(at.hour) = 10 THEN 0 ELSE RushItem(afterRush, subtotal),
                    surge |-> IF load = 100 THEN 0 ELSE Round(10 * uncapped - afterRush, 10),
                    cap   |-> clamp(uncapped) - uncapped]]

=============================================================================
