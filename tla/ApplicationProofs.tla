------------------------- MODULE ApplicationProofs -------------------------
(***************************************************************************)
(* The rest of the parts of the application, and the application that is    *)
(* made of all of them: the slots of a courier stay apart, on the calendar  *)
(* and as stored; what is given out as a distance or a road network was     *)
(* answered by a server; a cart is ordered once and to its address.  All    *)
(* this for every number of slots, saves, calls, places and orders.         *)
(*                                                                         *)
(* CalendarStaysApart speaks of the slots.  The invariant adds that a drag  *)
(* began in a place that is still free of the other slots.                  *)
(*                                                                         *)
(* SourcesHonest speaks of calls that are done.  The invariant says what a  *)
(* call holds at each of its steps, and what Redis may hold.                *)
(*                                                                         *)
(* CartOrderedOnce speaks of what is stored.  The invariant says that of a  *)
(* cart that is not doubtful one order at most is on its way, that the page *)
(* waits for it, and that the cart has not changed since.                   *)
(***************************************************************************)
EXTENDS Application, BrowserProofs, ProductsProofs

-----------------------------------------------------------------------------
\* Whole numbers

\* A set of natural numbers has a least one.  What needs an induction takes the
\* least number for which it is false.
LEMMA LeastNumber ==
    ASSUME NEW T, T \subseteq Nat, T # {}
    PROVE  \E n \in T : \A m \in T : n <= m
<1>1. PICK n \in T : \A m \in T : ~(<<m, n>> \in OpToRel(<, Nat))
  BY NatLessThanWellFounded, WFMin
<1>2. \A m \in T : ~(m < n)
  BY <1>1 DEF OpToRel
<1> QED BY <1>2

\* Between two bounds, a set has a least and a greatest number.
LEMMA MinMax ==
    ASSUME NEW low \in Int, NEW high \in Int, NEW S, S \subseteq low..high, S # {}
    PROVE  /\ Min(S) \in S /\ \A x \in S : Min(S) <= x
           /\ Max(S) \in S /\ \A x \in S : x <= Max(S)
<1>1. \E x \in S : \A y \in S : x <= y
  <2> DEFINE T == {n \in Nat : low + n \in S}
  <2>1. T # {} /\ T \subseteq Nat
    <3>1. PICK x \in S : x \in low..high
      OBVIOUS
    <3>2. x - low \in Nat /\ low + (x - low) = x
      BY <3>1
    <3>3. x - low \in T
      BY <3>2
    <3> QED BY <3>3
  <2>2. PICK n \in T : \A m \in T : n <= m
    <3> HIDE DEF T
    <3> QED BY <2>1, LeastNumber
  <2>3. \A y \in S : y - low \in T /\ low + (y - low) = y
    <3>1. \A y \in S : y \in low..high
      OBVIOUS
    <3>2. \A y \in S : y - low \in Nat /\ low + (y - low) = y
      BY <3>1
    <3> QED BY <3>2
  <2>4. \A y \in S : low + n <= y
    <3>1. \A y \in S : n <= y - low /\ y \in low..high
      BY <2>2, <2>3
    <3> QED BY <2>2, <3>1
  <2> QED BY <2>2, <2>4
<1>2. \E x \in S : \A y \in S : y <= x
  <2> DEFINE T == {n \in Nat : high - n \in S}
  <2>1. T # {} /\ T \subseteq Nat
    <3>1. PICK x \in S : x \in low..high
      OBVIOUS
    <3>2. high - x \in Nat /\ high - (high - x) = x
      BY <3>1
    <3>3. high - x \in T
      BY <3>2
    <3> QED BY <3>3
  <2>2. PICK n \in T : \A m \in T : n <= m
    <3> HIDE DEF T
    <3> QED BY <2>1, LeastNumber
  <2>3. \A y \in S : high - y \in T /\ high - (high - y) = y
    <3>1. \A y \in S : y \in low..high
      OBVIOUS
    <3>2. \A y \in S : high - y \in Nat /\ high - (high - y) = y
      BY <3>1
    <3> QED BY <3>2
  <2>4. \A y \in S : y <= high - n
    <3>1. \A y \in S : n <= high - y /\ y \in low..high
      BY <2>2, <2>3
    <3> QED BY <2>2, <3>1
  <2> QED BY <2>2, <2>4
<1>3. \A x, y \in S : x >= y <=> y <= x
  OBVIOUS
<1>4. Min(S) \in S /\ \A x \in S : Min(S) <= x
  BY <1>1 DEF Min
<1>5. Max(S) \in S /\ \A x \in S : Max(S) >= x
  BY <1>2, <1>3 DEF Max
<1> QED BY <1>3, <1>4, <1>5

-----------------------------------------------------------------------------
\* Shifts

\* The slots of a week, within a day of high minutes or quarters.
Times(week, high) ==
    \A i \in DOMAIN week : week[i].start \in 0..high /\ week[i].end \in 0..high

\* Of some slots of one day, one is the first and one the last in order.
LEMMA FirstAndLast ==
    ASSUME NEW high \in Nat, NEW week, Times(week, high), DOMAIN week = 1..Len(week),
           Len(week) \in Nat, NEW T, T \subseteq DOMAIN week, T # {}
    PROVE  /\ \E k \in T : \A l \in T : ~Before(week, l, k)
           /\ \E k \in T : \A l \in T : ~Before(week, k, l)
<1> DEFINE S == {week[k].start : k \in T}
<1>1. S \subseteq 0..high /\ S # {}
  BY DEF Times
<1>2. /\ \E x \in S : \A y \in S : x <= y
      /\ \E x \in S : \A y \in S : y <= x
  <2> HIDE DEF S
  <2>1. 0 \in Int /\ high \in Int
    OBVIOUS
  <2> QED BY <1>1, <2>1, MinMax
<1>3. \A k \in T : week[k].start \in Int /\ k \in Int
  BY DEF Times
<1>4. \E k \in T : \A l \in T : ~Before(week, l, k)
  <2>1. PICK k0 \in T : \A l \in T : week[k0].start <= week[l].start
    BY <1>2
  <2> DEFINE T2 == {k \in T : week[k].start = week[k0].start}
  <2>2. T2 \subseteq 1..Len(week) /\ T2 # {}
    OBVIOUS
  <2>3. PICK k \in T2 : \A l \in T2 : k <= l
    <3> HIDE DEF T2
    <3>1. 1 \in Int /\ Len(week) \in Int
      OBVIOUS
    <3> QED BY <2>2, <3>1, MinMax
  <2>4. \A l \in T : ~Before(week, l, k)
    BY <1>3, <2>1, <2>3 DEF Before
  <2> QED BY <2>3, <2>4
<1>5. \E k \in T : \A l \in T : ~Before(week, k, l)
  <2>1. PICK k0 \in T : \A l \in T : week[l].start <= week[k0].start
    BY <1>2
  <2> DEFINE T2 == {k \in T : week[k].start = week[k0].start}
  <2>2. T2 \subseteq 1..Len(week) /\ T2 # {}
    OBVIOUS
  <2>3. PICK k \in T2 : \A l \in T2 : l <= k
    <3> HIDE DEF T2
    <3>1. 1 \in Int /\ Len(week) \in Int
      OBVIOUS
    <3> QED BY <2>2, <3>1, MinMax
  <2>4. \A l \in T : ~Before(week, k, l)
    BY <1>3, <2>1, <2>3 DEF Before
  <2> QED BY <2>3, <2>4
<1> QED BY <1>4, <1>5

\* validateSlots compares neighbours only, and that is enough: of the slots that
\* begin before slot i has ended, the first would be its neighbour.
LEMMA NeighboursApart ==
    ASSUME NEW high \in Nat, NEW week, Times(week, high), DOMAIN week = 1..Len(week),
           Len(week) \in Nat, NoOverlap(week)
    PROVE  \A i, j \in DOMAIN week : i # j => Apart(week[i], week[j])
<1>1. \A i \in DOMAIN week : i \in Int /\ week[i].start \in Int /\ week[i].end \in Int
  BY DEF Times
<1>2. ASSUME NEW i \in DOMAIN week, NEW j \in DOMAIN week, Before(week, i, j)
      PROVE  week[i].end <= week[j].start
  <2> DEFINE Early == {k \in DOMAIN week : Before(week, i, k) /\ week[k].start < week[i].end}
  <2>1. SUFFICES ASSUME Early # {} PROVE FALSE
    BY <1>1, <1>2
  <2>2. PICK k \in Early : \A l \in Early : ~Before(week, l, k)
    <3>1. Early \subseteq DOMAIN week
      OBVIOUS
    <3> HIDE DEF Early
    <3> QED BY <2>1, <3>1, FirstAndLast
  <2>3. NextTo(week, i, k)
    <3>1. SUFFICES ASSUME NEW l \in DOMAIN week, Before(week, i, l), Before(week, l, k)
                   PROVE  FALSE
      BY <2>2 DEF NextTo
    <3>2. week[l].start <= week[k].start
      BY <1>1, <3>1 DEF Before
    <3>3. l \in Early
      BY <1>1, <2>2, <3>1, <3>2
    <3> QED BY <2>2, <3>1, <3>3
  <2> QED BY <1>1, <2>2, <2>3 DEF NoOverlap
<1>3. ASSUME NEW i \in DOMAIN week, NEW j \in DOMAIN week, i # j
      PROVE  week[i].day # week[j].day \/ Before(week, i, j) \/ Before(week, j, i)
  BY <1>1, <1>3 DEF Before
<1> QED BY <1>2, <1>3 DEF Apart

LEMMA ApartNeighbours ==
    ASSUME NEW week, DOMAIN week \subseteq Int,
           \A i \in DOMAIN week : /\ week[i].start \in Int /\ week[i].end \in Int
                                  /\ week[i].start < week[i].end,
           \A i, j \in DOMAIN week : i # j => Apart(week[i], week[j])
    PROVE  NoOverlap(week)
<1>1. SUFFICES ASSUME NEW i \in DOMAIN week, NEW j \in DOMAIN week, Before(week, i, j)
               PROVE  week[j].start >= week[i].end
  BY DEF NoOverlap, NextTo
<1>2. i # j
  BY <1>1 DEF Before
<1> QED BY <1>1, <1>2 DEF Before, Apart

-----------------------------------------------------------------------------
\* ShiftRows

\* What a save has to insert was accepted, and what is stored was inserted by one
\* save, unless two have crossed.
RowsApart ==
    /\ save = [d \in Devices |-> save[d]]
    /\ \A d \in Devices : save[d].pc = "insert" =>
          save[d].slots \in Payloads /\ validateSlots(save[d].slots)
    /\ StoredApart

LEMMA AcceptedApart ==
    ASSUME NEW week \in Payloads, validateSlots(week)
    PROVE  \A s, t \in ToSet(week) : s = t \/ Apart(s, t)
<1>1. week \in Seq(ShiftSlotDto)
  BY PayloadsAssumption
<1>2. Len(week) \in Nat /\ DOMAIN week = 1..Len(week) /\ \A i \in DOMAIN week : week[i] \in ShiftSlotDto
  BY <1>1, LenProperties, ElementOfSeq
<1>3. Times(week, 1440)
  <2>1. \A s \in ShiftSlotDto : s.start \in 0..1440 /\ s.end \in 0..1440
    BY DEF ShiftSlotDto
  <2> QED BY <1>2, <2>1 DEF Times
<1>4. \A i, j \in DOMAIN week : i # j => Apart(week[i], week[j])
  BY <1>2, <1>3, NeighboursApart DEF validateSlots
<1> QED BY <1>4 DEF ToSet

LEMMA StepRowsApart == RowsApart /\ [ShiftNext]_shiftVars => RowsApart'
<1> SUFFICES ASSUME RowsApart, [ShiftNext]_shiftVars
             PROVE  RowsApart'
  OBVIOUS
<1>1. CASE UNCHANGED shiftVars
  BY <1>1 DEF RowsApart, StoredApart, shiftVars
<1>2. ASSUME NEW d \in Devices, NEW slots0 \in Payloads, DeleteRows(d, slots0)
      PROVE  RowsApart'
  BY <1>2 DEF RowsApart, StoredApart, DeleteRows
<1>3. ASSUME NEW d \in Devices, RollBack(d)
      PROVE  RowsApart'
  BY <1>3 DEF RowsApart, StoredApart, RollBack, NoSave
<1>4. ASSUME NEW d \in Devices, Commit(d)
      PROVE  RowsApart'
  <2> DEFINE week == save[d].slots
             inserted == {[id |-> saves + 1, slot |-> s] : s \in ToSet(week)}
  <2>1. /\ rows' = (rows \ save[d].deletes) \cup inserted
        /\ crossedSaves' = (crossedSaves \/ rows # save[d].deletes)
        /\ save' = [save EXCEPT ![d] = NoSave]
    BY <1>4 DEF Commit
  <2>2. \A s, t \in ToSet(week) : s = t \/ Apart(s, t)
    BY <1>4, AcceptedApart DEF RowsApart, Commit
  <2>3. \A r, s \in inserted : r = s \/ Apart(r.slot, s.slot)
    BY <2>2
  <2>4. StoredApart'
    <3> HIDE DEF inserted
    <3> QED BY <2>1, <2>3 DEF StoredApart
  <2> QED BY <2>1, <2>4 DEF RowsApart, NoSave
<1> QED BY <1>1, <1>2, <1>3, <1>4 DEF ShiftNext

\* StoredApart: setMyShifts looks at neighbours only, and leaves no two slots of
\* a courier that overlap, unless two saves have crossed.
THEOREM StoredApartTheorem == ShiftSpec => []StoredApart
<1>1. ShiftInit => RowsApart
  BY DEF ShiftInit, RowsApart, StoredApart, NoSave
<1>2. RowsApart => StoredApart
  BY DEF RowsApart
<1> QED BY <1>1, <1>2, StepRowsApart, PTL DEF ShiftSpec
-----------------------------------------------------------------------------
\* Schedule

CalendarOK(week) ==
    /\ week \in Seq(Slot)
    /\ \A i \in DOMAIN week : week[i].start < week[i].end
    /\ \A i, j \in DOMAIN week : i # j => Apart(week[i], week[j])

\* Slot i of the calendar is, or can become, the slot s.
Fits(i, s) == \A k \in DOMAIN slots \ {i} : Apart(slots[k], s)

LEMMA CalendarTypes ==
    ASSUME NEW week, CalendarOK(week)
    PROVE  /\ Len(week) \in Nat /\ DOMAIN week = 1..Len(week)
           /\ \A i \in DOMAIN week :
                 /\ week[i] \in Slot /\ week[i].day \in Days
                 /\ week[i].start \in 0..DayEnd /\ week[i].end \in 0..DayEnd
                 /\ week[i].start \in Int /\ week[i].end \in Int /\ week[i].start < week[i].end
           /\ DayEnd \in Nat /\ Times(week, DayEnd)
<1>1. Len(week) \in Nat /\ DOMAIN week = 1..Len(week)
      /\ \A i \in DOMAIN week : week[i] \in Slot
  BY LenProperties, ElementOfSeq DEF CalendarOK
<1>2. DayEnd \in Nat
  BY ScheduleConstants
<1>3. \A s \in Slot : /\ s.day \in Days /\ s.start \in 0..DayEnd /\ s.end \in 0..DayEnd
                      /\ s.start \in Int /\ s.end \in Int
  BY <1>2 DEF Slot
<1> QED BY <1>1, <1>2, <1>3 DEF CalendarOK, Times

\* Where findGap draws the line: a slot that ends after the anchor begins after
\* the gap, another one ends before it; only a slot at the anchor leaves no gap.
LEMMA GapCases ==
    ASSUME CalendarOK(slots), NEW day, NEW i, NEW anchor \in Int
    PROVE  LET neighbors == {k \in DOMAIN slots \ {i} : slots[k].day = day}
               gap == findGap(day, i, anchor)
           IN  \/ /\ gap = [start |-> 0, end |-> 0 - 1]
                  /\ \E k \in neighbors :
                        2 * slots[k].start <= anchor /\ anchor < 2 * slots[k].end
               \/ /\ \A k \in neighbors : \/ anchor < 2 * slots[k].end /\ gap.end <= slots[k].start
                                          \/ 2 * slots[k].end <= anchor /\ slots[k].end <= gap.start
                  /\ \/ gap.start = 0
                     \/ \E k \in neighbors : gap.start = slots[k].end /\ 2 * slots[k].end <= anchor
                  /\ \/ gap.end = DayEnd
                     \/ \E k \in neighbors : gap.end = slots[k].start /\ anchor < 2 * slots[k].end
<1> DEFINE neighbors == {k \in DOMAIN slots \ {i} : slots[k].day = day}
           ahead     == {k \in neighbors : anchor < 2 * slots[k].end}
           next      == CHOOSE k \in ahead : \A l \in ahead : ~Before(slots, l, k)
           behind    == IF ahead = {} THEN neighbors
                        ELSE {k \in neighbors : Before(slots, k, next)}
           last      == CHOOSE k \in behind : \A l \in behind : ~Before(slots, k, l)
           gap       == findGap(day, i, anchor)
<1>1. /\ Len(slots) \in Nat /\ DOMAIN slots = 1..Len(slots) /\ DayEnd \in Nat
      /\ Times(slots, DayEnd)
      /\ \A k \in neighbors : /\ k \in DOMAIN slots /\ k \in Int
                              /\ slots[k].start \in Int /\ slots[k].end \in Int
                              /\ slots[k].start < slots[k].end
  BY CalendarTypes
<1>2. \A k, l \in neighbors : k # l => \/ Before(slots, k, l) /\ slots[k].end <= slots[l].start
                                       \/ Before(slots, l, k) /\ slots[l].end <= slots[k].start
  <2>1. \A k, l \in neighbors : k # l => Apart(slots[k], slots[l]) /\ slots[k].day = slots[l].day
    BY DEF CalendarOK
  <2> HIDE DEF neighbors
  <2> QED BY <1>1, <2>1 DEF Apart, Before
<1>3. \A k, l \in neighbors : Before(slots, k, l) => slots[k].start <= slots[l].start /\ k # l
  <2> HIDE DEF neighbors
  <2> QED BY <1>1 DEF Before
<1>4. gap = IF ahead # {} /\ anchor >= 2 * slots[next].start
            THEN [start |-> 0, end |-> 0 - 1]
            ELSE [start |-> IF behind = {} THEN 0 ELSE slots[last].end,
                  end |-> IF ahead = {} THEN DayEnd ELSE slots[next].start]
  BY Zenon DEF findGap
<1>5. neighbors \subseteq DOMAIN slots /\ ahead \subseteq neighbors /\ behind \subseteq neighbors
  OBVIOUS
<1>6. ahead # {} => next \in ahead /\ \A l \in ahead : ~Before(slots, l, next)
  <2> HIDE DEF ahead
  <2>1. ahead # {} => \E k \in ahead : \A l \in ahead : ~Before(slots, l, k)
    <3>1. ahead \subseteq DOMAIN slots
      BY <1>5
    <3> QED BY <1>1, <3>1, FirstAndLast
  <2> QED BY <2>1
<1>7. behind # {} => last \in behind /\ \A l \in behind : ~Before(slots, last, l)
  <2> HIDE DEF behind
  <2>1. behind # {} => \E k \in behind : \A l \in behind : ~Before(slots, k, l)
    <3>1. behind \subseteq DOMAIN slots
      BY <1>5
    <3> QED BY <1>1, <3>1, FirstAndLast
  <2> QED BY <2>1
<1>8. \A k \in ahead : k = next \/ slots[next].end <= slots[k].start
  BY <1>2, <1>5, <1>6
<1>9. \A k \in neighbors : k \in behind <=> k \notin ahead
  <2> HIDE DEF next
  <2>1. ASSUME NEW k \in neighbors, ahead # {}, k \notin ahead
        PROVE  Before(slots, k, next)
    <3>1. k # next /\ next \in neighbors /\ anchor < 2 * slots[next].end /\ anchor >= 2 * slots[k].end
      BY <1>1, <1>6, <2>1
    <3>2. ~(slots[next].end <= slots[k].start)
      BY <1>1, <3>1
    <3> QED BY <1>2, <3>1, <3>2
  <2>2. ASSUME NEW k \in neighbors, ahead # {}, Before(slots, k, next)
        PROVE  k \notin ahead
    BY <1>6, <2>2
  <2> QED BY <2>1, <2>2
<1>10. \A k \in behind : k = last \/ slots[k].end <= slots[last].start
  <2> HIDE DEF behind, last, neighbors
  <2> QED BY <1>2, <1>5, <1>7
<1> HIDE DEF next, last, behind, gap
<1>11. CASE ahead # {} /\ anchor >= 2 * slots[next].start
  <2>1. next \in neighbors /\ 2 * slots[next].start <= anchor /\ anchor < 2 * slots[next].end
    BY <1>1, <1>6, <1>11
  <2> QED BY <1>4, <1>11, <2>1 DEF gap
<1>12. CASE ~(ahead # {} /\ anchor >= 2 * slots[next].start)
  <2>1. /\ gap.start = IF behind = {} THEN 0 ELSE slots[last].end
        /\ gap.end = IF ahead = {} THEN DayEnd ELSE slots[next].start
    BY <1>4, <1>12
  <2>2. ASSUME NEW k \in neighbors
        PROVE  \/ anchor < 2 * slots[k].end /\ gap.end <= slots[k].start
               \/ 2 * slots[k].end <= anchor /\ slots[k].end <= gap.start
    <3>1. CASE k \in ahead
      <4>1. slots[next].start <= slots[k].start
        BY <1>1, <1>6, <1>8, <3>1
      <4> QED BY <2>1, <3>1, <4>1
    <3>2. CASE k \notin ahead
      <4>1. k \in behind /\ behind # {} /\ last \in neighbors
        BY <1>5, <1>7, <1>9, <2>2, <3>2
      <4>2. slots[k].end <= slots[last].end
        BY <1>1, <1>10, <2>2, <4>1
      <4>3. 2 * slots[k].end <= anchor
        BY <1>1, <2>2, <3>2
      <4> QED BY <2>1, <4>1, <4>2, <4>3
    <3> QED BY <3>1, <3>2
  <2>3. \/ gap.start = 0
        \/ \E k \in neighbors : gap.start = slots[k].end /\ 2 * slots[k].end <= anchor
    <3>1. behind # {} => last \in neighbors /\ last \notin ahead
      BY <1>5, <1>7, <1>9
    <3>2. behind # {} => 2 * slots[last].end <= anchor
      BY <1>1, <3>1
    <3> QED BY <2>1, <3>1, <3>2
  <2>4. \/ gap.end = DayEnd
        \/ \E k \in neighbors : gap.end = slots[k].start /\ anchor < 2 * slots[k].end
    BY <1>6, <2>1
  <2> QED BY <2>2, <2>3, <2>4 DEF gap
<1> QED BY <1>11, <1>12

\* The gap lies in the day, and no other slot of the day lies in it.
LEMMA GapIsFree ==
    ASSUME CalendarOK(slots), NEW day, NEW i, NEW anchor \in Int
    PROVE  LET gap == findGap(day, i, anchor)
           IN  /\ gap.start \in Int /\ gap.end \in Int /\ 0 <= gap.start /\ gap.end <= DayEnd
               /\ \A k \in DOMAIN slots \ {i} : slots[k].day = day =>
                     slots[k].end <= gap.start \/ gap.end <= slots[k].start
<1> DEFINE gap == findGap(day, i, anchor)
<1>1. /\ DayEnd \in Nat
      /\ \A k \in DOMAIN slots : /\ slots[k].start \in Int /\ slots[k].end \in Int
                                 /\ 0 <= slots[k].start /\ slots[k].start <= DayEnd
                                 /\ 0 <= slots[k].end /\ slots[k].end <= DayEnd
  <2>1. DayEnd \in Nat /\ \A x \in 0..DayEnd : x \in Int /\ 0 <= x /\ x <= DayEnd
    BY CalendarTypes
  <2> QED BY <2>1, CalendarTypes
<1> HIDE DEF gap
<1>2. CASE gap = [start |-> 0, end |-> 0 - 1]
  <2>1. gap.start = 0 /\ gap.end = 0 - 1
    BY <1>2
  <2> QED BY <1>1, <2>1 DEF gap
<1>3. CASE gap # [start |-> 0, end |-> 0 - 1]
  <2> DEFINE neighbors == {k \in DOMAIN slots \ {i} : slots[k].day = day}
  <2>1. /\ \A k \in neighbors : gap.end <= slots[k].start \/ slots[k].end <= gap.start
        /\ gap.start = 0 \/ \E k \in neighbors : gap.start = slots[k].end
        /\ gap.end = DayEnd \/ \E k \in neighbors : gap.end = slots[k].start
    BY <1>3, GapCases DEF gap
  <2> QED BY <1>1, <2>1 DEF gap
<1> QED BY <1>2, <1>3

\* Around an anchor in a slot that fits, the gap has room for that slot.
LEMMA GapHolds ==
    ASSUME CalendarOK(slots), NEW i, NEW s, Fits(i, s), s.start \in 0..DayEnd, s.end \in 0..DayEnd,
           NEW anchor \in Int, 2 * s.start <= anchor, anchor < 2 * s.end
    PROVE  LET gap == findGap(s.day, i, anchor)
           IN  gap.start <= s.start /\ s.end <= gap.end
<1> DEFINE gap == findGap(s.day, i, anchor)
           neighbors == {k \in DOMAIN slots \ {i} : slots[k].day = s.day}
<1>1. /\ DayEnd \in Nat
      /\ \A k \in neighbors : /\ slots[k].start \in Int /\ slots[k].end \in Int
                              /\ slots[k].start < slots[k].end
  BY CalendarTypes
<1>2. s.start \in Int /\ s.end \in Int /\ 0 <= s.start /\ s.end <= DayEnd
  BY <1>1
<1>3. \A k \in neighbors : slots[k].end <= s.start \/ s.end <= slots[k].start
  BY DEF Fits, Apart
<1>4. \A k \in neighbors : /\ anchor < 2 * slots[k].end => s.end <= slots[k].start
                           /\ 2 * slots[k].end <= anchor => slots[k].end <= s.start
  <2> HIDE DEF neighbors
  <2> QED BY <1>1, <1>2, <1>3
<1>5. ~ \E k \in neighbors : 2 * slots[k].start <= anchor /\ anchor < 2 * slots[k].end
  <2> HIDE DEF neighbors
  <2> QED BY <1>1, <1>2, <1>4
<1>6. /\ gap.start = 0 \/ \E k \in neighbors : gap.start = slots[k].end /\ 2 * slots[k].end <= anchor
      /\ gap.end = DayEnd \/ \E k \in neighbors : gap.end = slots[k].start /\ anchor < 2 * slots[k].end
  BY <1>5, GapCases
<1> HIDE DEF gap, neighbors
<1>7. gap.start <= s.start /\ s.end <= gap.end
  BY <1>1, <1>2, <1>4, <1>6
<1> QED BY <1>7 DEF gap

Drags == [type : {"create", "move", "resize-top", "resize-bottom"}, slot : Nat, cursor : Int,
          day : Days, start : 0..DayEnd, end : 0..DayEnd, isClick : BOOLEAN]

\* What a drag began with still fits: the others do not change while it lasts.
DragOK ==
    /\ drag \in Drags /\ ~loadingShifts
    /\ drag.start < drag.end
    /\ drag.slot \in DOMAIN slots /\ Fits(drag.slot, drag)
    /\ drag.type # "move" => slots[drag.slot].day = drag.day
    /\ drag.type = "resize-top" => slots[drag.slot].end = drag.end
    /\ drag.type = "resize-bottom" => slots[drag.slot].start = drag.start

ScheduleInv == CalendarOK(slots) /\ (drag = NoDrag \/ DragOK)

\* What lies in a gap fits.
LEMMA InGap ==
    ASSUME CalendarOK(slots), NEW i, NEW day \in Days, NEW anchor \in Int,
           NEW b \in Int, NEW e \in Int, b < e,
           findGap(day, i, anchor).start <= b, e <= findGap(day, i, anchor).end
    PROVE  /\ [day |-> day, start |-> b, end |-> e] \in Slot
           /\ Fits(i, [day |-> day, start |-> b, end |-> e])
<1> DEFINE gap == findGap(day, i, anchor)
<1>1. /\ DayEnd \in Nat
      /\ \A k \in DOMAIN slots : slots[k].start \in Int /\ slots[k].end \in Int
  BY CalendarTypes
<1>2. /\ gap.start \in Int /\ gap.end \in Int /\ 0 <= gap.start /\ gap.end <= DayEnd
      /\ \A k \in DOMAIN slots \ {i} : slots[k].day = day =>
            slots[k].end <= gap.start \/ gap.end <= slots[k].start
  BY GapIsFree
<1> HIDE DEF gap
<1>3. gap.start <= b /\ e <= gap.end
  BY DEF gap
<1>4. b \in 0..DayEnd /\ e \in 0..DayEnd
  BY <1>1, <1>2, <1>3
<1>5. \A k \in DOMAIN slots \ {i} : slots[k].day = day => slots[k].end <= b \/ e <= slots[k].start
  BY <1>1, <1>2, <1>3
<1> QED BY <1>4, <1>5 DEF Slot, Fits, Apart

\* Another slot in the place of slot i, one more, and one less.
LEMMA EditOK ==
    ASSUME CalendarOK(slots), NEW i \in DOMAIN slots, NEW s \in Slot, s.start < s.end, Fits(i, s)
    PROVE  /\ CalendarOK([slots EXCEPT ![i] = s])
           /\ DOMAIN [slots EXCEPT ![i] = s] = DOMAIN slots
           /\ [slots EXCEPT ![i] = s][i] = s
           /\ \A k \in DOMAIN slots \ {i} : [slots EXCEPT ![i] = s][k] = slots[k]
<1> DEFINE week == [slots EXCEPT ![i] = s]
<1>1. Len(slots) \in Nat /\ DOMAIN slots = 1..Len(slots)
      /\ \A k \in DOMAIN slots : /\ slots[k].start \in Int /\ slots[k].end \in Int
                                 /\ slots[k].start < slots[k].end
  BY CalendarTypes
<1>2. week \in Seq(Slot)
  BY <1>1, ExceptSeq DEF CalendarOK
<1>3. /\ DOMAIN week = DOMAIN slots /\ week[i] = s
      /\ \A k \in DOMAIN slots \ {i} : week[k] = slots[k]
  OBVIOUS
<1> HIDE DEF week
<1>4. \A k \in DOMAIN week : week[k].start < week[k].end
  BY <1>1, <1>3
<1>5. \A k \in DOMAIN slots \ {i} : Apart(week[k], s) /\ Apart(s, week[k])
  BY <1>3 DEF Fits, Apart
<1>6. \A k, l \in DOMAIN week : k # l => Apart(week[k], week[l])
  BY <1>3, <1>5 DEF CalendarOK
<1> QED BY <1>2, <1>3, <1>4, <1>6 DEF CalendarOK, week

LEMMA AppendOK ==
    ASSUME CalendarOK(slots), NEW s \in Slot, s.start < s.end, Fits(0, s)
    PROVE  /\ CalendarOK(Append(slots, s))
           /\ Len(slots) + 1 \in DOMAIN Append(slots, s)
           /\ Append(slots, s)[Len(slots) + 1] = s
           /\ \A k \in DOMAIN Append(slots, s) \ {Len(slots) + 1} :
                 k \in DOMAIN slots /\ Append(slots, s)[k] = slots[k]
<1> DEFINE week == Append(slots, s)
           n == Len(slots)
<1>1. n \in Nat /\ DOMAIN slots = 1..n
      /\ \A k \in DOMAIN slots : slots[k].start < slots[k].end
  BY CalendarTypes
<1>2. /\ week \in Seq(Slot) /\ Len(week) = n + 1
      /\ \A k \in 1..n : week[k] = slots[k]
      /\ week[n + 1] = s
  BY AppendProperties DEF CalendarOK
<1>3. DOMAIN week = 1..(n + 1)
  BY <1>2, LenProperties
<1> HIDE DEF week, n
<1>4. n + 1 \in DOMAIN week /\ \A k \in DOMAIN week \ {n + 1} : k \in DOMAIN slots /\ week[k] = slots[k]
  BY <1>1, <1>2, <1>3
<1>5. \A k \in DOMAIN week : week[k].start < week[k].end
  BY <1>1, <1>2, <1>4
<1>6. 0 \notin DOMAIN slots
  BY <1>1
<1>7. \A k \in DOMAIN week \ {n + 1} : Apart(week[k], s) /\ Apart(s, week[k])
  BY <1>4, <1>6 DEF Fits, Apart
<1>8. \A k, l \in DOMAIN week : k # l => Apart(week[k], week[l])
  BY <1>2, <1>4, <1>7 DEF CalendarOK
<1> QED BY <1>2, <1>4, <1>5, <1>8 DEF CalendarOK, week, n

LEMMA RemoveOK ==
    ASSUME CalendarOK(slots), NEW i \in DOMAIN slots
    PROVE  CalendarOK(RemoveAt(slots, i))
<1> DEFINE week == RemoveAt(slots, i)
           old(j) == IF j < i THEN j ELSE j + 1
<1>1. Len(slots) \in Nat /\ DOMAIN slots = 1..Len(slots)
      /\ \A k \in DOMAIN slots : slots[k].start < slots[k].end
  BY CalendarTypes
<1>2. /\ week \in Seq(Slot) /\ Len(week) = Len(slots) - 1
      /\ \A j \in 1..(Len(slots) - 1) : week[j] = slots[old(j)]
  BY RemovedFrom DEF CalendarOK
<1>3. DOMAIN week = 1..(Len(slots) - 1)
  BY <1>2, LenProperties
<1>4. \A j \in DOMAIN week : old(j) \in DOMAIN slots
  BY <1>1, <1>3
<1>5. \A j, k \in DOMAIN week : j # k => old(j) # old(k)
  BY <1>1, <1>3
<1> HIDE DEF week, old
<1>6. \A j \in DOMAIN week : week[j].start < week[j].end
  BY <1>1, <1>2, <1>3, <1>4
<1>7. \A j, k \in DOMAIN week : j # k => Apart(week[j], week[k])
  BY <1>2, <1>3, <1>4, <1>5 DEF CalendarOK
<1> QED BY <1>2, <1>6, <1>7 DEF CalendarOK, week

\* A finite set of slots, in any order.
LEMMA ListedOK ==
    ASSUME NEW S, IsFiniteSet(S), S \subseteq Slot, \A s \in S : s.start < s.end,
           \A s, t \in S : s = t \/ Apart(s, t)
    PROVE  CalendarOK(SetToSeq(S))
<1> DEFINE n == Cardinality(S)
           week == SetToSeq(S)
<1>1. n \in Nat /\ \E f \in [1..n -> S] : IsInjective(f)
  BY FS_CardinalityType DEF ExistsBijection, Bijection, Injection
<1>2. week \in [1..n -> S] /\ IsInjective(week)
  BY <1>1 DEF SetToSeq
<1> HIDE DEF week, n
<1>3. week \in Seq(Slot)
  <2>1. week \in [1..n -> Slot]
    BY <1>2
  <2> QED BY <1>1, <2>1, SeqDef
<1>4. \A i \in DOMAIN week : week[i] \in S
  BY <1>2
<1>5. \A i, j \in DOMAIN week : i # j => week[i] # week[j]
  BY <1>2 DEF IsInjective
<1> QED BY <1>3, <1>4, <1>5 DEF CalendarOK, week

-----------------------------------------------------------------------------
\* The steps of the calendar

LEMMA CreateSlotStep ==
    ASSUME ScheduleInv, NEW day \in Days, NEW cursor \in Int, startCreate(day, cursor)
    PROVE  ScheduleInv'
<1> DEFINE gap   == findGap(day, 0, 2 * cursor)
           start == clamp(cursor, gap.start, gap.end - MinDuration)
           slot  == [day |-> day, start |-> start, end |-> start + MinDuration]
<1>1. /\ gap.end - gap.start >= 1 /\ ~loadingShifts'
      /\ slots' = Append(slots, slot)
      /\ drag' = Drag("create", Len(slots) + 1, slot, cursor)
  BY DEF startCreate, Width, MinDuration
<1>2. CalendarOK(slots) /\ Len(slots) \in Nat
  BY CalendarTypes DEF ScheduleInv
<1>3. gap.start \in Int /\ gap.end \in Int
  BY <1>2, GapIsFree
<1>4. start \in Int /\ gap.start <= start /\ start + 1 <= gap.end
  <2> HIDE DEF gap
  <2> QED BY <1>1, <1>3 DEF clamp, MinDuration
<1>5. slot \in Slot /\ Fits(0, slot) /\ slot.start < slot.end /\ slot.day = day
  <2> HIDE DEF start
  <2>1. start + 1 \in Int /\ start < start + 1
    BY <1>4
  <2>2. slot = [day |-> day, start |-> start, end |-> start + 1]
    BY DEF MinDuration
  <2>3. slot \in Slot /\ Fits(0, slot)
    BY <1>2, <1>4, <2>1, <2>2, InGap
  <2> QED BY <2>1, <2>2, <2>3
<1> HIDE DEF slot
<1>6. /\ CalendarOK(slots') /\ Len(slots) + 1 \in DOMAIN slots' /\ slots'[Len(slots) + 1] = slot
      /\ \A k \in DOMAIN slots' \ {Len(slots) + 1} : k \in DOMAIN slots /\ slots'[k] = slots[k]
  BY <1>1, <1>2, <1>5, AppendOK
<1>7. /\ drag' \in Drags /\ drag'.type = "create" /\ drag'.slot = Len(slots) + 1
      /\ drag'.day = slot.day /\ drag'.start = slot.start /\ drag'.end = slot.end
  BY <1>1, <1>2, <1>5 DEF Drag, Drags, Slot
<1>8. Fits(drag.slot, drag)'
  <2>1. \A k \in DOMAIN slots' \ {drag'.slot} : Apart(slots'[k], slot)
    <3>1. 0 \notin DOMAIN slots
      BY <1>2, CalendarTypes
    <3> QED BY <1>5, <1>6, <1>7, <3>1 DEF Fits
  <2> QED BY <1>7, <2>1 DEF Fits, Apart
<1> QED BY <1>1, <1>5, <1>6, <1>7, <1>8 DEF ScheduleInv, DragOK

LEMMA MouseDownStep ==
    ASSUME ScheduleInv, NEW i \in DOMAIN slots, NEW cursor \in Int,
           NEW type \in {"move", "resize-top", "resize-bottom"}, onSlotMouseDown(i, type, cursor)
    PROVE  ScheduleInv'
<1>1. /\ drag' = Drag(type, i, slots[i], cursor) /\ ~loadingShifts'
      /\ slots' = slots
  BY DEF onSlotMouseDown
<1>2. CalendarOK(slots) /\ slots[i] \in Slot /\ i \in Nat /\ slots[i].start < slots[i].end
  BY CalendarTypes DEF ScheduleInv
<1>3. /\ drag' \in Drags /\ drag'.type = type /\ drag'.slot = i
      /\ drag'.day = slots[i].day /\ drag'.start = slots[i].start /\ drag'.end = slots[i].end
  BY <1>1, <1>2 DEF Drag, Drags, Slot
<1>4. Fits(drag.slot, drag)'
  BY <1>1, <1>2, <1>3 DEF Fits, CalendarOK, Apart
<1> QED BY <1>1, <1>2, <1>3, <1>4 DEF ScheduleInv, DragOK

\* What a drag knows of itself, and of the gap around the slot it began with.
LEMMA DragTypes ==
    ASSUME ScheduleInv, drag # NoDrag
    PROVE  /\ CalendarOK(slots) /\ DragOK /\ DayEnd \in Nat
           /\ drag.slot \in DOMAIN slots /\ drag.day \in Days /\ drag.cursor \in Int
           /\ drag.start \in 0..DayEnd /\ drag.end \in 0..DayEnd
           /\ drag.start \in Int /\ drag.end \in Int /\ drag.start < drag.end
           /\ Fits(drag.slot, drag)
           /\ drag.type \in {"create", "move", "resize-top", "resize-bottom"}
           /\ \A anchor \in Int : 2 * drag.start <= anchor /\ anchor < 2 * drag.end =>
                 LET gap == findGap(drag.day, drag.slot, anchor)
                 IN  /\ gap.start \in Int /\ gap.end \in Int
                     /\ gap.start <= drag.start /\ drag.end <= gap.end
<1>1. CalendarOK(slots) /\ DragOK /\ DayEnd \in Nat
  BY ScheduleConstants DEF ScheduleInv
<1>2. /\ drag.slot \in DOMAIN slots /\ drag.day \in Days /\ drag.cursor \in Int
      /\ drag.start \in 0..DayEnd /\ drag.end \in 0..DayEnd /\ drag.start < drag.end
      /\ Fits(drag.slot, drag)
      /\ drag.type \in {"create", "move", "resize-top", "resize-bottom"}
  BY <1>1 DEF DragOK, Drags
<1>3. drag.start \in Int /\ drag.end \in Int
  BY <1>1, <1>2
<1> QED BY <1>1, <1>2, <1>3, GapHolds, GapIsFree

\* What a move of the mouse makes of the slot fits, whatever the kind of drag.
LEMMA CreatedFits ==
    ASSUME ScheduleInv, drag # NoDrag, NEW cursor \in Int, drag.type = "create"
    PROVE  LET s == Created(findGap(drag.day, drag.slot, 2 * drag.start), cursor)
           IN  s \in Slot /\ s.start < s.end /\ Fits(drag.slot, s) /\ s.day = drag.day
<1> DEFINE gap == findGap(drag.day, drag.slot, 2 * drag.start)
           up  == clamp(cursor, gap.start, drag.start)
           low == clamp(cursor, drag.start + MinDuration, gap.end)
<1>1. /\ gap.start \in Int /\ gap.end \in Int /\ gap.start <= drag.start /\ drag.end <= gap.end
      /\ drag.start \in Int /\ drag.end \in Int /\ drag.start < drag.end /\ drag.day \in Days
      /\ CalendarOK(slots) /\ 2 * drag.start \in Int
  <2>1. 2 * drag.start \in Int /\ 2 * drag.start < 2 * drag.end
    BY DragTypes
  <2> QED BY <2>1, DragTypes
<1>2. CASE cursor < drag.start
  <2> DEFINE e == IF up + MinDuration > drag.start THEN up + MinDuration ELSE drag.start
  <2>1. /\ Created(gap, cursor) = [day |-> drag.day, start |-> up, end |-> e]
    BY <1>2 DEF Created
  <2>2. up \in Int /\ gap.start <= up /\ up <= drag.start
    <3> HIDE DEF gap
    <3> QED BY <1>1 DEF clamp
  <2> HIDE DEF up
  <2>3. e \in Int /\ up < e /\ e <= gap.end
    <3> HIDE DEF gap
    <3> QED BY <1>1, <2>2 DEF MinDuration
  <2> HIDE DEF e
  <2>4. /\ [day |-> drag.day, start |-> up, end |-> e] \in Slot
        /\ Fits(drag.slot, [day |-> drag.day, start |-> up, end |-> e])
    BY <1>1, <2>2, <2>3, InGap
  <2> QED BY <2>1, <2>3, <2>4
<1>3. CASE ~(cursor < drag.start)
  <2>1. Created(gap, cursor) = [day |-> drag.day, start |-> drag.start, end |-> low]
    BY <1>3 DEF Created
  <2>2. low \in Int /\ drag.start < low /\ low <= gap.end
    <3> HIDE DEF gap
    <3> QED BY <1>1 DEF clamp, MinDuration
  <2> HIDE DEF low
  <2>3. /\ [day |-> drag.day, start |-> drag.start, end |-> low] \in Slot
        /\ Fits(drag.slot, [day |-> drag.day, start |-> drag.start, end |-> low])
    BY <1>1, <2>2, InGap
  <2> QED BY <2>1, <2>2, <2>3
<1> QED BY <1>2, <1>3

LEMMA MovedFits ==
    ASSUME ScheduleInv, drag # NoDrag, NEW day \in Days, NEW delta \in Int
    PROVE  LET s == Moved(slots[drag.slot], day, delta)
           IN  s \in Slot /\ s.start < s.end /\ Fits(drag.slot, s)
<1> DEFINE duration == drag.end - drag.start
           wanted   == clamp(drag.start + delta, 0, DayEnd - duration)
           gap      == findGap(day, drag.slot, 2 * wanted + duration)
           start    == clamp(wanted, gap.start, gap.end - duration)
<1>1. /\ duration \in Int /\ 0 < duration /\ DayEnd \in Nat /\ drag.start \in Int
      /\ CalendarOK(slots) /\ drag.slot \in DOMAIN slots
  BY DragTypes
<1> HIDE DEF duration
<1>2. wanted \in Int
  BY <1>1 DEF clamp
<1> HIDE DEF wanted
<1>3. 2 * wanted + duration \in Int
  BY <1>1, <1>2
<1>4. gap.start \in Int /\ gap.end \in Int
  BY <1>1, <1>3, GapIsFree
<1>5. CASE gap.end - gap.start < duration
  <2>1. Moved(slots[drag.slot], day, delta) = slots[drag.slot]
    BY <1>5 DEF Moved, Width, wanted, duration
  <2>2. \A k \in DOMAIN slots \ {drag.slot} : Apart(slots[k], slots[drag.slot])
    BY <1>1 DEF CalendarOK
  <2> QED BY <1>1, <2>1, <2>2, CalendarTypes DEF Fits
<1>6. CASE ~(gap.end - gap.start < duration)
  <2>1. Moved(slots[drag.slot], day, delta) =
            [day |-> day, start |-> start, end |-> start + duration]
    BY <1>6 DEF Moved, Width, wanted, duration
  <2>2. start \in Int /\ gap.start <= start /\ start + duration <= gap.end
        /\ start < start + duration /\ start + duration \in Int
    <3> HIDE DEF gap
    <3> QED BY <1>1, <1>2, <1>4, <1>6 DEF clamp
  <2> HIDE DEF start
  <2>3. /\ [day |-> day, start |-> start, end |-> start + duration] \in Slot
        /\ Fits(drag.slot, [day |-> day, start |-> start, end |-> start + duration])
    BY <1>1, <1>3, <2>2, InGap
  <2> QED BY <2>1, <2>2, <2>3
<1> QED BY <1>5, <1>6

LEMMA ResizedFits ==
    ASSUME ScheduleInv, drag # NoDrag, NEW delta \in Int
    PROVE  LET slot   == slots[drag.slot]
               top    == ResizedTop(slot, delta)
               bottom == ResizedBottom(slot, delta)
           IN  /\ drag.type = "resize-top" =>
                     /\ top \in Slot /\ top.start < top.end /\ Fits(drag.slot, top)
                     /\ top.day = drag.day /\ top.end = drag.end
               /\ drag.type = "resize-bottom" =>
                     /\ bottom \in Slot /\ bottom.start < bottom.end /\ Fits(drag.slot, bottom)
                     /\ bottom.day = drag.day /\ bottom.start = drag.start
<1> DEFINE slot == slots[drag.slot]
<1>1. /\ drag.start \in Int /\ drag.end \in Int /\ drag.start < drag.end /\ drag.day \in Days
      /\ CalendarOK(slots) /\ slot \in Slot
      /\ drag.type # "move" => slot.day = drag.day
      /\ drag.type = "resize-top" => slot.end = drag.end
      /\ drag.type = "resize-bottom" => slot.start = drag.start
  BY DragTypes, CalendarTypes DEF DragOK
<1>2. slot = [day |-> slot.day, start |-> slot.start, end |-> slot.end]
  BY <1>1 DEF Slot
<1>3. ASSUME drag.type = "resize-top"
      PROVE  LET top == ResizedTop(slot, delta)
             IN  /\ top \in Slot /\ top.start < top.end /\ Fits(drag.slot, top)
                 /\ top.day = drag.day /\ top.end = drag.end
  <2> DEFINE anchor == 2 * (drag.end - 1)
             gap    == findGap(drag.day, drag.slot, anchor)
             b      == clamp(drag.start + delta, gap.start, drag.end - MinDuration)
  <2>1. anchor \in Int /\ 2 * drag.start <= anchor /\ anchor < 2 * drag.end
    BY <1>1
  <2> HIDE DEF anchor
  <2>2. gap.start \in Int /\ gap.start <= drag.start /\ drag.end <= gap.end
    BY <2>1, DragTypes
  <2>3. b \in Int /\ gap.start <= b /\ b < drag.end
    <3> HIDE DEF gap
    <3> QED BY <1>1, <2>2 DEF clamp, MinDuration
  <2>4. ResizedTop(slot, delta) = [day |-> drag.day, start |-> b, end |-> drag.end]
    <3>1. ResizedTop(slot, delta) = [slot EXCEPT !.start = b]
      BY <1>1, <1>3 DEF ResizedTop, anchor
    <3> HIDE DEF b
    <3>2. [slot EXCEPT !.start = b] = [day |-> slot.day, start |-> b, end |-> slot.end]
      <4> HIDE DEF slot
      <4> QED BY <1>2
    <3> QED BY <1>1, <1>3, <3>1, <3>2
  <2> HIDE DEF b
  <2>5. /\ [day |-> drag.day, start |-> b, end |-> drag.end] \in Slot
        /\ Fits(drag.slot, [day |-> drag.day, start |-> b, end |-> drag.end])
    BY <1>1, <2>1, <2>2, <2>3, InGap
  <2> QED BY <2>3, <2>4, <2>5
<1>4. ASSUME drag.type = "resize-bottom"
      PROVE  LET bottom == ResizedBottom(slot, delta)
             IN  /\ bottom \in Slot /\ bottom.start < bottom.end /\ Fits(drag.slot, bottom)
                 /\ bottom.day = drag.day /\ bottom.start = drag.start
  <2> DEFINE anchor == 2 * drag.start
             gap    == findGap(drag.day, drag.slot, anchor)
             e      == clamp(drag.end + delta, drag.start + MinDuration, gap.end)
  <2>1. anchor \in Int /\ 2 * drag.start <= anchor /\ anchor < 2 * drag.end
    BY <1>1
  <2> HIDE DEF anchor
  <2>2. gap.end \in Int /\ gap.start <= drag.start /\ drag.end <= gap.end
    BY <2>1, DragTypes
  <2>3. e \in Int /\ drag.start < e /\ e <= gap.end
    <3> HIDE DEF gap
    <3> QED BY <1>1, <2>2 DEF clamp, MinDuration
  <2>4. ResizedBottom(slot, delta) = [day |-> drag.day, start |-> drag.start, end |-> e]
    <3>1. ResizedBottom(slot, delta) = [slot EXCEPT !.end = e]
      BY <1>1, <1>4 DEF ResizedBottom, anchor
    <3> HIDE DEF e
    <3>2. [slot EXCEPT !.end = e] = [day |-> slot.day, start |-> slot.start, end |-> e]
      <4> HIDE DEF slot
      <4> QED BY <1>2
    <3> QED BY <1>1, <1>4, <3>1, <3>2
  <2> HIDE DEF e
  <2>5. /\ [day |-> drag.day, start |-> drag.start, end |-> e] \in Slot
        /\ Fits(drag.slot, [day |-> drag.day, start |-> drag.start, end |-> e])
    BY <1>1, <2>1, <2>2, <2>3, InGap
  <2> QED BY <2>3, <2>4, <2>5
<1> QED BY <1>3, <1>4

LEMMA MouseMoveStep ==
    ASSUME ScheduleInv, NEW cursor \in Int, NEW day \in Days, NEW near \in BOOLEAN,
           onMouseMove(cursor, day, near)
    PROVE  ScheduleInv'
<1> DEFINE delta == cursor - drag.cursor
           slot  == slots[drag.slot]
           gap   == findGap(drag.day, drag.slot, 2 * drag.start)
           s == CASE drag.type = "create"     -> Created(gap, cursor)
                  [] drag.type = "move"       -> Moved(slot, day, delta)
                  [] drag.type = "resize-top" -> ResizedTop(slot, delta)
                  [] OTHER                    -> ResizedBottom(slot, delta)
<1>1. /\ drag # NoDrag /\ drag' = [drag EXCEPT !.isClick = @ /\ near]
      /\ slots' = [slots EXCEPT ![drag.slot] = s] /\ loadingShifts' = loadingShifts
  BY DEF onMouseMove
<1>2. CalendarOK(slots) /\ DragOK /\ drag.slot \in DOMAIN slots /\ delta \in Int
      /\ drag.type \in {"create", "move", "resize-top", "resize-bottom"}
  BY <1>1, DragTypes
<1>3. /\ s \in Slot /\ s.start < s.end /\ Fits(drag.slot, s)
      /\ drag.type # "move" => s.day = drag.day
      /\ drag.type = "resize-top" => s.end = drag.end
      /\ drag.type = "resize-bottom" => s.start = drag.start
  <2> HIDE DEF delta, gap, slot
  <2>1. CASE drag.type = "create"
    <3>1. s = Created(gap, cursor)
      BY <2>1
    <3> HIDE DEF s
    <3> QED BY <1>1, <2>1, <3>1, CreatedFits DEF gap
  <2>2. CASE drag.type = "move"
    <3>1. s = Moved(slot, day, delta)
      BY <2>2
    <3> HIDE DEF s
    <3> QED BY <1>1, <1>2, <2>2, <3>1, MovedFits DEF slot
  <2>3. CASE drag.type = "resize-top"
    <3>1. s = ResizedTop(slot, delta)
      BY <2>3
    <3> HIDE DEF s
    <3> QED BY <1>1, <1>2, <2>3, <3>1, ResizedFits DEF slot
  <2>4. CASE drag.type = "resize-bottom"
    <3>1. s = ResizedBottom(slot, delta)
      BY <2>4
    <3> HIDE DEF s
    <3> QED BY <1>1, <1>2, <2>4, <3>1, ResizedFits DEF slot
  <2> QED BY <1>2, <2>1, <2>2, <2>3, <2>4
<1> HIDE DEF s, delta, slot, gap
<1>4. /\ CalendarOK(slots') /\ DOMAIN slots' = DOMAIN slots /\ slots'[drag.slot] = s
      /\ \A k \in DOMAIN slots \ {drag.slot} : slots'[k] = slots[k]
  BY <1>1, <1>2, <1>3, EditOK
<1>5. /\ drag' \in Drags /\ drag'.type = drag.type /\ drag'.slot = drag.slot
      /\ drag'.day = drag.day /\ drag'.start = drag.start /\ drag'.end = drag.end
  BY <1>1, <1>2 DEF DragOK, Drags
<1>6. Fits(drag.slot, drag)'
  BY <1>2, <1>4, <1>5 DEF DragOK, Fits, Apart
<1> QED BY <1>1, <1>2, <1>3, <1>4, <1>5, <1>6 DEF ScheduleInv, DragOK

LEMMA MouseUpStep == ScheduleInv /\ onMouseUp => ScheduleInv'
<1> SUFFICES ASSUME ScheduleInv, onMouseUp
             PROVE  ScheduleInv'
  OBVIOUS
<1> DEFINE slot == slots[drag.slot]
           gap  == findGap(slot.day, drag.slot, 2 * slot.start)
           e    == clamp(slot.start + ClickLength, slot.start + MinDuration, gap.end)
<1>1. /\ drag # NoDrag /\ drag' = NoDrag
      /\ \/ slots' = [slots EXCEPT ![drag.slot].end = e]
         \/ slots' = slots
  BY DEF onMouseUp
<1>2. CalendarOK(slots) /\ drag.slot \in DOMAIN slots
  BY <1>1, DragTypes
<1>3. /\ slot \in Slot /\ slot.day \in Days /\ slot.start \in Int /\ slot.end \in Int
      /\ slot.start \in 0..DayEnd /\ slot.end \in 0..DayEnd /\ slot.start < slot.end
      /\ Fits(drag.slot, slot)
  BY <1>2, CalendarTypes DEF CalendarOK, Fits
<1> HIDE DEF slot
<1>4. 2 * slot.start \in Int /\ 2 * slot.start <= 2 * slot.start /\ 2 * slot.start < 2 * slot.end
  BY <1>3
<1>5. gap.start \in Int /\ gap.end \in Int /\ gap.start <= slot.start /\ slot.end <= gap.end
  BY <1>2, <1>3, <1>4, GapHolds, GapIsFree
<1>6. e \in Int /\ slot.start < e /\ e <= gap.end
  <2>1. slot.start + ClickLength \in Int
    BY <1>3, ScheduleConstants
  <2> HIDE DEF gap
  <2> QED BY <1>3, <1>5, <2>1 DEF clamp, MinDuration
<1> DEFINE s == [day |-> slot.day, start |-> slot.start, end |-> e]
<1> HIDE DEF e
<1>7. s \in Slot /\ Fits(drag.slot, s) /\ s.start < s.end
  <2>1. s \in Slot /\ Fits(drag.slot, s)
    BY <1>2, <1>3, <1>4, <1>5, <1>6, InGap
  <2> QED BY <1>6, <2>1
<1>8. [slots EXCEPT ![drag.slot].end = e] = [slots EXCEPT ![drag.slot] = s]
  <2>1. [slot EXCEPT !.end = e] = s
    BY <1>3 DEF Slot
  <2> QED BY <2>1 DEF slot
<1> HIDE DEF s
<1>9. CalendarOK([slots EXCEPT ![drag.slot] = s])
  BY <1>2, <1>7, EditOK
<1> QED BY <1>1, <1>2, <1>8, <1>9 DEF ScheduleInv

LEMMA PresetStep == ScheduleInv /\ applyWeekdayPreset => ScheduleInv'
<1> SUFFICES ASSUME ScheduleInv, applyWeekdayPreset
             PROVE  ScheduleInv'
  OBVIOUS
<1> DEFINE At(d) == [day |-> d, start |-> PresetSlot.start, end |-> PresetSlot.end]
           kept == {s \in ToSet(slots) : s.day \notin WeekDays}
           new  == {At(d) : d \in WeekDays}
<1>1. drag' = NoDrag /\ slots' = SetToSeq(kept \cup new)
  BY DEF applyWeekdayPreset
<1>2. CalendarOK(slots) /\ Len(slots) \in Nat /\ DOMAIN slots = 1..Len(slots)
  BY CalendarTypes DEF ScheduleInv
<1>3. IsFiniteSet(kept \cup new)
  <2>1. IsFiniteSet(ToSet(slots))
    <3>1. slots \in Surjection(1..Len(slots), ToSet(slots))
      <4>1. slots \in [1..Len(slots) -> ToSet(slots)]
        BY <1>2, LenProperties DEF ToSet, CalendarOK
      <4> QED BY <1>2, <4>1 DEF Surjection, ToSet
    <3> QED BY <1>2, <3>1, FS_NatSurjection DEF ExistsSurjection
  <2>2. IsFiniteSet(new)
    <3>1. [d \in WeekDays |-> At(d)] \in Surjection(WeekDays, new)
      BY DEF Surjection
    <3> HIDE DEF new
    <3> QED BY <3>1, FS_Surjection, ScheduleConstants
  <2>3. IsFiniteSet(kept)
    <3>1. kept \in SUBSET ToSet(slots)
      OBVIOUS
    <3> HIDE DEF kept
    <3> QED BY <2>1, <3>1, FS_Subset
  <2> HIDE DEF kept, new
  <2> QED BY <2>2, <2>3, FS_Union
<1>4. \A s \in kept : s \in Slot /\ s.start < s.end /\ s.day \notin WeekDays
  BY <1>2, CalendarTypes DEF ToSet
<1>5. \A s \in new : s \in Slot /\ s.start < s.end /\ s.day \in WeekDays
  BY ScheduleConstants DEF Slot
<1>6. \A s, t \in kept : s = t \/ Apart(s, t)
  BY <1>2 DEF ToSet, CalendarOK
<1>7. \A s, t \in new : s = t \/ Apart(s, t)
  BY DEF Apart
<1> HIDE DEF kept, new
<1>8. \A s, t \in kept \cup new : s = t \/ Apart(s, t)
  BY <1>4, <1>5, <1>6, <1>7 DEF Apart
<1>9. CalendarOK(SetToSeq(kept \cup new))
  BY <1>3, <1>4, <1>5, <1>8, ListedOK
<1> QED BY <1>1, <1>9 DEF ScheduleInv

LEMMA LoadedStep == ScheduleInv /\ Loaded => ScheduleInv'
<1> SUFFICES ASSUME ScheduleInv, Loaded
             PROVE  ScheduleInv'
  OBVIOUS
<1>1. drag = NoDrag /\ drag' = NoDrag
  BY DEF Loaded, ScheduleInv, DragOK
<1>2. \A stored \in Stored : CalendarOK(SetToSeq(stored))
  BY ScheduleConstants, ListedOK
<1>3. CalendarOK(slots')
  BY <1>2 DEF Loaded, ScheduleInv
<1> QED BY <1>1, <1>3 DEF ScheduleInv

LEMMA NoSlotOK == CalendarOK(<< >>)
<1>1. << >> \in Seq(Slot) /\ DOMAIN << >> = {}
  BY EmptySeq
<1> QED BY <1>1 DEF CalendarOK

LEMMA InitScheduleInv == ScheduleInit => ScheduleInv
BY NoSlotOK DEF ScheduleInit, ScheduleInv

LEMMA StepScheduleInv == ScheduleInv /\ [ScheduleNext]_scheduleVars => ScheduleInv'
<1> SUFFICES ASSUME ScheduleInv, [ScheduleNext]_scheduleVars
             PROVE  ScheduleInv'
  OBVIOUS
<1>1. CASE UNCHANGED scheduleVars
  BY <1>1 DEF ScheduleInv, DragOK, Fits, scheduleVars
<1>2. \A m \in Cursors : m \in Int
  BY ScheduleConstants DEF Cursors, Snap
<1>3. ASSUME NEW i \in DOMAIN slots, removeSlot(i)
      PROVE  ScheduleInv'
  BY <1>3, RemoveOK DEF ScheduleInv, removeSlot
<1>4. ASSUME clearAll
      PROVE  ScheduleInv'
  BY <1>4, NoSlotOK DEF ScheduleInv, clearAll
<1> QED
  BY <1>1, <1>2, <1>3, <1>4, CreateSlotStep, MouseDownStep, MouseMoveStep, MouseUpStep,
     PresetStep, LoadedStep
  DEF ScheduleNext

\* CalendarStaysApart: no gesture of MyScheduleView brings two slots of a day to
\* overlap, or one out of its day, so that setMyShifts accepts what is saved.
THEOREM CalendarTheorem == ScheduleSpec => []CalendarStaysApart
<1>1. ScheduleInv => CalendarStaysApart
  <2> SUFFICES ASSUME ScheduleInv
               PROVE  CalendarStaysApart
    OBVIOUS
  <2>1. CalendarOK(slots)
    BY DEF ScheduleInv
  <2>2. /\ Len(slots) \in Nat /\ DOMAIN slots = 1..Len(slots) /\ DayEnd \in Nat
        /\ \A i \in DOMAIN slots :
              /\ slots[i].day \in Days
              /\ slots[i].start \in 0..DayEnd /\ slots[i].end \in 0..DayEnd
              /\ slots[i].start \in Int /\ slots[i].end \in Int /\ slots[i].start < slots[i].end
    BY <2>1, CalendarTypes
  <2>3. NoOverlap(slots)
    <3>1. DOMAIN slots \subseteq Int
      BY <2>2
    <3> QED BY <2>1, <2>2, <3>1, ApartNeighbours DEF CalendarOK
  <2>4. \A i \in DOMAIN slots : /\ slots[i].day \in Days /\ slots[i].start < slots[i].end
                                /\ 0 <= slots[i].start /\ slots[i].end <= DayEnd
                                /\ slots[i].end - slots[i].start >= MinDuration
    BY <2>2 DEF MinDuration
  <2> QED BY <2>3, <2>4 DEF CalendarStaysApart, validateSlots, ToSet
<1> QED BY <1>1, InitScheduleInv, StepScheduleInv, PTL DEF ScheduleSpec

-----------------------------------------------------------------------------
\* RoadSources

\* The box of a route holds its stops, and leaves room around them.
LEMMA BoxHolds ==
    ASSUME NEW points \in PointSets, NEW p \in points
    PROVE  LET box == computeBoundingBox(points)
           IN  box.min <= p - BBOX_PADDING /\ p + BBOX_PADDING <= box.max
<1>1. points # {} /\ points \subseteq West..East
  BY SitesAssumption DEF PointSets
<1>2. West \in Int /\ East \in Int
  BY DEF West, East
<1>3. /\ Min(points) \in points /\ \A x \in points : Min(points) <= x
      /\ Max(points) \in points /\ \A x \in points : x <= Max(points)
  BY <1>1, <1>2, MinMax
<1>4. Min(points) \in Int /\ Max(points) \in Int /\ p \in Int
      /\ Min(points) <= p /\ p <= Max(points)
  <2>1. \A x \in points : x \in Int
    BY <1>1, <1>2
  <2> QED BY <1>3, <2>1
<1> DEFINE floor(x) == (x \div CACHE_GRID) * CACHE_GRID
<1>5. \A x \in Int : floor(x) \in Int /\ floor(x) <= x
  BY DEF CACHE_GRID
<1>6. computeBoundingBox(points) =
        [min |-> floor(Min(points) - BBOX_PADDING),
         max |-> 0 - floor(0 - (Max(points) + BBOX_PADDING))]
  BY DEF computeBoundingBox
<1> DEFINE south == Min(points) - BBOX_PADDING
           north == 0 - (Max(points) + BBOX_PADDING)
<1>7. south \in Int /\ north \in Int
  BY <1>4 DEF BBOX_PADDING
<1>8. floor(south) \in Int /\ floor(south) <= south /\ floor(north) \in Int /\ floor(north) <= north
  BY <1>5, <1>7
<1>9. /\ computeBoundingBox(points).min = floor(south)
      /\ computeBoundingBox(points).max = 0 - floor(north)
  BY <1>6
<1> HIDE DEF floor
<1> QED BY <1>4, <1>8, <1>9 DEF BBOX_PADDING

Networks == {Miss} \cup {Network(elements) : elements \in Elements}

KmLookup == [pc : {"read", "ask", "write", "done"}, fn : {"km"}, a : Sites, b : Sites,
             km : Int, timed : BOOLEAN, source : {"haversine", "osrm"}]

BoxLookup == [pc : {"read", "ask", "write", "done"}, fn : {"box"}, points : PointSets,
              box : Boxes, endpoint : Nat, network : Networks]

\* A distance under way is the estimate, or OSRM has answered it, which it has
\* when it is about to be kept.
KmOK(r, known) ==
    /\ r \in KmLookup
    /\ r.pc = "read" => {r.a, r.b} \in Ends
    /\ r.pc \in {"read", "ask"} => r.source = "haversine"
    /\ r.pc = "write" => r.source = "osrm"
    /\ IF r.source = "osrm" THEN [ends |-> {r.a, r.b}, km |-> r.km] \in known
       ELSE r.km = Crow(r.a, r.b) /\ ~r.timed

\* A network under way is none, or a server has answered it for this box.
BoxOK(r, known) ==
    /\ r \in BoxLookup
    /\ r.box = computeBoundingBox(r.points)
    /\ r.network # Miss => [box |-> r.box, network |-> r.network] \in known

LookupOK(r, known) == r = Idle \/ KmOK(r, known) \/ BoxOK(r, known)

\* So it is in Redis, which may hold old entries and broken ones.
CachesOK ==
    /\ kmCache \in [Ends -> [km : Int, timed : BOOLEAN]]
    /\ \A e \in Ends : kmCache[e] \notin {Miss, BadEntry} =>
          [ends |-> e, km |-> kmCache[e].km] \in answered
    /\ boxCache \in [Boxes -> Networks]
    /\ \A b \in Boxes : boxCache[b] # Miss => [box |-> b, network |-> boxCache[b]] \in answered

SourcesInv ==
    /\ lookup = [l \in Lookups |-> lookup[l]]
    /\ \A l \in Lookups : LookupOK(lookup[l], answered)
    /\ CachesOK

\* Which kind of lookup it is.
LEMMA LookupKinds ==
    ASSUME NEW r, NEW known, LookupOK(r, known)
    PROVE  /\ r.pc # "idle" /\ r.fn = "km" => KmOK(r, known)
           /\ r.pc # "idle" /\ r.fn = "box" => BoxOK(r, known)
<1>1. r = Idle => r.pc = "idle"
  BY DEF Idle
<1>2. KmOK(r, known) => r.fn = "km"
  BY DEF KmOK, KmLookup
<1>3. BoxOK(r, known) => r.fn = "box"
  BY DEF BoxOK, BoxLookup
<1> QED BY <1>1, <1>2, <1>3 DEF LookupOK

\* What was answered stays so.
LEMMA AnsweredGrows ==
    ASSUME NEW r, NEW known, NEW more, known \subseteq more, LookupOK(r, known)
    PROVE  LookupOK(r, more)
BY DEF LookupOK, KmOK, BoxOK

\* A step of lookup l.
LEMMA LookupStep ==
    ASSUME SourcesInv, NEW l \in Lookups, NEW r, Step(l, r), answered \subseteq answered',
           LookupOK(r, answered'), CachesOK'
    PROVE  SourcesInv'
<1>1. lookup'[l] = r /\ \A m \in Lookups \ {l} : lookup'[m] = lookup[m]
  BY DEF SourcesInv, Step
<1>2. lookup' = [m \in Lookups |-> lookup'[m]]
  BY DEF SourcesInv, Step
<1>3. \A m \in Lookups : LookupOK(lookup'[m], answered')
  BY <1>1, AnsweredGrows DEF SourcesInv
<1> QED BY <1>2, <1>3 DEF SourcesInv

LEMMA CachesStay ==
    ASSUME CachesOK, answered \subseteq answered', UNCHANGED <<kmCache, boxCache>>
    PROVE  CachesOK'
BY DEF CachesOK

\* Two places that are close are no key of the cache.
LEMMA EndsOf ==
    ASSUME NEW a \in Sites, NEW b \in Sites, Crow(a, b) >= TooNear
    PROVE  {a, b} \in Ends
<1>1. <<a, b>> \in {q \in Sites \X Sites : Crow(q[1], q[2]) >= TooNear}
  OBVIOUS
<1>2. {<<a, b>>[1], <<a, b>>[2]} = {a, b}
  OBVIOUS
<1> QED BY <1>1, <1>2 DEF Ends

\* A distance is a whole number.
LEMMA CrowIsNumber ==
    ASSUME NEW a \in Sites, NEW b \in Sites
    PROVE  Crow(a, b) \in Int
<1>1. West \in Int /\ East \in Int
  BY DEF West, East
<1>2. a \in Int /\ b \in Int
  BY <1>1, SitesAssumption
<1> QED BY <1>2 DEF Crow

LEMMA GetDistanceStep ==
    ASSUME SourcesInv, NEW l \in Lookups, NEW a \in Sites, NEW b \in Sites,
           getDistanceKm(l, a, b)
    PROVE  SourcesInv'
<1> DEFINE far == Crow(a, b) >= TooNear
           r == [Estimate(a, b) EXCEPT !.pc = IF Crow(a, b) < TooNear THEN "done" ELSE "read"]
<1>1. Crow(a, b) \in Int
  BY CrowIsNumber
<1>2. /\ r \in KmLookup /\ r.a = a /\ r.b = b /\ r.km = Crow(a, b) /\ r.timed = FALSE
      /\ r.source = "haversine" /\ r.pc = (IF Crow(a, b) < TooNear THEN "done" ELSE "read")
  BY <1>1 DEF KmLookup, Estimate
<1>3. r.pc = "read" => {a, b} \in Ends
  BY <1>1, <1>2, EndsOf DEF TooNear
<1>4. Step(l, r) /\ UNCHANGED <<kmCache, boxCache, answered>>
  BY DEF getDistanceKm
<1> HIDE DEF r
<1>5. KmOK(r, answered')
  BY <1>2, <1>3 DEF KmOK
<1>6. LookupOK(r, answered') /\ CachesOK' /\ answered \subseteq answered'
  BY <1>4, <1>5, CachesStay DEF LookupOK, SourcesInv
<1> QED BY <1>4, <1>6, LookupStep

LEMMA ReadKmStep ==
    ASSUME SourcesInv, NEW l \in Lookups, ReadKm(l)
    PROVE  SourcesInv'
<1> DEFINE r == lookup[l]
           cached == kmCache[{r.a, r.b}]
           asking == [r EXCEPT !.pc = "ask"]
           found == [r EXCEPT !.pc = "done", !.source = "osrm",
                              !.km = cached.km, !.timed = cached.timed]
<1>1. r.pc = "read" /\ r.fn = "km" /\ UNCHANGED <<kmCache, boxCache, answered>>
      /\ (Step(l, asking) \/ (cached \notin {Miss, BadEntry} /\ Step(l, found)))
  BY DEF ReadKm
<1>2. LookupOK(r, answered) /\ CachesOK
  BY DEF SourcesInv
<1>3. KmOK(r, answered)
  BY <1>1, <1>2, LookupKinds
<1>4. {r.a, r.b} \in Ends
  BY <1>1, <1>3 DEF KmOK
<1>5. cached \in [km : Int, timed : BOOLEAN]
      /\ (cached \notin {Miss, BadEntry} => [ends |-> {r.a, r.b}, km |-> cached.km] \in answered)
  BY <1>2, <1>4 DEF CachesOK
<1> HIDE DEF cached
<1>6. /\ asking \in KmLookup /\ asking.pc = "ask" /\ asking.source = r.source
      /\ asking.a = r.a /\ asking.b = r.b /\ asking.km = r.km /\ asking.timed = r.timed
  BY <1>3 DEF KmOK, KmLookup
<1>7. /\ found \in KmLookup /\ found.pc = "done" /\ found.source = "osrm"
      /\ found.a = r.a /\ found.b = r.b /\ found.km = cached.km
  BY <1>3, <1>5 DEF KmOK, KmLookup
<1> HIDE DEF asking, found
<1>8. KmOK(asking, answered')
  BY <1>1, <1>3, <1>6 DEF KmOK
<1>9. cached \notin {Miss, BadEntry} => KmOK(found, answered')
  BY <1>1, <1>5, <1>7 DEF KmOK
<1>10. CachesOK' /\ answered \subseteq answered'
  BY <1>1, <1>2, CachesStay
<1>11. CASE Step(l, asking)
  BY <1>8, <1>10, <1>11, LookupStep DEF LookupOK
<1>12. CASE cached \notin {Miss, BadEntry} /\ Step(l, found)
  BY <1>9, <1>10, <1>12, LookupStep DEF LookupOK
<1> QED BY <1>1, <1>11, <1>12

LEMMA QueryOsrmStep ==
    ASSUME SourcesInv, NEW l \in Lookups, queryOsrm(l)
    PROVE  SourcesInv'
<1> DEFINE r == lookup[l]
           unknown == [r EXCEPT !.pc = AfterOsrm(FALSE)]
           found(km) == [r EXCEPT !.pc = AfterOsrm(TRUE), !.source = "osrm",
                                  !.km = km, !.timed = TRUE]
<1>1. /\ r.pc = "ask" /\ r.fn = "km" /\ UNCHANGED <<kmCache, boxCache>>
      /\ \/ \E km \in RoadKm(r.a, r.b) :
               Step(l, found(km)) /\ Answers([ends |-> {r.a, r.b}, km |-> km])
         \/ Step(l, unknown) /\ UNCHANGED answered
  BY DEF queryOsrm
<1>2. LookupOK(r, answered) /\ CachesOK
  BY DEF SourcesInv
<1>3. KmOK(r, answered)
  BY <1>1, <1>2, LookupKinds
<1>4. CASE Step(l, unknown) /\ UNCHANGED answered
  <2>1. /\ unknown \in KmLookup /\ unknown.pc = "done" /\ unknown.source = r.source
        /\ unknown.a = r.a /\ unknown.b = r.b /\ unknown.km = r.km /\ unknown.timed = r.timed
    BY <1>3 DEF KmOK, KmLookup, AfterOsrm
  <2> HIDE DEF unknown
  <2>2. KmOK(unknown, answered')
    BY <1>3, <1>4, <2>1 DEF KmOK
  <2>3. CachesOK' /\ answered \subseteq answered'
    BY <1>1, <1>2, <1>4, CachesStay
  <2> QED BY <1>4, <2>2, <2>3, LookupStep DEF LookupOK
<1>5. ASSUME NEW km \in RoadKm(r.a, r.b), Step(l, found(km)),
             Answers([ends |-> {r.a, r.b}, km |-> km])
      PROVE  SourcesInv'
  <2>1. r.a \in Sites /\ r.b \in Sites
    BY <1>3 DEF KmOK, KmLookup
  <2>2. km \in Int
    BY <2>1, CrowIsNumber DEF RoadKm
  <2> DEFINE f == found(km)
  <2>3. /\ f \in KmLookup /\ f.pc = "write" /\ f.source = "osrm"
        /\ f.a = r.a /\ f.b = r.b /\ f.km = km
    BY <1>3, <2>2 DEF KmOK, KmLookup, AfterOsrm
  <2>4. Step(l, f)
    BY <1>5
  <2>5. [ends |-> {r.a, r.b}, km |-> km] \in answered' /\ answered \subseteq answered'
    BY <1>5 DEF Answers
  <2> HIDE DEF f
  <2>6. KmOK(f, answered')
    BY <2>3, <2>5 DEF KmOK
  <2>7. CachesOK'
    BY <1>1, <1>2, <2>5, CachesStay
  <2> QED BY <2>4, <2>5, <2>6, <2>7, LookupStep DEF LookupOK
<1> HIDE DEF unknown, found
<1> QED BY <1>1, <1>4, <1>5

LEMMA WriteKmStep ==
    ASSUME SourcesInv, NEW l \in Lookups, WriteKm(l)
    PROVE  SourcesInv'
<1> DEFINE r == lookup[l]
           kept == [km |-> r.km, timed |-> r.timed]
           done == [r EXCEPT !.pc = "done"]
<1>1. /\ r.pc = "write" /\ r.fn = "km" /\ UNCHANGED <<boxCache, answered>> /\ Step(l, done)
      /\ kmCache' = [kmCache EXCEPT ![{r.a, r.b}] = kept] \/ UNCHANGED kmCache
  BY DEF WriteKm, Returned
<1>2. LookupOK(r, answered) /\ CachesOK
  BY DEF SourcesInv
<1>3. KmOK(r, answered)
  BY <1>1, <1>2, LookupKinds
<1>4. /\ done \in KmLookup /\ done.pc = "done" /\ done.source = r.source
      /\ done.a = r.a /\ done.b = r.b /\ done.km = r.km /\ done.timed = r.timed
  BY <1>3 DEF KmOK, KmLookup
<1>5. /\ kept \in [km : Int, timed : BOOLEAN] /\ kept.km = r.km
      /\ [ends |-> {r.a, r.b}, km |-> r.km] \in answered
  BY <1>1, <1>3 DEF KmOK, KmLookup
<1> HIDE DEF done, kept
<1>6. KmOK(done, answered')
  BY <1>1, <1>3, <1>4 DEF KmOK
<1>7. CachesOK'
  <2>1. kmCache' \in [Ends -> [km : Int, timed : BOOLEAN]]
    BY <1>1, <1>2, <1>5 DEF CachesOK
  <2>2. \A e \in Ends : kmCache'[e] \notin {Miss, BadEntry} =>
          [ends |-> e, km |-> kmCache'[e].km] \in answered
    BY <1>1, <1>2, <1>5 DEF CachesOK
  <2> QED BY <1>1, <1>2, <2>1, <2>2 DEF CachesOK
<1> QED BY <1>1, <1>6, <1>7, LookupStep DEF LookupOK

LEMMA FetchStep ==
    ASSUME SourcesInv, NEW l \in Lookups, NEW points \in PointSets, fetchRoadNetwork(l, points)
    PROVE  SourcesInv'
<1> DEFINE r == [pc |-> "read", fn |-> "box", points |-> points,
                 box |-> computeBoundingBox(points), endpoint |-> 1, network |-> Miss]
<1>1. Step(l, r) /\ UNCHANGED <<kmCache, boxCache, answered>>
  BY DEF fetchRoadNetwork
<1>2. computeBoundingBox(points) \in Boxes /\ Miss \in Networks
  BY DEF Boxes, Networks
<1>3. r \in BoxLookup /\ r.box = computeBoundingBox(r.points) /\ r.network = Miss
  BY <1>2 DEF BoxLookup
<1> HIDE DEF r
<1>4. BoxOK(r, answered')
  BY <1>3 DEF BoxOK
<1>5. CachesOK' /\ answered \subseteq answered'
  BY <1>1, CachesStay DEF SourcesInv
<1> QED BY <1>1, <1>4, <1>5, LookupStep DEF LookupOK

LEMMA ReadBoxStep ==
    ASSUME SourcesInv, NEW l \in Lookups, ReadBox(l)
    PROVE  SourcesInv'
<1> DEFINE r == lookup[l]
           cached == boxCache[r.box]
           asking == [r EXCEPT !.pc = "ask"]
           found == [r EXCEPT !.pc = "done", !.network = cached]
<1>1. r.pc = "read" /\ r.fn = "box" /\ UNCHANGED <<kmCache, boxCache, answered>>
      /\ (Step(l, asking) \/ (cached # Miss /\ Step(l, found)))
  BY DEF ReadBox
<1>2. LookupOK(r, answered) /\ CachesOK
  BY DEF SourcesInv
<1>3. BoxOK(r, answered)
  BY <1>1, <1>2, LookupKinds
<1>4. r.box \in Boxes
  BY <1>3 DEF BoxOK, BoxLookup
<1>5. cached \in Networks /\ (cached # Miss => [box |-> r.box, network |-> cached] \in answered)
  BY <1>2, <1>4 DEF CachesOK
<1> HIDE DEF cached
<1>6. /\ asking \in BoxLookup /\ asking.box = r.box /\ asking.points = r.points
      /\ asking.network = r.network
  BY <1>3 DEF BoxOK, BoxLookup
<1>7. /\ found \in BoxLookup /\ found.box = r.box /\ found.points = r.points
      /\ found.network = cached
  BY <1>3, <1>5 DEF BoxOK, BoxLookup
<1> HIDE DEF asking, found
<1>8. BoxOK(asking, answered')
  BY <1>1, <1>3, <1>6 DEF BoxOK
<1>9. BoxOK(found, answered')
  BY <1>1, <1>3, <1>5, <1>7 DEF BoxOK
<1>10. CachesOK' /\ answered \subseteq answered'
  BY <1>1, <1>2, CachesStay
<1>11. CASE Step(l, asking)
  BY <1>8, <1>10, <1>11, LookupStep DEF LookupOK
<1>12. CASE Step(l, found)
  BY <1>9, <1>10, <1>12, LookupStep DEF LookupOK
<1> QED BY <1>1, <1>11, <1>12

LEMMA AskOverpassStep ==
    ASSUME SourcesInv, NEW l \in Lookups, AskOverpass(l)
    PROVE  SourcesInv'
<1> DEFINE r == lookup[l]
           found(elements) == [r EXCEPT !.pc = "write", !.network = Network(elements)]
           next == IF r.endpoint = OVERPASS_ENDPOINTS THEN Returned(l)
                   ELSE [r EXCEPT !.endpoint = @ + 1]
<1>1. /\ r.pc = "ask" /\ r.fn = "box" /\ UNCHANGED <<kmCache, boxCache>>
      /\ \/ \E elements \in Elements :
               Step(l, found(elements)) /\ Answers([box |-> r.box, network |-> Network(elements)])
         \/ Step(l, next) /\ UNCHANGED answered
  BY DEF AskOverpass
<1>2. LookupOK(r, answered) /\ CachesOK
  BY DEF SourcesInv
<1>3. BoxOK(r, answered)
  BY <1>1, <1>2, LookupKinds
<1>4. CASE Step(l, next) /\ UNCHANGED answered
  <2>1. /\ next \in BoxLookup /\ next.box = r.box /\ next.points = r.points
        /\ next.network = r.network
    BY <1>3 DEF BoxOK, BoxLookup, Returned
  <2> HIDE DEF next
  <2>2. BoxOK(next, answered')
    BY <1>3, <1>4, <2>1 DEF BoxOK
  <2>3. CachesOK' /\ answered \subseteq answered'
    BY <1>1, <1>2, <1>4, CachesStay
  <2> QED BY <1>4, <2>2, <2>3, LookupStep DEF LookupOK
<1>5. ASSUME NEW elements \in Elements, Step(l, found(elements)),
             Answers([box |-> r.box, network |-> Network(elements)])
      PROVE  SourcesInv'
  <2> DEFINE network == Network(elements)
             f == [r EXCEPT !.pc = "write", !.network = network]
  <2>1. network \in Networks
    BY DEF Networks
  <2>2. Step(l, f) /\ [box |-> r.box, network |-> network] \in answered' /\ answered \subseteq answered'
    BY <1>5 DEF Answers
  <2> HIDE DEF network
  <2>3. f \in BoxLookup /\ f.box = r.box /\ f.points = r.points /\ f.network = network
    BY <1>3, <2>1 DEF BoxOK, BoxLookup
  <2> HIDE DEF f
  <2>4. BoxOK(f, answered')
    BY <1>3, <2>2, <2>3 DEF BoxOK
  <2>5. CachesOK'
    BY <1>1, <1>2, <2>2, CachesStay
  <2> QED BY <2>2, <2>4, <2>5, LookupStep DEF LookupOK
<1> HIDE DEF found, next
<1> QED BY <1>1, <1>4, <1>5

LEMMA WriteBoxStep ==
    ASSUME SourcesInv, NEW l \in Lookups, WriteBox(l)
    PROVE  SourcesInv'
<1> DEFINE r == lookup[l]
           done == [r EXCEPT !.pc = "done"]
<1>1. /\ r.pc = "write" /\ r.fn = "box" /\ UNCHANGED <<kmCache, answered>> /\ Step(l, done)
      /\ boxCache' = [boxCache EXCEPT ![r.box] = r.network] \/ UNCHANGED boxCache
  BY DEF WriteBox, Returned
<1>2. LookupOK(r, answered) /\ CachesOK
  BY DEF SourcesInv
<1>3. BoxOK(r, answered)
  BY <1>1, <1>2, LookupKinds
<1>4. /\ done \in BoxLookup /\ done.box = r.box /\ done.points = r.points
      /\ done.network = r.network /\ r.network \in Networks
  BY <1>3 DEF BoxOK, BoxLookup
<1> HIDE DEF done
<1>5. BoxOK(done, answered')
  BY <1>1, <1>3, <1>4 DEF BoxOK
<1>6. CachesOK'
  <2>1. boxCache' \in [Boxes -> Networks]
    BY <1>1, <1>2, <1>4 DEF CachesOK
  <2>2. \A b \in Boxes : boxCache'[b] # Miss => [box |-> b, network |-> boxCache'[b]] \in answered
    BY <1>1, <1>2, <1>3 DEF CachesOK, BoxOK
  <2> QED BY <1>1, <1>2, <2>1, <2>2 DEF CachesOK
<1> QED BY <1>1, <1>5, <1>6, LookupStep DEF LookupOK

LEMMA ForgetStep ==
    ASSUME SourcesInv, Forget
    PROVE  SourcesInv'
<1>1. Miss \in [km : Int, timed : BOOLEAN] /\ Miss \in Networks
  BY DEF Miss, Networks
<1>2. UNCHANGED <<lookup, answered>>
  BY DEF Forget
<1>3. ASSUME NEW e \in Ends, kmCache' = [kmCache EXCEPT ![e] = Miss], UNCHANGED boxCache
      PROVE  CachesOK'
  BY <1>1, <1>2, <1>3 DEF SourcesInv, CachesOK
<1>4. ASSUME NEW b \in Boxes, boxCache' = [boxCache EXCEPT ![b] = Miss], UNCHANGED kmCache
      PROVE  CachesOK'
  BY <1>1, <1>2, <1>4 DEF SourcesInv, CachesOK
<1>5. CachesOK'
  BY <1>3, <1>4 DEF Forget
<1> QED BY <1>2, <1>5 DEF SourcesInv

LEMMA InitSourcesInv == SourcesInit => SourcesInv
<1> SUFFICES ASSUME SourcesInit
             PROVE  SourcesInv
  OBVIOUS
<1> DEFINE first == [km |-> 1, timed |-> FALSE]
<1>1. Miss \in [km : Int, timed : BOOLEAN] /\ BadEntry \in [km : Int, timed : BOOLEAN]
      /\ first \in [km : Int, timed : BOOLEAN] /\ first.km = 1 /\ Miss \in Networks
  BY DEF Miss, BadEntry, Networks
<1>2. lookup = [l \in Lookups |-> lookup[l]] /\ \A l \in Lookups : LookupOK(lookup[l], answered)
  BY DEF SourcesInit, LookupOK
<1>3. boxCache \in [Boxes -> Networks] /\ \A b \in Boxes : boxCache[b] = Miss
  BY <1>1 DEF SourcesInit
<1>4. PICK old \in {Miss, BadEntry, first}, ends \in Ends :
        /\ kmCache = [[e \in Ends |-> Miss] EXCEPT ![ends] = old]
        /\ answered = IF old \in {Miss, BadEntry} THEN {} ELSE {[ends |-> ends, km |-> 1]}
  BY DEF SourcesInit
<1> HIDE DEF first
<1>5. kmCache \in [Ends -> [km : Int, timed : BOOLEAN]]
  BY <1>1, <1>4
<1>6. \A e \in Ends : kmCache[e] \notin {Miss, BadEntry} =>
         [ends |-> e, km |-> kmCache[e].km] \in answered
  BY <1>1, <1>4
<1> QED BY <1>2, <1>3, <1>5, <1>6 DEF SourcesInv, CachesOK

LEMMA StepSourcesInv == SourcesInv /\ [SourcesNext]_sourceVars => SourcesInv'
<1> SUFFICES ASSUME SourcesInv, [SourcesNext]_sourceVars
             PROVE  SourcesInv'
  OBVIOUS
<1>1. CASE UNCHANGED sourceVars
  BY <1>1 DEF SourcesInv, CachesOK, sourceVars
<1>2. CASE Forget
  BY <1>2, ForgetStep
<1>3. ASSUME NEW l \in Lookups,
             \/ \E a, b \in Sites : getDistanceKm(l, a, b)
             \/ ReadKm(l) \/ queryOsrm(l) \/ WriteKm(l)
             \/ \E points \in PointSets : fetchRoadNetwork(l, points)
             \/ ReadBox(l) \/ AskOverpass(l) \/ WriteBox(l)
      PROVE  SourcesInv'
  BY <1>3, GetDistanceStep, ReadKmStep, QueryOsrmStep, WriteKmStep, FetchStep, ReadBoxStep,
     AskOverpassStep, WriteBoxStep
<1> QED BY <1>1, <1>2, <1>3 DEF SourcesNext

LEMMA InvSourcesHonest == SourcesInv => SourcesHonest
<1> SUFFICES ASSUME SourcesInv, NEW l \in Lookups, lookup[l].pc = "done"
             PROVE  LET r == lookup[l] IN
                    IF r.fn = "km"
                    THEN IF r.source = "osrm"
                         THEN [ends |-> {r.a, r.b}, km |-> r.km] \in answered
                         ELSE r.km = Crow(r.a, r.b) /\ ~r.timed
                    ELSE /\ r.network # Miss => [box |-> r.box, network |-> r.network] \in answered
                         /\ \A p \in r.points : /\ r.box.min <= p - BBOX_PADDING
                                                /\ p + BBOX_PADDING <= r.box.max
  BY DEF SourcesHonest
<1> DEFINE r == lookup[l]
<1>1. KmOK(r, answered) \/ BoxOK(r, answered)
  BY DEF SourcesInv, LookupOK, Idle
<1>2. CASE KmOK(r, answered)
  BY <1>2 DEF KmOK, KmLookup
<1>3. CASE BoxOK(r, answered)
  <2>1. r.fn = "box" /\ r.points \in PointSets /\ r.box = computeBoundingBox(r.points)
        /\ (r.network # Miss => [box |-> r.box, network |-> r.network] \in answered)
    BY <1>3 DEF BoxOK, BoxLookup
  <2>2. \A p \in r.points : r.box.min <= p - BBOX_PADDING /\ p + BBOX_PADDING <= r.box.max
    BY <2>1, BoxHolds
  <2> QED BY <2>1, <2>2
<1> QED BY <1>1, <1>2, <1>3

\* SourcesHonest: what getDistanceKm() gives out as a distance by road, and
\* fetchRoadNetwork() as a network, a server answered for those places, whichever
\* calls are under way together and whatever Redis keeps or loses.
THEOREM SourcesTheorem == SourcesSpec => []SourcesHonest
<1> USE DEF SourcesSpec
<1>1. SourcesSpec => []SourcesInv
  BY InitSourcesInv, StepSourcesInv, PTL
<1> QED BY <1>1, InvSourcesHonest, PTL

-----------------------------------------------------------------------------
\* Checkout

Places == Addresses \cup {None}

FormType(f) ==
    f \in [address : Places, coords : Places, quote : Places \cup {NoQuote}, asked : Seq(Places),
           finding : Places, locating : BOOLEAN, late : BOOLEAN, overtaken : BOOLEAN]

\* The last quote that was asked for is the one for these coordinates.
QuoteFollows(f) ==
    \/ f.overtaken
    \/ f.asked = <<>> /\ f.quote \in {NoQuote, f.coords}
    \/ f.asked # <<>> /\ f.asked[Len(f.asked)] = f.coords

FormOK(f) ==
    /\ FormType(f)
    /\ f.coords \in {None, f.address} \/ f.late
    /\ QuoteFollows(f)

LEMMA FetchQuoteAsks ==
    ASSUME NEW f, FormType(f), cart.org # None
    PROVE  /\ FormType(fetchQuote(f)) /\ QuoteFollows(fetchQuote(f))
           /\ fetchQuote(f).coords = f.coords /\ fetchQuote(f).address = f.address
           /\ fetchQuote(f).finding = f.finding /\ fetchQuote(f).late = f.late
<1> DEFINE g == fetchQuote(f)
<1>1. f.asked \in Seq(Places) /\ f.coords \in Places
  BY DEF FormType
<1>2. /\ Append(f.asked, f.coords) \in Seq(Places) /\ Append(f.asked, f.coords) # <<>>
      /\ Len(Append(f.asked, f.coords)) = Len(f.asked) + 1
      /\ Append(f.asked, f.coords)[Len(f.asked) + 1] = f.coords
  BY <1>1, AppendProperties
<1>3. /\ g.coords = f.coords /\ g.address = f.address /\ g.finding = f.finding
      /\ g.late = f.late /\ g.asked = Append(f.asked, f.coords) /\ FormType(g)
  BY <1>2 DEF fetchQuote, FormType
<1> HIDE DEF g
<1>4. QuoteFollows(g)
  BY <1>2, <1>3 DEF QuoteFollows
<1> QED BY <1>3, <1>4 DEF g

LEMMA SetCoordsAsks ==
    ASSUME NEW f, FormOK(f), cart.org # None, NEW coords \in Places
    PROVE  LET g == SetCoords(f, coords)
           IN  /\ FormType(g) /\ QuoteFollows(g) /\ g.coords = coords
               /\ g.address = f.address /\ g.finding = f.finding /\ g.late = f.late
<1>1. CASE coords = None /\ f.coords = None
  BY <1>1 DEF FormOK, SetCoords
<1>2. CASE ~(coords = None /\ f.coords = None)
  <2> DEFINE h == [f EXCEPT !.coords = coords]
  <2>1. FormType(h) /\ h.coords = coords /\ h.address = f.address /\ h.finding = f.finding
        /\ h.late = f.late
    BY DEF FormOK, FormType
  <2>2. SetCoords(f, coords) = fetchQuote(h)
    BY <1>2 DEF SetCoords
  <2> HIDE DEF h
  <2> QED BY <2>1, <2>2, FetchQuoteAsks
<1> QED BY <1>1, <1>2

LEMMA NoFormOK == FormOK(NoForm) /\ FormType(NoForm)
<1>1. << >> \in Seq(Places)
  BY EmptySeq
<1> QED BY <1>1 DEF NoForm, FormOK, FormType, QuoteFollows, Places

LEMMA OpenedOK ==
    ASSUME NEW p
    PROVE  FormOK(Opened(p))
<1>1. CASE p = "checkout" /\ cart.org # None
  <2>1. Opened(p) = fetchQuote(NoForm)
    BY <1>1 DEF Opened
  <2>2. NoForm.coords = None
    BY DEF NoForm
  <2> QED BY <1>1, <2>1, <2>2, NoFormOK, FetchQuoteAsks DEF FormOK
<1>2. CASE ~(p = "checkout" /\ cart.org # None)
  BY <1>2, NoFormOK DEF Opened, fetchQuote
<1> QED BY <1>1, <1>2

Orgs == {SellerOf[p] : p \in Goods} \cup {None}

Quantities == [Goods -> Nat]

OneSeller(items, org) == \A p \in Goods : items[p] > 0 => SellerOf[p] = org

CartOK ==
    /\ cart \in [items : Quantities, org : Orgs]
    /\ OneSeller(cart.items, cart.org)
    /\ cart.org = None => cart.items = NoItems

\* The address: what is typed, found or detected.
LEMMA FormSteps ==
    ASSUME FormOK(form), CartOK,
           \/ TypeAddress \/ handleFindCoords \/ FindAnswered
           \/ handleDetectLocation \/ LocationAnswered
           \/ \E i \in DOMAIN form.asked : QuoteAnswered(i)
    PROVE  \E f : FormOK(f) /\ OnForm(f)
<1>1. \A f : OnForm(f) => cart.org # None
  BY DEF OnForm, CartOK
<1>2. FormType(form) /\ form.address \in Places /\ form.coords \in Places
      /\ form.finding \in Places /\ form.late \in BOOLEAN /\ form.overtaken \in BOOLEAN
      /\ form.asked \in Seq(Places) /\ form.quote \in Places \cup {NoQuote}
  BY DEF FormOK, FormType
<1>3. None \in Places /\ Addresses \subseteq Places
  BY DEF Places
<1>4. CASE TypeAddress
  <2>1. PICK a \in Addresses : OnForm([SetCoords(form, None) EXCEPT !.address = a])
    BY <1>4 DEF TypeAddress
  <2> DEFINE g == SetCoords(form, None)
             f == [g EXCEPT !.address = a]
  <2>2. FormType(g) /\ QuoteFollows(g) /\ g.coords = None
    BY <1>1, <1>3, <2>1, SetCoordsAsks
  <2>3. OnForm(f)
    BY <2>1
  <2> HIDE DEF g
  <2>4. /\ FormType(f) /\ f.coords = g.coords /\ f.quote = g.quote /\ f.asked = g.asked
        /\ f.overtaken = g.overtaken
    BY <1>3, <2>2 DEF FormType
  <2> HIDE DEF f
  <2>5. FormOK(f)
    BY <2>2, <2>4 DEF FormOK, QuoteFollows
  <2> QED BY <2>3, <2>5
<1>5. CASE handleFindCoords
  <2> DEFINE f == [form EXCEPT !.finding = form.address]
  <2>1. OnForm(f)
    BY <1>5 DEF handleFindCoords
  <2>2. /\ FormType(f) /\ f.coords = form.coords /\ f.quote = form.quote /\ f.asked = form.asked
        /\ f.overtaken = form.overtaken /\ f.late = form.late /\ f.address = form.address
    BY <1>2 DEF FormType
  <2> HIDE DEF f
  <2>3. FormOK(f)
    BY <2>2 DEF FormOK, QuoteFollows
  <2> QED BY <2>1, <2>3
<1>6. CASE FindAnswered
  <2> DEFINE g == SetCoords(form, form.finding)
             overdue == g.late \/ form.finding # form.address
             found == [g EXCEPT !.finding = None, !.late = overdue]
             none == [form EXCEPT !.finding = None]
  <2>1. OnForm(found) \/ OnForm(none)
    BY <1>6 DEF FindAnswered
  <2>2. /\ FormType(none) /\ none.coords = form.coords /\ none.quote = form.quote
        /\ none.asked = form.asked /\ none.overtaken = form.overtaken
        /\ none.late = form.late /\ none.address = form.address
    BY <1>2, <1>3 DEF FormType
  <2>3. CASE OnForm(found)
    <3>1. /\ FormType(g) /\ QuoteFollows(g) /\ g.coords = form.finding
          /\ g.address = form.address
      BY <1>1, <1>2, <2>3, SetCoordsAsks
    <3>2. overdue \in BOOLEAN
      BY Zenon
    <3> HIDE DEF g
    <3>3. overdue <=> (g.late \/ form.finding # form.address)
      OBVIOUS
    <3> HIDE DEF overdue
    <3>4. /\ FormType(found) /\ found.coords = g.coords /\ found.quote = g.quote
          /\ found.asked = g.asked /\ found.overtaken = g.overtaken
          /\ found.late = overdue /\ found.address = g.address
      BY <1>3, <3>1, <3>2 DEF FormType
    <3> HIDE DEF found
    <3>5. found.coords = found.address \/ found.late
      BY <3>1, <3>3, <3>4
    <3>6. FormOK(found)
      BY <3>1, <3>4, <3>5 DEF FormOK, QuoteFollows
    <3> QED BY <2>3, <3>6
  <2>4. CASE OnForm(none)
    <3> HIDE DEF none
    <3>1. FormOK(none)
      BY <2>2 DEF FormOK, QuoteFollows
    <3> QED BY <2>4, <3>1
  <2> QED BY <2>1, <2>3, <2>4
<1>7. CASE handleDetectLocation
  <2> DEFINE f == [form EXCEPT !.locating = TRUE]
  <2>1. OnForm(f)
    BY <1>7 DEF handleDetectLocation
  <2>2. /\ FormType(f) /\ f.coords = form.coords /\ f.quote = form.quote /\ f.asked = form.asked
        /\ f.overtaken = form.overtaken /\ f.late = form.late /\ f.address = form.address
    BY <1>2 DEF FormType
  <2> HIDE DEF f
  <2>3. FormOK(f)
    BY <2>2 DEF FormOK, QuoteFollows
  <2> QED BY <2>1, <2>3
<1>8. CASE LocationAnswered
  <2> DEFINE none == [form EXCEPT !.locating = FALSE]
             found(a) == [SetCoords(form, a) EXCEPT !.address = a, !.locating = FALSE]
  <2>1. OnForm(none) \/ \E a \in Addresses : OnForm(found(a))
    BY <1>8 DEF LocationAnswered
  <2>2. CASE OnForm(none)
    <3>1. /\ FormType(none) /\ none.coords = form.coords /\ none.quote = form.quote
          /\ none.asked = form.asked /\ none.overtaken = form.overtaken
          /\ none.late = form.late /\ none.address = form.address
      BY <1>2 DEF FormType
    <3> HIDE DEF none
    <3>2. FormOK(none)
      BY <3>1 DEF FormOK, QuoteFollows
    <3> QED BY <2>2, <3>2
  <2>3. ASSUME NEW a \in Addresses, OnForm(found(a))
        PROVE  \E f : FormOK(f) /\ OnForm(f)
    <3> DEFINE g == SetCoords(form, a)
               f == [g EXCEPT !.address = a, !.locating = FALSE]
    <3>1. FormType(g) /\ QuoteFollows(g) /\ g.coords = a /\ OnForm(f)
      BY <1>1, <1>3, <2>3, SetCoordsAsks
    <3> HIDE DEF g
    <3>2. /\ FormType(f) /\ f.coords = g.coords /\ f.quote = g.quote /\ f.asked = g.asked
          /\ f.overtaken = g.overtaken /\ f.address = a
      BY <1>3, <3>1 DEF FormType
    <3> HIDE DEF f
    <3>3. FormOK(f)
      BY <3>1, <3>2 DEF FormOK, QuoteFollows
    <3> QED BY <3>1, <3>3
  <2> HIDE DEF none, found
  <2> QED BY <2>1, <2>2, <2>3
<1>9. ASSUME NEW i \in DOMAIN form.asked, QuoteAnswered(i)
      PROVE  \E f : FormOK(f) /\ OnForm(f)
  <2> DEFINE rest == RemoveAt(form.asked, i)
             behind == form.overtaken \/ i # 1
             f(quote) == [form EXCEPT !.asked = rest, !.quote = quote, !.overtaken = behind]
  <2>1. PICK quote \in {form.asked[i], NoQuote} : OnForm(f(quote))
    BY <1>9 DEF QuoteAnswered
  <2>2. Len(form.asked) \in Nat /\ i \in 1..Len(form.asked) /\ form.asked[i] \in Places
    BY <1>2, LenProperties, ElementOfSeq
  <2>3. /\ rest \in Seq(Places) /\ Len(rest) = Len(form.asked) - 1
        /\ i = 1 => \A j \in 1..(Len(form.asked) - 1) : rest[j] = form.asked[j + 1]
    <3> DEFINE queue == form.asked
    <3>1. queue \in Seq(Places)
      BY <1>2
    <3>2. /\ rest \in Seq(Places) /\ Len(rest) = Len(queue) - 1
          /\ \A j \in 1..(Len(queue) - 1) : rest[j] = IF j < i THEN queue[j] ELSE queue[j + 1]
      BY <3>1, RemovedFrom
    <3> HIDE DEF rest, queue
    <3>3. i = 1 => \A j \in 1..(Len(queue) - 1) : ~(j < i)
      BY <2>2 DEF queue
    <3> QED BY <3>2, <3>3 DEF queue
  <2>4. behind \in BOOLEAN
    BY Zenon
  <2>5. behind <=> (form.overtaken \/ i # 1)
    OBVIOUS
  <2> HIDE DEF rest, behind
  <2> DEFINE h == f(quote)
  <2>6. /\ FormType(h) /\ h.coords = form.coords /\ h.quote = quote /\ h.asked = rest
        /\ h.overtaken = behind /\ h.late = form.late /\ h.address = form.address
    BY <1>2, <2>2, <2>3, <2>4 DEF FormType
  <2>7. OnForm(h)
    BY <2>1
  <2> HIDE DEF h
  <2>8. QuoteFollows(h)
    <3>1. CASE behind
      BY <2>6, <3>1 DEF QuoteFollows
    <3>2. CASE ~behind
      <4>1. i = 1 /\ form.asked # <<>> /\ form.asked[Len(form.asked)] = form.coords
        BY <2>2, <2>5, <3>2 DEF FormOK, QuoteFollows
      <4>2. CASE rest = <<>>
        <5>1. Len(form.asked) = 1
          BY <2>2, <2>3, <4>2, EmptySeq
        <5> QED BY <2>6, <4>1, <4>2, <5>1 DEF QuoteFollows
      <4>3. CASE rest # <<>>
        <5>1. Len(rest) \in Nat \ {0}
          BY <2>3, <4>3, EmptySeq
        <5>2. Len(rest) \in 1..(Len(form.asked) - 1) /\ Len(rest) + 1 = Len(form.asked)
          <6>1. Len(rest) = Len(form.asked) - 1 /\ Len(form.asked) \in Nat
            BY <2>2, <2>3
          <6>2. \A m \in Nat, n \in Nat \ {0} : n = m - 1 => n \in 1..(m - 1) /\ n + 1 = m
            OBVIOUS
          <6> QED BY <5>1, <6>1, <6>2
        <5>3. rest[Len(rest)] = form.asked[Len(form.asked)]
          BY <2>3, <4>1, <5>2
        <5> QED BY <2>6, <4>1, <4>3, <5>3 DEF QuoteFollows
      <4> QED BY <4>2, <4>3
    <3> QED BY <3>1, <3>2
  <2>9. FormOK(h)
    BY <2>6, <2>8 DEF FormOK
  <2> QED BY <2>7, <2>9
<1> QED BY <1>4, <1>5, <1>6, <1>7, <1>8, <1>9

Dtos == [org : Orgs, items : Quantities, address : Places, coords : Places]

Requests == [id : Nat, dto : Dtos, basket : Nat, state : {"sent", "done", "deleted"},
             heard : BOOLEAN, late : BOOLEAN]

StoredOrders == [dto : Dtos, basket : Nat, late : BOOLEAN]

WellMeant(order) ==
    /\ OneSeller(order.dto.items, order.dto.org)
    /\ order.dto.coords \in {None, order.dto.address} \/ order.late
    /\ order.basket <= basket

OrdersOK ==
    /\ basket \in Nat
    /\ \A c \in creates : c \in Requests /\ WellMeant(c)
    /\ placed \in Seq(StoredOrders)
    /\ \A i \in DOMAIN placed : WellMeant(placed[i])

\* Except for the doubtful carts: the page waits for the order that is on its way,
\* which is the only one of its cart and has all of it, and no order has been
\* stored for it before.
OnceInv ==
    /\ \A c \in creates : c.basket \notin doubtful =>
          page = "checkout" /\ busy /\ c.heard /\ c.dto.items = cart.items
    /\ \A c, d \in creates : c.basket = d.basket => c = d \/ c.basket \in doubtful
    /\ \A c \in creates : \A i \in DOMAIN placed :
          placed[i].basket = c.basket => c.state = "done" \/ c.basket \in doubtful
    /\ \A i \in DOMAIN placed : placed[i].basket = basket =>
          basket \in doubtful \/ \E c \in creates : c.basket = basket /\ c.state = "done"
    /\ CartOrderedOnce

CheckoutInv == CartOK /\ FormOK(form) /\ busy \in BOOLEAN /\ OrdersOK /\ OnceInv

LEMMA InitCheckoutInv == CheckoutInit => CheckoutInv
<1> SUFFICES ASSUME CheckoutInit
             PROVE  CheckoutInv
  OBVIOUS
<1>1. CartOK
  BY DEF CheckoutInit, CartOK, EmptyCart, NoItems, Quantities, Orgs, OneSeller
<1>2. FormOK(form)
  BY NoFormOK DEF CheckoutInit
<1>3. placed \in Seq(StoredOrders) /\ DOMAIN placed = {}
  <2>1. Len(<< >>) = 0 /\ << >> \in Seq(StoredOrders)
    BY EmptySeq
  <2> QED BY <2>1 DEF CheckoutInit
<1>4. OrdersOK /\ OnceInv /\ busy \in BOOLEAN
  BY <1>3 DEF CheckoutInit, OrdersOK, OnceInv, CartOrderedOnce
<1> QED BY <1>1, <1>2, <1>4 DEF CheckoutInv

\* Steps that leave the orders alone and what is in the cart.
LEMMA OnFormStep ==
    ASSUME CheckoutInv, NEW f, FormOK(f), OnForm(f)
    PROVE  CheckoutInv'
<1>1. form' = f /\ UNCHANGED <<cart, page, busy, fetching, creates, placed, basket, doubtful, lost>>
  BY DEF OnForm
<1>2. FormOK(form')
  BY <1>1
<1>3. CartOK' /\ OrdersOK' /\ OnceInv' /\ (busy \in BOOLEAN)'
  BY <1>1 DEF CheckoutInv, CartOK, OrdersOK, OnceInv, CartOrderedOnce, WellMeant
<1> QED BY <1>2, <1>3 DEF CheckoutInv

LEMMA AddStep ==
    ASSUME CartOK, NEW p \in Goods, cart' = addItem(p)
    PROVE  CartOK'
<1> DEFINE kept == IF cart.org \in {None, SellerOf[p]} THEN cart.items ELSE NoItems
           items == [kept EXCEPT ![p] = @ + 1]
<1>1. kept \in Quantities /\ OneSeller(kept, SellerOf[p])
  <2>1. CASE cart.org = None
    BY <2>1 DEF CartOK, NoItems, OneSeller, Quantities
  <2>2. CASE cart.org = SellerOf[p]
    BY <2>2 DEF CartOK
  <2>3. CASE cart.org \notin {None, SellerOf[p]}
    BY <2>3 DEF NoItems, OneSeller, Quantities
  <2> QED BY <2>1, <2>2, <2>3
<1> HIDE DEF kept
<1>2. items \in Quantities /\ OneSeller(items, SellerOf[p])
  BY <1>1 DEF OneSeller, Quantities
<1>3. cart'.items = items /\ cart'.org = SellerOf[p] /\ cart' = [items |-> items, org |-> SellerOf[p]]
  BY DEF addItem, kept
<1> HIDE DEF items
<1>4. SellerOf[p] \in Orgs /\ SellerOf[p] # None
  BY CheckoutConstants DEF Orgs
<1> QED BY <1>2, <1>3, <1>4 DEF CartOK

LEMMA TakeStep ==
    ASSUME CartOK, NEW p \in Goods, NEW n \in Int, cart.items[p] > 0, cart' = updateQuantity(p, n)
    PROVE  CartOK'
<1>1. cart.items \in Quantities /\ cart.org \in Orgs /\ OneSeller(cart.items, cart.org)
      /\ cart.org # None
  BY DEF CartOK, NoItems
<1>2. CASE n <= 0
  <2> DEFINE kept == [cart.items EXCEPT ![p] = 0]
             org == IF kept = NoItems THEN None ELSE cart.org
  <2>1. cart' = [items |-> kept, org |-> org]
    BY <1>2 DEF updateQuantity, removeItem
  <2>2. kept \in Quantities /\ OneSeller(kept, cart.org)
    BY <1>1 DEF Quantities, OneSeller
  <2>3. OneSeller(NoItems, None)
    BY DEF OneSeller, NoItems
  <2> HIDE DEF kept
  <2>4. OneSeller(kept, org) /\ org \in Orgs /\ (org = None => kept = NoItems)
    BY <1>1, <2>2, <2>3 DEF Orgs
  <2> HIDE DEF org
  <2> QED BY <2>1, <2>2, <2>4 DEF CartOK
<1>3. CASE ~(n <= 0)
  <2> DEFINE kept == [cart.items EXCEPT ![p] = n]
  <2>1. kept \in Quantities /\ OneSeller(kept, cart.org)
    BY <1>1, <1>3 DEF Quantities, OneSeller
  <2>2. cart' = [cart EXCEPT !.items = kept]
    BY <1>3 DEF updateQuantity
  <2> HIDE DEF kept
  <2>3. cart'.items = kept /\ cart'.org = cart.org /\ cart' \in [items : Quantities, org : Orgs]
    BY <2>1, <2>2 DEF CartOK
  <2> QED BY <1>1, <2>1, <2>3 DEF CartOK
<1> QED BY <1>2, <1>3

LEMMA CartSteps ==
    ASSUME CheckoutInv, AddToCart \/ TakeOne
    PROVE  CheckoutInv'
<1>1. page = "shop" /\ UNCHANGED <<page, form, busy, fetching, creates, placed, basket, doubtful, lost>>
  BY DEF AddToCart, TakeOne
<1>2. CartOK'
  <2>1. CASE AddToCart
    BY <2>1, AddStep DEF AddToCart, CheckoutInv
  <2>2. CASE TakeOne
    <3>1. PICK p \in Goods : cart.items[p] > 0 /\ cart' = updateQuantity(p, cart.items[p] - 1)
      BY <2>2 DEF TakeOne
    <3>2. cart.items[p] - 1 \in Int
      BY DEF CheckoutInv, CartOK, Quantities
    <3> QED BY <3>1, <3>2, TakeStep DEF CheckoutInv
  <2> QED BY <2>1, <2>2
<1>3. OrdersOK' /\ OnceInv' /\ (busy \in BOOLEAN)'
  BY <1>1 DEF CheckoutInv, OrdersOK, OnceInv, CartOrderedOnce, WellMeant
<1>4. FormOK(form')
  BY <1>1 DEF CheckoutInv
<1> QED BY <1>2, <1>3, <1>4 DEF CheckoutInv

\* A client who leaves the checkout, or whose page no longer waits: every order on
\* its way belongs to a doubtful cart then.
LEMMA DoubtfulStep ==
    ASSUME CheckoutInv, Carts(creates) \subseteq doubtful', doubtful \subseteq doubtful',
           UNCHANGED <<cart, creates, placed, basket, lost>>, FormOK(form'), busy' \in BOOLEAN
    PROVE  CheckoutInv'
<1>1. \A c \in creates : c.basket \in doubtful'
  BY DEF Carts
<1>2. CartOrderedOnce'
  BY DEF CheckoutInv, OnceInv, CartOrderedOnce
<1>3. OnceInv'
  BY <1>1, <1>2 DEF CheckoutInv, OnceInv
<1>4. CartOK' /\ OrdersOK'
  BY DEF CheckoutInv, CartOK, OrdersOK, WellMeant
<1> QED BY <1>3, <1>4 DEF CheckoutInv

LEMMA VisitStep ==
    ASSUME CheckoutInv, NEW p, Visit(p)
    PROVE  CheckoutInv'
<1>1. Carts(creates) \subseteq doubtful' /\ doubtful \subseteq doubtful'
  BY DEF Visit, CheckoutInv, OnceInv, Carts
<1>2. FormOK(form')
  BY OpenedOK DEF Visit
<1>3. busy' \in BOOLEAN
  BY DEF Visit, fetchMy, CheckoutInv
<1>4. UNCHANGED <<cart, creates, placed, basket, lost>>
  BY DEF Visit
<1> QED BY <1>1, <1>2, <1>3, <1>4, DoubtfulStep

LEMMA FetchMyStep ==
    ASSUME CheckoutInv, FetchMyAnswered
    PROVE  CheckoutInv'
<1>1. /\ Carts(creates) \subseteq doubtful' /\ doubtful \subseteq doubtful' /\ busy' \in BOOLEAN
      /\ UNCHANGED <<cart, creates, placed, basket, lost, form>>
  BY DEF FetchMyAnswered
<1>2. FormOK(form')
  BY <1>1 DEF CheckoutInv
<1> QED BY <1>1, <1>2, DoubtfulStep

\* Fewer orders are on their way, of doubtful carts all of them.
LEMMA FewerOrders ==
    ASSUME CheckoutInv, doubtful \subseteq doubtful',
           UNCHANGED <<placed, basket, lost>>,
           \A c \in creates' : c \in Requests /\ WellMeant(c)' /\ c.basket \in doubtful',
           \A c \in creates : c.state = "done" => c.basket \in doubtful' \/ c \in creates'
    PROVE  OrdersOK' /\ OnceInv'
<1>1. CartOrderedOnce'
  BY DEF CheckoutInv, OnceInv, CartOrderedOnce
<1>2. OnceInv'
  BY <1>1 DEF CheckoutInv, OnceInv
<1> QED BY <1>2 DEF CheckoutInv, OrdersOK, WellMeant

LEMMA ReloadStep ==
    ASSUME CheckoutInv, ReloadPage
    PROVE  CheckoutInv'
<1> DEFINE again(c) == [c EXCEPT !.heard = FALSE]
<1>1. /\ creates' = {again(c) : c \in {d \in creates : d.state = "sent"}}
      /\ doubtful' = doubtful \cup Carts(creates)
      /\ UNCHANGED <<cart, page, placed, basket, lost>> /\ busy' \in BOOLEAN
  BY DEF ReloadPage
<1>2. \A c \in Requests : /\ again(c) \in Requests /\ again(c).basket = c.basket
                          /\ again(c).dto = c.dto /\ again(c).late = c.late
  BY DEF Requests
<1> HIDE DEF again
<1>3. \A c \in creates : c \in Requests /\ WellMeant(c)
  BY DEF CheckoutInv, OrdersOK
<1>4. ASSUME NEW e \in creates'
      PROVE  e \in Requests /\ WellMeant(e)' /\ e.basket \in doubtful'
  <2>1. PICK c \in creates : e = again(c)
    BY <1>1
  <2> QED BY <1>1, <1>2, <1>3, <2>1 DEF WellMeant, Carts
<1>5. \A c \in creates : c.basket \in doubtful'
  BY <1>1 DEF Carts
<1>6. OrdersOK' /\ OnceInv'
  BY <1>1, <1>4, <1>5, FewerOrders
<1>7. FormOK(form')
  BY OpenedOK DEF ReloadPage
<1> QED BY <1>1, <1>6, <1>7 DEF CheckoutInv, CartOK

LEMMA PlaceStep ==
    ASSUME CheckoutInv, handlePlaceOrder
    PROVE  CheckoutInv'
<1> DEFINE dto == [org |-> cart.org, items |-> cart.items, address |-> form.address,
                   coords |-> form.coords]
           new(id) == [id |-> id, dto |-> dto, basket |-> basket, state |-> "sent",
                       heard |-> TRUE, late |-> form.late]
<1>1. /\ page = "checkout" /\ ~busy /\ busy' = TRUE
      /\ UNCHANGED <<cart, page, form, placed, basket, doubtful, lost>>
  BY DEF handlePlaceOrder, CanPlace
<1>2. PICK id \in 1..MaxOrders : creates' = creates \cup {new(id)}
  BY DEF handlePlaceOrder
<1>3. id \in Nat
  BY CheckoutConstants
<1>4. dto \in Dtos /\ dto.items = cart.items /\ dto.org = cart.org
      /\ dto.coords = form.coords /\ dto.address = form.address /\ form.late \in BOOLEAN
  BY DEF CheckoutInv, CartOK, FormOK, FormType, Dtos
<1> DEFINE r == new(id)
<1> HIDE DEF dto
<1>5. /\ r \in Requests /\ r.dto = dto /\ r.basket = basket /\ r.state = "sent" /\ r.heard
      /\ r.late = form.late
  BY <1>3, <1>4 DEF CheckoutInv, OrdersOK, Requests
<1>6. creates' = creates \cup {r}
  BY <1>2
<1> HIDE DEF r, new
<1>7. WellMeant(r)
  BY <1>4, <1>5 DEF CheckoutInv, CartOK, FormOK, OrdersOK, WellMeant
<1>8. OrdersOK'
  BY <1>1, <1>5, <1>6, <1>7 DEF CheckoutInv, OrdersOK, WellMeant
<1>9. \A c \in creates : c.basket \in doubtful
  BY <1>1 DEF CheckoutInv, OnceInv
<1>10. \A i \in DOMAIN placed : placed[i].basket = basket => basket \in doubtful
  BY <1>9 DEF CheckoutInv, OnceInv
<1>11. CartOrderedOnce'
  BY <1>1 DEF CheckoutInv, OnceInv, CartOrderedOnce
<1>12. OnceInv'
  <2>1. \A c \in creates' : c.basket \notin doubtful' =>
           (page = "checkout" /\ busy)' /\ c.heard /\ c.dto.items = cart'.items
    BY <1>1, <1>4, <1>5, <1>6, <1>9
  <2>2. \A c, d \in creates' : c.basket = d.basket => c = d \/ c.basket \in doubtful'
    BY <1>1, <1>5, <1>6, <1>9
  <2>3. \A c \in creates' : \A i \in DOMAIN placed' :
          placed'[i].basket = c.basket => c.state = "done" \/ c.basket \in doubtful'
    BY <1>1, <1>5, <1>6, <1>9, <1>10
  <2>4. \A i \in DOMAIN placed' : placed'[i].basket = basket' => basket' \in doubtful'
    BY <1>1, <1>10
  <2> QED BY <1>11, <2>1, <2>2, <2>3, <2>4 DEF OnceInv
<1>13. CartOK' /\ FormOK(form') /\ busy' \in BOOLEAN
  BY <1>1 DEF CheckoutInv, CartOK
<1> QED BY <1>8, <1>12, <1>13 DEF CheckoutInv

LEMMA PlacedStep ==
    ASSUME CheckoutInv, NEW c \in creates, Placed(c)
    PROVE  CheckoutInv'
<1>1. /\ c.state = "done" /\ creates' = creates \ {c} /\ cart' = EmptyCart
      /\ basket' = basket + 1 /\ doubtful' = doubtful \cup Carts(creates \ {c})
      /\ lost' = (lost \/ cart.items \notin {NoItems, c.dto.items})
      /\ form' = NoForm /\ UNCHANGED placed
  BY DEF Placed
<1>2. basket \in Nat /\ \A d \in creates : d \in Requests /\ WellMeant(d)
  BY DEF CheckoutInv, OrdersOK
<1>3. \A i \in DOMAIN placed : placed[i] \in StoredOrders /\ WellMeant(placed[i])
  BY ElementOfSeq, LenProperties DEF CheckoutInv, OrdersOK
<1>4. \A i \in DOMAIN placed : placed[i].basket \in Nat /\ placed[i].basket <= basket
  BY <1>3 DEF StoredOrders, WellMeant
<1>5. \A d \in creates : d.basket \in Nat /\ d.basket <= basket
  BY <1>2 DEF Requests, WellMeant
<1>6. OrdersOK'
  <2>1. \A d \in creates' : WellMeant(d)'
    BY <1>1, <1>2, <1>5 DEF WellMeant
  <2>2. \A i \in DOMAIN placed' : WellMeant(placed[i])'
    BY <1>1, <1>2, <1>3, <1>4 DEF WellMeant
  <2> QED BY <1>1, <1>2, <2>1, <2>2 DEF CheckoutInv, OrdersOK
<1>7. \A d \in creates' : d.basket \in doubtful'
  BY <1>1 DEF Carts
<1>8. \A i \in DOMAIN placed' : placed'[i].basket # basket'
  BY <1>1, <1>2, <1>4
<1>9. CartOrderedOnce'
  <2>1. lost' => doubtful' # {}
    <3>1. c.basket \in doubtful \/ c.dto.items = cart.items
      BY DEF CheckoutInv, OnceInv
    <3>2. lost => doubtful # {}
      BY DEF CheckoutInv, OnceInv, CartOrderedOnce
    <3> QED BY <1>1, <3>1, <3>2
  <2> QED BY <1>1, <2>1 DEF CheckoutInv, OnceInv, CartOrderedOnce
<1>10. OnceInv'
  BY <1>7, <1>8, <1>9 DEF OnceInv
<1>11. CartOK'
  BY <1>1 DEF CartOK, EmptyCart, NoItems, Quantities, Orgs, OneSeller
<1>12. FormOK(form') /\ busy' \in BOOLEAN
  BY <1>1, NoFormOK DEF Placed, fetchMy
<1> QED BY <1>6, <1>10, <1>11, <1>12 DEF CheckoutInv

LEMMA RefusedStep ==
    ASSUME CheckoutInv, NEW c \in creates, Refused(c)
    PROVE  CheckoutInv'
<1>1. /\ c.state # "done" /\ creates' = creates \ {c} /\ busy' \in BOOLEAN
      /\ doubtful' = doubtful \cup Carts(creates \ {c})
      /\ UNCHANGED <<cart, page, form, placed, basket, lost>>
  BY DEF Refused
<1>2. \A d \in creates' : d \in Requests /\ WellMeant(d)' /\ d.basket \in doubtful'
  BY <1>1 DEF CheckoutInv, OrdersOK, WellMeant, Carts
<1>3. OrdersOK' /\ OnceInv'
  BY <1>1, <1>2, FewerOrders
<1>4. CartOK' /\ FormOK(form')
  BY <1>1 DEF CheckoutInv, CartOK
<1> QED BY <1>1, <1>3, <1>4 DEF CheckoutInv

LEMMA DisconnectStep ==
    ASSUME CheckoutInv, NEW c \in creates, Disconnect(c)
    PROVE  CheckoutInv'
<1> DEFINE e == [c EXCEPT !.heard = FALSE]
<1>1. /\ creates' \subseteq creates \cup {e} /\ busy' \in BOOLEAN
      /\ doubtful' = doubtful \cup Carts(creates)
      /\ UNCHANGED <<cart, page, form, placed, basket, lost>>
  BY DEF Disconnect
<1>2. c \in Requests /\ WellMeant(c)
  BY DEF CheckoutInv, OrdersOK
<1>3. e \in Requests /\ e.basket = c.basket /\ e.dto = c.dto /\ e.late = c.late
  BY <1>2 DEF Requests
<1> HIDE DEF e
<1>4. \A d \in creates' : d \in Requests /\ WellMeant(d)' /\ d.basket \in doubtful'
  BY <1>1, <1>2, <1>3 DEF CheckoutInv, OrdersOK, WellMeant, Carts
<1>5. \A d \in creates : d.basket \in doubtful'
  BY <1>1 DEF Carts
<1>6. OrdersOK' /\ OnceInv'
  BY <1>1, <1>4, <1>5, FewerOrders
<1>7. CartOK' /\ FormOK(form')
  BY <1>1 DEF CheckoutInv, CartOK
<1> QED BY <1>1, <1>6, <1>7 DEF CheckoutInv

\* The server stores an order, or refuses it.
LEMMA CreateStep ==
    ASSUME CheckoutInv, NEW c \in creates, Create(c)
    PROVE  CheckoutInv'
<1> DEFINE told(state) == [c EXCEPT !.state = state]
           order == [dto |-> c.dto, basket |-> c.basket, late |-> c.late]
<1>1. c \in Requests /\ WellMeant(c)
  BY DEF CheckoutInv, OrdersOK
<1>2. c.state = "sent" /\ UNCHANGED <<cart, page, form, busy, fetching, basket, doubtful, lost>>
  BY DEF Create
<1>3. ~\E p \in Goods : c.dto.items[p] > 0 /\ SellerOf[p] # c.dto.org
  BY <1>1 DEF WellMeant, OneSeller
<1>4. \/ /\ placed' = Append(placed, order)
         /\ creates' = (creates \ {c}) \cup IF c.heard THEN {told("done")} ELSE {}
      \/ /\ UNCHANGED placed
         /\ creates' = (creates \ {c}) \cup IF c.heard THEN {told("deleted")} ELSE {}
  BY <1>3 DEF Create
<1>5. \A state \in {"done", "deleted"} :
         /\ told(state) \in Requests /\ told(state).basket = c.basket /\ told(state).dto = c.dto
         /\ told(state).late = c.late /\ told(state).state = state /\ told(state).heard = c.heard
  BY <1>1 DEF Requests
<1>6. order \in StoredOrders /\ order.dto = c.dto /\ order.basket = c.basket /\ order.late = c.late
  BY <1>1 DEF Requests, StoredOrders
<1> HIDE DEF told, order
<1>7. PICK state \in {"done", "deleted"} :
        /\ creates' = (creates \ {c}) \cup IF c.heard THEN {told(state)} ELSE {}
        /\ \/ state = "done" /\ placed' = Append(placed, order)
           \/ state = "deleted" /\ UNCHANGED placed
  BY <1>4
<1> DEFINE t == told(state)
<1>8. /\ t \in Requests /\ t.basket = c.basket /\ t.dto = c.dto /\ t.late = c.late
      /\ t.state = state /\ t.heard = c.heard
  BY <1>5
<1>9. /\ \A d \in creates' : (d \in creates /\ d # c) \/ d = t
      /\ \A d \in creates : d # c => d \in creates'
      /\ c.heard => t \in creates'
  BY <1>7
<1> HIDE DEF t
<1>10. placed \in Seq(StoredOrders) /\ Len(placed) \in Nat /\ DOMAIN placed = 1..Len(placed)
  BY LenProperties DEF CheckoutInv, OrdersOK
<1>11. /\ placed' \in Seq(StoredOrders)
       /\ \A i \in DOMAIN placed' : \/ i \in DOMAIN placed /\ placed'[i] = placed[i]
                                    \/ i = Len(placed) + 1 /\ placed'[i] = order /\ state = "done"
  <2>1. CASE placed' = placed
    BY <1>10, <2>1
  <2>2. CASE state = "done" /\ placed' = Append(placed, order)
    <3>1. /\ placed' \in Seq(StoredOrders) /\ Len(placed') = Len(placed) + 1
          /\ \A i \in 1..Len(placed) : placed'[i] = placed[i]
          /\ placed'[Len(placed) + 1] = order
      BY <1>6, <1>10, <2>2, AppendProperties
    <3>2. DOMAIN placed' = 1..(Len(placed) + 1)
      BY <3>1, LenProperties
    <3> QED BY <1>10, <2>2, <3>1, <3>2
  <2> QED BY <1>7, <2>1, <2>2
<1>12. WellMeant(t) /\ WellMeant(order)
  BY <1>1, <1>6, <1>8 DEF WellMeant
<1>13. OrdersOK'
  BY <1>2, <1>8, <1>9, <1>11, <1>12 DEF CheckoutInv, OrdersOK, WellMeant
<1>14. OnceInv'
  <2>1. \A d \in creates' : d.basket \notin doubtful' =>
           (page = "checkout" /\ busy)' /\ d.heard /\ d.dto.items = cart'.items
    BY <1>2, <1>8, <1>9 DEF CheckoutInv, OnceInv
  <2>2. \A d, e \in creates' : d.basket = e.basket => d = e \/ d.basket \in doubtful'
    BY <1>2, <1>8, <1>9 DEF CheckoutInv, OnceInv
  <2>3. \A d \in creates' : \A i \in DOMAIN placed' :
          placed'[i].basket = d.basket => d.state = "done" \/ d.basket \in doubtful'
    <3> SUFFICES ASSUME NEW d \in creates', NEW i \in DOMAIN placed',
                        placed'[i].basket = d.basket, d.basket \notin doubtful
                 PROVE  d.state = "done"
      BY <1>2
    <3>1. CASE i \in DOMAIN placed /\ placed'[i] = placed[i]
      BY <1>2, <1>8, <1>9, <3>1 DEF CheckoutInv, OnceInv
    <3>2. CASE placed'[i] = order /\ state = "done"
      BY <1>6, <1>8, <1>9, <3>2 DEF CheckoutInv, OnceInv
    <3> QED BY <1>11, <3>1, <3>2
  <2>4. \A i \in DOMAIN placed' : placed'[i].basket = basket' =>
           basket' \in doubtful' \/ \E d \in creates' : d.basket = basket' /\ d.state = "done"
    <3> SUFFICES ASSUME NEW i \in DOMAIN placed', placed'[i].basket = basket,
                        basket \notin doubtful
                 PROVE  \E d \in creates' : d.basket = basket /\ d.state = "done"
      BY <1>2
    <3>1. CASE i \in DOMAIN placed /\ placed'[i] = placed[i]
      BY <1>2, <1>9, <3>1 DEF CheckoutInv, OnceInv
    <3>2. CASE placed'[i] = order /\ state = "done"
      <4>1. c.heard
        BY <1>6, <3>2 DEF CheckoutInv, OnceInv
      <4> QED BY <1>6, <1>8, <1>9, <3>2, <4>1
    <3> QED BY <1>11, <3>1, <3>2
  <2>5. CartOrderedOnce'
    <3>1. ASSUME NEW i \in DOMAIN placed, placed[i].basket = c.basket
          PROVE  c.basket \in doubtful
      BY <1>2, <3>1 DEF CheckoutInv, OnceInv
    <3>2. \A i, j \in DOMAIN placed' : placed'[i].basket = placed'[j].basket =>
             i = j \/ placed'[i].basket \in doubtful'
      BY <1>2, <1>6, <1>11, <3>1 DEF CheckoutInv, OnceInv, CartOrderedOnce
    <3> QED BY <1>2, <3>2 DEF CheckoutInv, OnceInv, CartOrderedOnce
  <2> QED BY <2>1, <2>2, <2>3, <2>4, <2>5 DEF OnceInv
<1>15. CartOK' /\ FormOK(form') /\ busy' \in BOOLEAN
  BY <1>2 DEF CheckoutInv, CartOK
<1> QED BY <1>13, <1>14, <1>15 DEF CheckoutInv

LEMMA StepCheckoutInv == CheckoutInv /\ [CheckoutNext]_checkoutVars => CheckoutInv'
<1> SUFFICES ASSUME CheckoutInv, [CheckoutNext]_checkoutVars
             PROVE  CheckoutInv'
  OBVIOUS
<1>1. CASE UNCHANGED checkoutVars
  BY <1>1 DEF checkoutVars, CheckoutInv, CartOK, OrdersOK, OnceInv, CartOrderedOnce, WellMeant
<1>2. CASE AddToCart \/ TakeOne
  BY <1>2, CartSteps
<1>3. CASE \E p \in {"shop", "checkout", "orders"} : Visit(p)
  BY <1>3, VisitStep
<1>4. CASE FetchMyAnswered
  BY <1>4, FetchMyStep
<1>5. CASE ReloadPage
  BY <1>5, ReloadStep
<1>6. CASE \/ TypeAddress \/ handleFindCoords \/ FindAnswered
           \/ handleDetectLocation \/ LocationAnswered
           \/ \E i \in DOMAIN form.asked : QuoteAnswered(i)
  <2>1. PICK f : FormOK(f) /\ OnForm(f)
    BY <1>6, FormSteps DEF CheckoutInv
  <2> QED BY <2>1, OnFormStep
<1>7. CASE handlePlaceOrder
  BY <1>7, PlaceStep
<1>8. CASE \E c \in creates : Create(c) \/ Placed(c) \/ Refused(c) \/ Disconnect(c)
  BY <1>8, CreateStep, PlacedStep, RefusedStep, DisconnectStep
<1> QED BY <1>1, <1>2, <1>3, <1>4, <1>5, <1>6, <1>7, <1>8 DEF CheckoutNext

LEMMA CheckoutInvHolds == CheckoutSpec => []CheckoutInv
BY InitCheckoutInv, StepCheckoutInv, PTL DEF CheckoutSpec

\* CartOrderedOnce: handlePlaceOrder() of CheckoutView.vue stores one order of a cart,
\* and clear() of the cart loses nothing, unless the client leaves the page, the
\* connection breaks, or another call of the store of the orders ends meanwhile.
THEOREM OrderedOnceTheorem == CheckoutSpec => []CartOrderedOnce
<1>1. CheckoutInv => CartOrderedOnce
  BY DEF CheckoutInv, OnceInv
<1> QED BY <1>1, CheckoutInvHolds, PTL

\* PlacedWhereAddressed: an order has the coordinates of its address, the fee that is
\* shown is that of these coordinates, and create() refuses no cart as mixed, in
\* whatever order the answers come, but for those named in the property.
THEOREM AddressedTheorem == CheckoutSpec => []PlacedWhereAddressed
<1>1. CheckoutInv => PlacedWhereAddressed
  <2> SUFFICES ASSUME CheckoutInv
               PROVE  PlacedWhereAddressed
    OBVIOUS
  <2>1. \A i \in DOMAIN placed :
           placed[i].dto.coords \in {None, placed[i].dto.address} \/ placed[i].late
    BY DEF CheckoutInv, OrdersOK, WellMeant
  <2>2. form.asked = <<>> => form.quote \in {NoQuote, form.coords} \/ form.overtaken
    BY DEF CheckoutInv, FormOK, QuoteFollows
  <2>3. \A c \in creates : c.state # "mixed"
    BY DEF CheckoutInv, OrdersOK, Requests
  <2> QED BY <2>1, <2>2, <2>3 DEF PlacedWhereAddressed
<1> QED BY <1>1, CheckoutInvHolds, PTL

-----------------------------------------------------------------------------
\* The application

\* A step of the application is one of its part, and of no other.
LEMMA PartsStep ==
    ASSUME [Next]_<<part, scheduleVars, shiftVars, checkoutVars, sessionVars, listVars,
                    deliveryVars, productVars, catalogueVars, sourceVars>>
    PROVE  /\ [ScheduleNext]_scheduleVars /\ [ShiftNext]_shiftVars
           /\ [CheckoutNext]_checkoutVars /\ [SessionNext]_sessionVars
           /\ [ListNext]_listVars /\ [DeliveriesNext]_deliveryVars
           /\ [ProductsNext]_productVars /\ [CatalogueNext]_catalogueVars
           /\ [SourcesNext]_sourceVars
BY DEF Next

\* What the parts promise holds in the application, whichever part takes steps.
THEOREM ApplicationTheorem ==
    Spec => [](/\ CalendarStaysApart /\ StoredApart
               /\ CartOrderedOnce /\ PlacedWhereAddressed
               /\ SessionKept /\ NoCallStranded
               /\ ListSettles /\ DeliveriesSettle
               /\ ImagesExist /\ SkusUnique /\ CatalogueSettles
               /\ SourcesHonest)
<1>1. Init => /\ ScheduleInit /\ ShiftInit /\ CheckoutInit /\ SessionInit /\ ListInit
              /\ DeliveriesInit /\ ProductsInit /\ CatalogueInit /\ SourcesInit
  BY DEF Init
<1>2. Spec => /\ ScheduleSpec /\ ShiftSpec /\ CheckoutSpec /\ SessionSpec /\ ListSpec
              /\ DeliveriesSpec /\ ProductsSpec /\ CatalogueSpec /\ SourcesSpec
  BY <1>1, PartsStep, PTL DEF Spec, ScheduleSpec, ShiftSpec, CheckoutSpec, SessionSpec,
     ListSpec, DeliveriesSpec, ProductsSpec, CatalogueSpec, SourcesSpec
<1> QED
  BY <1>2, CalendarTheorem, StoredApartTheorem, OrderedOnceTheorem, AddressedTheorem,
     SessionTheorem, StrandedTheorem, ListTheorem, DeliveriesTheorem, ImagesTheorem,
     SkusTheorem, CatalogueTheorem, SourcesTheorem, PTL

=============================================================================
