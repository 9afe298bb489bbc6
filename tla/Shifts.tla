------------------------------- MODULE Shifts -------------------------------
(***************************************************************************)
(* Who is on shift: src/backend/src/modules/shifts/shifts.service.ts.      *)
(* A slot is [day, start, end], end excluded; the rows of the table are     *)
(* slots with their courier.                                                *)
(***************************************************************************)
EXTENDS Integers, Sequences, SequencesExt

\* What the PUT can send: SetShiftsDto.
ShiftSlotDto == [day : 0..6, start : 0..1439, end : 1..1440]

\* Slot i stands before slot j in the sorted list of their day; sort() is stable.
Before(slots, i, j) ==
    /\ slots[i].day = slots[j].day
    /\ \/ slots[i].start < slots[j].start
       \/ slots[i].start = slots[j].start /\ i < j

\* Slot j is the next in that list.
NextTo(slots, i, j) ==
    /\ Before(slots, i, j)
    /\ \A k \in DOMAIN slots : ~(Before(slots, i, k) /\ Before(slots, k, j))

\* Two slots that may both be in a schedule.
Apart(s, t) == s.day # t.day \/ s.end <= t.start \/ t.end <= s.start

\* Mutant: two slots of a day only have to begin apart.
StartsApart(slots) ==
    \A i, j \in DOMAIN slots : NextTo(slots, i, j) => slots[j].start > slots[i].start

\* No slot of a day, in the order of their beginnings, begins before the one
\* before it has ended.
NoOverlap(slots) ==
    \A i, j \in DOMAIN slots : NextTo(slots, i, j) => slots[j].start >= slots[i].end

validateSlots(slots) ==
    /\ \A s \in ToSet(slots) : s.start < s.end
    /\ NoOverlap(slots)

filterOnShiftCouriers(couriers, rows, day, minute) ==
    {c \in couriers :
        \/ \A r \in rows : r.courier # c
        \/ \E r \in rows : /\ r.courier = c
                           /\ r.slot.day = day
                           /\ r.slot.start <= minute /\ minute < r.slot.end}

=============================================================================
