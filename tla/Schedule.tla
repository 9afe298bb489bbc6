------------------------------ MODULE Schedule ------------------------------
(***************************************************************************)
(* The calendar in which a courier sets the working hours of the week with  *)
(* the mouse: src/frontend/src/views/courier/MyScheduleView.vue.  Times are *)
(* in quarters of an hour, to which the mouse snaps: a schedule that was    *)
(* stored with other times is not one of the inputs.                        *)
(***************************************************************************)
EXTENDS Shifts, FiniteSets

CONSTANTS
    Days, WeekDays,  \* the days, and those the 9-to-5 preset fills
    DayEnd,          \* the end of the day, 1440 minutes
    ClickLength,     \* the 60 minutes a click without a drag gives
    PresetSlot,      \* [start, end] of the preset
    Stored,          \* the schedules the server can have
    MaxSlots         \* bound: no new slot by mouse beyond this many

Slot == [day : Days, start : 0..DayEnd, end : 0..DayEnd]

\* What is stored was accepted by setMyShifts, and no two saves have crossed.
ASSUME ScheduleConstants ==
    /\ Days \subseteq Int /\ WeekDays \subseteq Days /\ IsFiniteSet(WeekDays)
    /\ DayEnd \in Nat /\ ClickLength \in Nat
    /\ PresetSlot \in [start : 0..DayEnd, end : 0..DayEnd] /\ PresetSlot.start < PresetSlot.end
    /\ \A stored \in Stored :
          /\ stored \subseteq Slot /\ IsFiniteSet(stored)
          /\ \A s, t \in stored : s.start < s.end /\ (s = t \/ Apart(s, t))

Snap        == 1
MinDuration == 1

VARIABLES
    slots,    \* slots.value
    drag,     \* dragState, or NoDrag
    loadingShifts   \* the GET at the start has not been answered

scheduleVars == <<slots, drag, loadingShifts>>

NoDrag == [type |-> "none"]

ScheduleInit == slots = <<>> /\ drag = NoDrag /\ loadingShifts = TRUE

-----------------------------------------------------------------------------
\* The calendar

clamp(v, lo, hi) == LET low == IF v < hi THEN v ELSE hi IN IF low > lo THEN low ELSE lo

\* The free stretch of a day around anchor / 2, without slot i; empty where
\* another slot is.
findGap(day, i, anchor) ==
    LET neighbors == {k \in DOMAIN slots \ {i} : slots[k].day = day}
        ahead     == {k \in neighbors : anchor < 2 * slots[k].end}
        next      == CHOOSE k \in ahead : \A l \in ahead : ~Before(slots, l, k)
        behind    == IF ahead = {} THEN neighbors
                     ELSE {k \in neighbors : Before(slots, k, next)}
        last      == CHOOSE k \in behind : \A l \in behind : ~Before(slots, k, l)
    IN  IF ahead # {} /\ anchor >= 2 * slots[next].start
        THEN [start |-> 0, end |-> 0 - 1]
        ELSE [start |-> IF behind = {} THEN 0 ELSE slots[last].end,
              end |-> IF ahead = {} THEN DayEnd ELSE slots[next].start]

Width(gap) == gap.end - gap.start

Cursors == {Snap * k : k \in 0..(DayEnd \div Snap)}

Drag(type, i, slot, cursor) ==
    [type |-> type, slot |-> i, cursor |-> cursor, day |-> slot.day,
     start |-> slot.start, end |-> slot.end, isClick |-> type \in {"create", "move"}]

startCreate(day, cursor) ==
    LET gap   == findGap(day, 0, 2 * cursor)
        start == clamp(cursor, gap.start, gap.end - MinDuration)
        slot  == [day |-> day, start |-> start, end |-> start + MinDuration]
    IN
    /\ ~loadingShifts /\ drag = NoDrag /\ Len(slots) < MaxSlots
    /\ Width(gap) >= MinDuration
    /\ slots' = Append(slots, slot)
    /\ drag' = Drag("create", Len(slots) + 1, slot, cursor)
    /\ UNCHANGED loadingShifts

\* onSlotMouseDown: near an edge it resizes, elsewhere it moves.
onSlotMouseDown(i, type, cursor) ==
    /\ ~loadingShifts /\ drag = NoDrag
    /\ slots[i].start <= cursor /\ cursor <= slots[i].end
    /\ drag' = Drag(type, i, slots[i], cursor)
    /\ UNCHANGED <<slots, loadingShifts>>

\* What a move of the mouse makes of the slot that is dragged.
Created(gap, cursor) ==
    IF cursor < drag.start
    THEN LET start == clamp(cursor, gap.start, drag.start)
         IN  [day |-> drag.day, start |-> start,
              end |-> IF start + MinDuration > drag.start THEN start + MinDuration
                      ELSE drag.start]
    ELSE [day |-> drag.day, start |-> drag.start,
          end |-> clamp(cursor, drag.start + MinDuration, gap.end)]

Moved(slot, day, delta) ==
    LET duration == drag.end - drag.start
        wanted   == clamp(drag.start + delta, 0, DayEnd - duration)
        gap      == findGap(day, drag.slot, 2 * wanted + duration)
        start    == clamp(wanted, gap.start, gap.end - duration)
    IN  IF Width(gap) < duration THEN slot
        ELSE [day |-> day, start |-> start, end |-> start + duration]

\* Mutant: the upper edge is held by the length only.
TopUnheld(slot, delta) ==
    [slot EXCEPT !.start = clamp(drag.start + delta, 0, drag.end - MinDuration)]

ResizedTop(slot, delta) ==
    LET gap == findGap(slot.day, drag.slot, 2 * (drag.end - 1))
    IN  [slot EXCEPT !.start = clamp(drag.start + delta, gap.start, drag.end - MinDuration)]

ResizedBottom(slot, delta) ==
    LET gap == findGap(slot.day, drag.slot, 2 * drag.start)
    IN  [slot EXCEPT !.end = clamp(drag.end + delta, drag.start + MinDuration, gap.end)]

\* A move of three pixels or less can still cross the edge of a snap.
onMouseMove(cursor, day, near) ==
    LET delta == cursor - drag.cursor
        slot  == slots[drag.slot]
        gap   == findGap(drag.day, drag.slot, 2 * drag.start)
    IN
    /\ drag # NoDrag
    /\ near => day = drag.day /\ delta \in {0 - Snap, 0, Snap}
    /\ drag' = [drag EXCEPT !.isClick = @ /\ near]
    /\ slots' = [slots EXCEPT ![drag.slot] =
           CASE drag.type = "create"     -> Created(gap, cursor)
             [] drag.type = "move"       -> Moved(slot, day, delta)
             [] drag.type = "resize-top" -> ResizedTop(slot, delta)
             [] OTHER                    -> ResizedBottom(slot, delta)]
    /\ UNCHANGED loadingShifts

\* A click makes a slot of an hour, as far as there is room.
onMouseUp ==
    LET slot == slots[drag.slot]
        gap  == findGap(slot.day, drag.slot, 2 * slot.start)
    IN
    /\ drag # NoDrag
    /\ drag' = NoDrag
    /\ slots' = IF drag.type = "create" /\ drag.isClick
                THEN [slots EXCEPT ![drag.slot].end =
                         clamp(slot.start + ClickLength, slot.start + MinDuration, gap.end)]
                ELSE slots
    /\ UNCHANGED loadingShifts

removeSlot(i) ==
    /\ ~loadingShifts /\ drag = NoDrag
    /\ slots' = RemoveAt(slots, i)
    /\ UNCHANGED <<drag, loadingShifts>>

\* The buttons above the calendar are there while it loads, too.
applyWeekdayPreset ==
    /\ drag = NoDrag
    /\ slots' = SetToSeq({s \in ToSet(slots) : s.day \notin WeekDays}
                         \cup {[day |-> d, start |-> PresetSlot.start, end |-> PresetSlot.end] :
                                  d \in WeekDays})
    /\ UNCHANGED <<drag, loadingShifts>>

clearAll ==
    /\ drag = NoDrag
    /\ slots' = <<>>
    /\ UNCHANGED <<drag, loadingShifts>>

\* The answer replaces what was edited before it; when it fails, that stays.
Loaded ==
    /\ loadingShifts
    /\ loadingShifts' = FALSE
    /\ \/ \E stored \in Stored : slots' = SetToSeq(stored)
       \/ UNCHANGED slots
    /\ UNCHANGED drag

ScheduleNext ==
    \/ \E d \in Days, m \in Cursors : startCreate(d, m)
    \/ \E i \in DOMAIN slots, m \in Cursors, t \in {"move", "resize-top", "resize-bottom"} :
          onSlotMouseDown(i, t, m)
    \/ \E m \in Cursors, d \in Days, near \in BOOLEAN : onMouseMove(m, d, near)
    \/ onMouseUp
    \/ \E i \in DOMAIN slots : removeSlot(i)
    \/ applyWeekdayPreset
    \/ clearAll
    \/ Loaded

ScheduleSpec == ScheduleInit /\ [][ScheduleNext]_scheduleVars

-----------------------------------------------------------------------------
\* Properties

\* handleSave, which first runs validate().
CanSave == drag = NoDrag /\ NoOverlap(slots)

\* Whatever is done with the mouse, the slots of the calendar stay within their
\* days, a quarter of an hour long at least, and apart, also in the middle of a
\* drag: what is sent to the server is what setMyShifts accepts.
CalendarStaysApart ==
    /\ NoOverlap(slots)
    /\ \A s \in ToSet(slots) : /\ s.day \in Days /\ 0 <= s.start /\ s.end <= DayEnd
                               /\ s.end - s.start >= MinDuration
    /\ CanSave => validateSlots(slots)

=============================================================================
