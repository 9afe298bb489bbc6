------------------------------ MODULE ShiftRows ------------------------------
(***************************************************************************)
(* The rows of one courier in courier_shifts, which setMyShifts() of        *)
(* src/backend/src/modules/shifts/shifts.service.ts replaces in a           *)
(* transaction, while the courier saves from another device too.  At the    *)
(* isolation level of the database, READ COMMITTED, a DELETE sees the rows  *)
(* that are committed when it begins.                                       *)
(***************************************************************************)
EXTENDS Shifts

CONSTANTS
    Devices,
    Payloads,   \* the schedules that are sent, as sequences of slots
    MaxSaves    \* bound: saves committed in all

ASSUME PayloadsAssumption == Payloads \subseteq Seq(ShiftSlotDto)

VARIABLES
    rows,      \* courier_shifts, as [id, slot], with the number of the save as id
    save,      \* the PUT of each device: its step, its slots, the rows it deletes
    saves,     \* how many saves were committed
    crossedSaves      \* history: a save was committed between the two steps of another

shiftVars == <<rows, save, saves, crossedSaves>>

NoSave == [pc |-> "idle", slots |-> <<>>, deletes |-> {}]

ShiftInit == rows = {} /\ save = [d \in Devices |-> NoSave] /\ saves = 0 /\ crossedSaves = FALSE

\* The request, if validateSlots finds nothing, and the DELETE.
DeleteRows(d, slots) ==
    /\ save[d] = NoSave /\ saves < MaxSaves
    /\ validateSlots(slots)
    /\ save' = [save EXCEPT ![d] = [pc |-> "insert", slots |-> slots, deletes |-> rows]]
    /\ UNCHANGED <<rows, saves, crossedSaves>>

\* INSERT and COMMIT.
Commit(d) ==
    LET inserted == {[id |-> saves + 1, slot |-> s] : s \in ToSet(save[d].slots)} IN
    /\ save[d].pc = "insert"
    /\ rows' = (rows \ save[d].deletes) \cup inserted
    /\ saves' = saves + 1
    /\ crossedSaves' = (crossedSaves \/ rows # save[d].deletes)
    /\ save' = [save EXCEPT ![d] = NoSave]

\* The transaction fails: the rows are as before.
RollBack(d) ==
    /\ save[d].pc = "insert"
    /\ save' = [save EXCEPT ![d] = NoSave]
    /\ UNCHANGED <<rows, saves, crossedSaves>>

ShiftNext ==
    \E d \in Devices :
        \/ \E slots \in Payloads : DeleteRows(d, slots)
        \/ Commit(d)
        \/ RollBack(d)

ShiftSpec == ShiftInit /\ [][ShiftNext]_shiftVars

\* The rows of a courier never overlap, unless two saves were under way at once:
\* each deletes only what it has seen, so the slots of both stay.
StoredApart ==
    ~crossedSaves => \A r, s \in rows : r = s \/ Apart(r.slot, s.slot)

=============================================================================
