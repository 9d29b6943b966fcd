-------------------------- MODULE ResourceBooking --------------------------
(***************************************************************************)
(* Bookings of one room: events with the room as an attendee.  Creating or *)
(* changing one looks for conflicts in the calendars of the owner, one     *)
(* calendar after the other, and stores the event afterwards.              *)
(*                                                                         *)
(* A booking takes one unit of time, from at to at + 1, and an event may   *)
(* be without the room, before the room is added or after it is taken      *)
(* off; recurring events, for which the whole span of the series is        *)
(* compared, are left out.                                                 *)
(***************************************************************************)
EXTENDS Integers, FiniteSets

CONSTANTS
    RbOwners,   \* users who book
    RbWorkers,  \* requests at work at the same time
    RbBookings, \* bookings
    RbTimes     \* when they may begin

ASSUME BookingAssumption == RbTimes \subseteq Nat

Calendars == RbOwners \X {"home", "work"}
Owner(cal) == cal[1]

VARIABLES
    rbRow,    \* the event of each booking, by booking
    rbWork,   \* by worker: the request and how far its check has come
    rbMet,    \* ghost: pairs of bookings with requests at the same time
    rbChanged \* ghost: bookings that an update changed

rbVars == <<rbRow, rbWork, rbMet, rbChanged>>

NoBooking == [on |-> "none"]
Kinds == {"confirmed", "cancelled", "roomless"}
RbIdle == [pc |-> "idle"]
Stands(b) == rbRow[b].on = "confirmed"
Does(w, rec) == rbWork' = [rbWork EXCEPT ![w] = rec]
Writes(b, row) == rbRow' = [rbRow EXCEPT ![b] = row]

\* The bookings that other requests are about.
UnderWay == {rbWork[v].b : v \in {v \in RbWorkers : rbWork[v] # RbIdle}}
Meets(b) == rbMet' = rbMet \cup {{b, c} : c \in UnderWay}

RbInit ==
    /\ rbRow = [b \in RbBookings |-> NoBooking]
    /\ rbWork = [w \in RbWorkers |-> RbIdle]
    /\ rbMet = {} /\ rbChanged = {}

-----------------------------------------------------------------------------
(* Which calendars are searched: those of the owner, and when an event is  *)
(* updated not the one it is in.                                           *)
OwnCalendarOnly(cal, new) == IF new THEN {cal} ELSE {}
Searched(cal, new) ==
    {c \in Calendars : Owner(c) = Owner(cal) /\ (new \/ c # cal)}

\* An event without the room is not checked.
ToSearch(on, cal, new) == IF on = "roomless" THEN {} ELSE Searched(cal, new)

(* create_event *)
BeginCreate(w, b, on, cal, at) ==
    /\ rbWork[w] = RbIdle /\ rbRow[b] = NoBooking /\ b \notin UnderWay
    /\ on \in {"confirmed", "roomless"}
    /\ Does(w, [pc |-> "search", b |-> b, todo |-> ToSearch(on, cal, TRUE),
                row |-> [on |-> on, cal |-> cal, at |-> at]])
    /\ Meets(b) /\ UNCHANGED <<rbRow, rbChanged>>

(* update_event: the event as it was read, with another time, with or      *)
(* without the room, with another status, or with none of these changed.   *)
BeginUpdate(w, b, on, at) ==
    /\ rbWork[w] = RbIdle /\ rbRow[b].on \in Kinds
    /\ Does(w, [pc |-> "search", b |-> b, todo |-> ToSearch(on, rbRow[b].cal, FALSE),
                row |-> [rbRow[b] EXCEPT !.on = on, !.at = at]])
    /\ Meets(b) /\ UNCHANGED <<rbRow, rbChanged>>

(* find_by_calendar: what is not deleted and touches the time, whatever    *)
(* its status.                                                             *)
Conflicts(c, row, b) ==
    {d \in RbBookings \ {b} :
        /\ rbRow[d].on \in {"confirmed", "cancelled"} /\ rbRow[d].cal = c
        /\ rbRow[d].at <= row.at + 1 /\ rbRow[d].at + 1 >= row.at}

(* _check_resource_conflicts, one calendar: a conflict ends the request. *)
Search(w, c) ==
    /\ rbWork[w].pc = "search" /\ c \in rbWork[w].todo
    /\ Does(w, IF Conflicts(c, rbWork[w].row, rbWork[w].b) # {} THEN RbIdle
               ELSE [rbWork[w] EXCEPT !.todo = @ \ {c}])
    /\ UNCHANGED <<rbRow, rbMet, rbChanged>>

(* insert_event or update_event, of the whole row; a row that was deleted  *)
(* meanwhile stays so.                                                     *)
Store(w) ==
    LET b == rbWork[w].b
    IN /\ rbWork[w].pc = "search" /\ rbWork[w].todo = {}
       /\ IF rbRow[b].on = "deleted" THEN UNCHANGED <<rbRow, rbChanged>>
          ELSE /\ Writes(b, rbWork[w].row)
               /\ rbChanged' = IF rbRow[b] \in {NoBooking, rbWork[w].row} THEN rbChanged
                               ELSE rbChanged \cup {b}
       /\ Does(w, RbIdle) /\ UNCHANGED rbMet

(* cancel_booking: the event is read, and written as cancelled. *)
BeginCancel(w, b) ==
    /\ rbWork[w] = RbIdle /\ Stands(b)
    /\ Does(w, [pc |-> "cancel", b |-> b, row |-> [rbRow[b] EXCEPT !.on = "cancelled"]])
    /\ Meets(b) /\ UNCHANGED <<rbRow, rbChanged>>

Cancel(w) ==
    /\ rbWork[w].pc = "cancel" /\ Does(w, RbIdle)
    /\ IF rbRow[rbWork[w].b].on = "deleted" THEN UNCHANGED rbRow
       ELSE Writes(rbWork[w].b, rbWork[w].row)
    /\ UNCHANGED <<rbMet, rbChanged>>

(* delete_event *)
Delete(b) ==
    /\ rbRow[b].on \in Kinds /\ Writes(b, [on |-> "deleted"])
    /\ UNCHANGED <<rbWork, rbMet, rbChanged>>

RbNext ==
    \/ \E w \in RbWorkers, b \in RbBookings :
          \/ \E on \in Kinds, at \in RbTimes :
                \/ \E cal \in Calendars : BeginCreate(w, b, on, cal, at)
                \/ BeginUpdate(w, b, on, at)
          \/ BeginCancel(w, b)
    \/ \E w \in RbWorkers :
          \/ \E c \in Calendars : Search(w, c)
          \/ Store(w) \/ Cancel(w)
    \/ \E b \in RbBookings : Delete(b)

RbSpec == RbInit /\ [][RbNext]_rbVars

-----------------------------------------------------------------------------
Doubled(b, c) == b # c /\ Stands(b) /\ Stands(c) /\ rbRow[b].at = rbRow[c].at

(* Two bookings of one owner stand at the same time only if their requests *)
(* overlapped, or if an update changed one (moved it, added the room,      *)
(* confirmed it again) within the calendar that holds both: a booking in   *)
(* another calendar of the owner is found, whatever the update, and one    *)
(* that is written again as it was read does not come back over its        *)
(* successor.                                                              *)
OwnerBooksOnce ==
    \A b, c \in RbBookings :
       Doubled(b, c) /\ Owner(rbRow[b].cal) = Owner(rbRow[c].cal)
       => {b, c} \in rbMet \/ (rbRow[b].cal = rbRow[c].cal /\ {b, c} \cap rbChanged # {})

(* book_resource: "The calendar module's conflict detection will prevent   *)
(* double-booking": a room is booked once, whoever books it.               *)
RoomBookedOnce == \A b, c \in RbBookings : ~Doubled(b, c)

(* What the code does not keep either (see the README): a change of a      *)
(* booking, alone, does not double it.                                     *)
UpdatesAreChecked == \A b, c \in RbBookings : Doubled(b, c) => {b, c} \in rbMet
=============================================================================
