------------------------------ MODULE Bookings ------------------------------
(***************************************************************************)
(* The calendar of the camper workshop (routes/camper_router.py): bookings *)
(* of a shared resource, a range of days each, and appointments, one slot  *)
(* each.  One active resource.  A handler reads in one step and commits in *)
(* another.                                                                *)
(***************************************************************************)
EXTENDS Integers, Rows

CONSTANTS Handlers,     \* requests in flight
          Bookings,     \* bound: rows of camper_resource_bookings
          Appointments, \* bound: rows of camper_appointments
          LastDay       \* bound: days, and slots, of the calendar

(* What the bounds have to satisfy: Desks assumes it of its instances. *)
BookingsAssumption == LastDay \in Nat \ {0}

VARIABLES booking, appt, moved, h
   \* moved: history, the appointments given another slot by hand

vars == <<booking, appt, moved, h>>

Days == 1 .. LastDay
NoSlot == 0
Idle == [op |-> "none"]
NoBooking == [status |-> "unused", first |-> 1, last |-> 1]
NoAppt == [status |-> "unused", slot |-> NoSlot, type |-> "walk_in"]

Init == /\ booking = [b \in Bookings |-> NoBooking]
        /\ appt = [a \in Appointments |-> NoAppt]
        /\ moved = {}
        /\ h = [p \in Handlers |-> Idle]

Active == {"scheduled", "in_use"}
Over == {"completed", "cancelled", "no_show"}

Finish(p, op) == h[p].op = op /\ h' = [h EXCEPT ![p] = Idle]
-----------------------------------------------------------------------------
(* Mutant: one that is in use is not in the way. *)
TakenOnlyScheduled(first, last) ==
    \E b \in Bookings : /\ booking[b].status = "scheduled"
                        /\ booking[b].first <= last /\ booking[b].last >= first

Taken(first, last) ==
    \E b \in Bookings : /\ booking[b].status \in Active
                        /\ booking[b].first <= last /\ booking[b].last >= first

(* create_resource_booking: nothing in these days, as read... *)
BookLoad(p, first, last) ==
    /\ h[p] = Idle
    /\ first <= last /\ ~Taken(first, last)
    /\ h' = [h EXCEPT ![p] = [op |-> "book", first |-> first, last |-> last]]
    /\ UNCHANGED <<booking, appt, moved>>

(* ...and the row is inserted. *)
BookCommit(p, b) ==
    /\ Finish(p, "book")
    /\ booking[b].status = "unused"
    /\ booking' = [booking EXCEPT ![b] = [status |-> "scheduled", first |-> h[p].first,
                                          last |-> h[p].last]]
    /\ UNCHANGED <<appt, moved>>

(* update_booking_status and cancel_resource_booking *)
BookingNext(s) == CASE s = "scheduled" -> {"in_use", "cancelled"}
                    [] s = "in_use" -> {"completed", "cancelled"}
                    [] OTHER -> {}

BookingLoad(p, b, s) ==
    /\ h[p] = Idle
    /\ s \in BookingNext(booking[b].status)
    /\ h' = [h EXCEPT ![p] = [op |-> "booking", id |-> b, to |-> s]]
    /\ UNCHANGED <<booking, appt, moved>>

BookingCommit(p) ==
    /\ Finish(p, "booking")
    /\ booking' = [booking EXCEPT ![h[p].id].status = h[p].to]
    /\ UNCHANGED <<appt, moved>>
-----------------------------------------------------------------------------
(* create_appointment: a booked one in a slot nobody has, as read; durations are not
   compared.  A walk-in waits. *)
ApptLoad(p, slot) ==
    /\ h[p] = Idle
    /\ \A a \in Appointments : /\ appt[a].type = "booked" /\ appt[a].slot = slot
                               => appt[a].status \in Over
    /\ h' = [h EXCEPT ![p] = [op |-> "appt", slot |-> slot]]
    /\ UNCHANGED <<booking, appt, moved>>

ApptCommit(p, a) ==
    /\ Finish(p, "appt")
    /\ appt[a].status = "unused"
    /\ appt' = [appt EXCEPT ![a] = [status |-> "scheduled", slot |-> h[p].slot, type |-> "booked"]]
    /\ UNCHANGED <<booking, moved>>

WalkIn(a) ==
    /\ appt[a].status = "unused"
    /\ appt' = [appt EXCEPT ![a] = [status |-> "waiting", slot |-> NoSlot, type |-> "walk_in"]]
    /\ UNCHANGED <<booking, moved, h>>

(* update_appointment: another slot, without a look at who has it, or none. *)
MoveLoad(p, a) ==
    /\ h[p] = Idle
    /\ appt[a].status # "unused"
    /\ h' = [h EXCEPT ![p] = [op |-> "move", id |-> a, seen |-> appt[a]]]
    /\ UNCHANGED <<booking, appt, moved>>

MoveCommit(p, slot) ==
    /\ Finish(p, "move")
    /\ appt' = [appt EXCEPT ![h[p].id] = Flushed(@, h[p].seen, [h[p].seen EXCEPT !.slot = slot])]
    /\ moved' = moved \cup {h[p].id}
    /\ UNCHANGED booking

(* update_appointment_status, and cancel_appointment, which only refuses two statuses. *)
ApptNext(s) == CASE s = "scheduled" -> {"waiting", "in_service", "cancelled", "no_show"}
                 [] s = "waiting" -> {"in_service", "cancelled", "no_show"}
                 [] s = "in_service" -> {"completed", "cancelled"}
                 [] s = "no_show" -> {"cancelled"} 
                 [] OTHER -> {}

StatusLoad(p, a, s) ==
    /\ h[p] = Idle
    /\ s \in ApptNext(appt[a].status)
    /\ h' = [h EXCEPT ![p] = [op |-> "status", id |-> a, to |-> s]]
    /\ UNCHANGED <<booking, appt, moved>>

StatusCommit(p) ==
    /\ Finish(p, "status")
    /\ appt' = [appt EXCEPT ![h[p].id].status = h[p].to]
    /\ UNCHANGED <<booking, moved>>

(* An error or a crash. *)
Abort(p) ==
    /\ h[p] # Idle
    /\ h' = [h EXCEPT ![p] = Idle]
    /\ UNCHANGED <<booking, appt, moved>>

Next ==
    \/ \E a \in Appointments : WalkIn(a)
    \/ \E p \in Handlers :
        \/ \E f, l \in Days : BookLoad(p, f, l)
        \/ \E b \in Bookings : BookCommit(p, b) \/ \E s \in {"in_use", "completed", "cancelled"} :
                                                      BookingLoad(p, b, s)
        \/ BookingCommit(p)
        \/ \E d \in Days : ApptLoad(p, d)
        \/ \E d \in Days \cup {NoSlot} : MoveCommit(p, d)
        \/ \E a \in Appointments : \/ ApptCommit(p, a) \/ MoveLoad(p, a)
                                   \/ \E s \in {"waiting", "in_service"} \cup Over : StatusLoad(p, a, s)
        \/ StatusCommit(p) \/ Abort(p)

Spec == Init /\ [][Next]_vars
-----------------------------------------------------------------------------
(* Every column holds what it may hold. *)
TypeOK ==
    /\ booking \in [Bookings -> [status : {"unused", "completed", "cancelled"} \cup Active,
                                 first : Days, last : Days]]
    /\ appt \in [Appointments -> [status : {"unused", "scheduled", "waiting", "in_service"} \cup Over,
                                  slot : Days \cup {NoSlot}, type : {"booked", "walk_in"}]]
    /\ moved \subseteq Appointments

(* One handler: "Rejects overlapping bookings", "already booked": no day of the resource
   and no slot of the book has two takers, however bookings are made, used, cancelled and
   made again.  Appointments moved by hand are not looked at, by the code or here.
   (create_resource_booking, create_appointment, update_booking_status.) *)
NoDoubleBooking ==
    /\ \A b, c \in Bookings :
          b # c /\ {booking[b].status, booking[c].status} \subseteq Active
          => booking[b].last < booking[c].first \/ booking[c].last < booking[b].first
    /\ \A a, c \in Appointments \ moved :
          a # c /\ appt[a].type = "booked" /\ appt[c].type = "booked" /\ appt[a].slot = appt[c].slot
          => appt[a].status \in Over \/ appt[c].status \in Over
=============================================================================
