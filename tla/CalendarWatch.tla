--------------------------- MODULE CalendarWatch ---------------------------
(***************************************************************************)
(* The Outlook watch: each sweep compares the booked session with the      *)
(* coach's calendar and tells the desk of an event deleted or moved by     *)
(* hand.  The booking is read, the calendar is read, and then the booking  *)
(* is read again: a change in between is not the coach's doing, and the    *)
(* run says nothing.  An event restored from Deleted Items comes back      *)
(* under a new id, which the booking and its hold then follow.             *)
(***************************************************************************)
EXTENDS Rescheduling

VARIABLES
    watch,      \* what the run knows: the booking as first read, and what it found
    changed,    \* the booking changed since the run first read it
    alarms      \* the alarms raised, and whether the booking had changed by then

watchVars == <<watch, changed, alarms>>

NotWatching == [step |-> "idle"]

\* The columns listWatchedBookings selects.
Watched == [status |-> booking.status, event |-> booking.event,
            time |-> booking.time, moveDue |-> booking.moveDue]

\* listWatchedBookings: confirmed and not ended.  A booking flagged for a move is
\* watched once the move has been due for an hour, which may be now or not yet.
StartWatch ==
    /\ watch.step = "idle"
    /\ booking.status = "confirmed" /\ booking.event # None /\ booking.time >= hour
    /\ watch' = [step |-> "listed", read |-> Watched]
    /\ changed' = FALSE
    /\ UNCHANGED <<alarms, booking, holds>>

LiveAt(e, t) == calendar[e].status = "live" /\ calendar[e].time = t

\* restoredElsewhere: another live event at the booked time, with the booking's link.
RestoredAs(read) == {e \in EventIds \ {read.event} : LiveAt(e, read.time)}

\* findCalendarProblems
Finding(read) ==
    CASE LiveAt(read.event, read.time)             -> [kind |-> "fine", as |-> None]
      [] calendar[read.event].status = "live"      -> [kind |-> "moved", as |-> None]
      [] RestoredAs(read) # {}                     ->
           [kind |-> "restored", as |-> CHOOSE e \in RestoredAs(read) : TRUE]
      [] OTHER                                     -> [kind |-> "gone", as |-> None]

ReadCalendar ==
    /\ watch.step = "listed"
    /\ watch' = [step |-> "read", read |-> watch.read, found |-> Finding(watch.read)]
    /\ UNCHANGED <<changed, alarms, booking, holds>>

\* A version that only looks at whose event it was.
SameEvent(read) == read.status = booking.status /\ read.event = booking.event

\* anyBookingChanged: cancelled, moved, given another event, or flagged meanwhile.
Same(read) == read = Watched

\* Told to the desk, or dropped because the booking changed.
Judge ==
    /\ watch.step = "read" /\ watch.found.kind \in {"moved", "gone"}
    /\ alarms' = IF Same(watch.read) THEN alarms \cup {changed} ELSE alarms
    /\ watch' = NotWatching
    /\ changed' = FALSE
    /\ UNCHANGED <<booking, holds>>

\* adoptRestoredEvents: only where the booking still carries the id that was read.
Adopt ==
    /\ watch.step = "read" /\ watch.found.kind \in {"fine", "restored"}
    /\ IF watch.found.kind = "restored" /\ booking.status = "confirmed"
             /\ booking.event = watch.read.event
       THEN /\ booking' = [booking EXCEPT !.event = watch.found.as]
            /\ holds' = {IF h.event = watch.read.event
                         THEN [h EXCEPT !.event = watch.found.as] ELSE h : h \in holds}
       ELSE UNCHANGED <<booking, holds>>
    /\ watch' = NotWatching
    /\ changed' = FALSE
    /\ UNCHANGED alarms

\* The calendar cannot be read, or takes longer than the watch waits: nothing is
\* told and nothing is closed.
WatchGivesUp ==
    /\ watch.step = "listed"
    /\ watch' = NotWatching /\ changed' = FALSE
    /\ UNCHANGED <<alarms, booking, holds>>

(***************************************************************************)
(* The coach, at the calendar.                                             *)
(***************************************************************************)
CoachDeletes(e) ==
    /\ Here("coach")
    /\ calendar[e].status = "live"
    /\ calendar' = [calendar EXCEPT ![e].status = "gone"]
    /\ UNCHANGED mishaps

CoachMoves(e, t) ==
    /\ Here("coach") /\ mishaps < MaxMishaps
    /\ mishaps' = mishaps + 1
    /\ calendar[e].status = "live" /\ calendar[e].time # t
    /\ calendar' = [calendar EXCEPT ![e].time = t]

\* Out of Deleted Items, under the next id.
CoachRestores(e, f) ==
    /\ Here("coach")
    /\ calendar[e].status = "gone"
    /\ calendar[f].status = "none" /\ \A g \in EventIds : calendar[g].status = "none" => f <= g
    /\ calendar' = [calendar EXCEPT ![f] = [status |-> "live", time |-> calendar[e].time]]
    /\ UNCHANGED mishaps

WatchInit == watch = NotWatching /\ changed = FALSE /\ alarms = {}

WatchStep == StartWatch \/ ReadCalendar \/ Judge \/ Adopt \/ WatchGivesUp

\* Any step of the rest of the system, seen by the watch.
Noticing ==
    /\ changed' = (changed \/ (watch.step # "idle" /\ Watched' # Watched))
    /\ UNCHANGED <<watch, alarms>>
=============================================================================
