----------------------------- MODULE BookingPage ----------------------------
(***************************************************************************)
(* The page a session is booked on, up to the payment page: the list of    *)
(* times it shows, the details step, the check that a person is there, and *)
(* the server's half of a checkout as far as the hold on the time.  What   *)
(* happens once the hold is taken is Checkout's; here it either leads to a *)
(* payment page or fails.                                                  *)
(*                                                                         *)
(* A tab is one open page.  Tabs of one browser share its cookie, and tabs *)
(* on one network its limit.  The clock counts minutes; a request carries  *)
(* the minute it came in, which the code goes on using while time passes.  *)
(***************************************************************************)
EXTENDS AvailabilityRules, FiniteSets

CONSTANTS
    None,                           \* the database's null
    Worlds,                         \* which tabs are open, what is typed, what may go wrong
    Tabs, BrowserOf, NetworkOf,     \* NetworkOf[t] = None: the address cannot be read
    Emails,
    PageTimes,                      \* when the sessions on sale may start
    Appointments,                   \* intervals the coach may take on the calendar
    PageHolds,                      \* ids of slot_holds rows, used in increasing order
    HoldMinutes, PageLag,           \* how long a hold and a list of times last
    MaxPerAddress, MaxLive,         \* MAX_LIVE_HOLDS_PER_ADDRESS, MAX_LIVE_HOLDS
    NoTab,
    LastMinute                      \* the clock stops here

ASSUME PageAssumption ==
    /\ PageTimes \subseteq Nat /\ PageHolds \subseteq Nat
    /\ IsFiniteSet(PageHolds)
    /\ Appointments \subseteq [from : Nat, to : Nat]
    /\ {HoldMinutes, PageLag, MaxPerAddress, MaxLive, LastMinute} \subseteq Nat
    /\ NoTab \notin Tabs /\ None \notin PageHolds

\* Every time that may be sold before the clock stops is there.
ASSUME TimesAssumption ==
    \A x \in Notice .. LastMinute + Horizon :
      FitsAWindow(x) /\ x + Duration <= LastMinute + Horizon => x \in PageTimes

VARIABLES
    world,      \* the world this behaviour is in
    minute,     \* the time
    diary,      \* since when each appointment is on the coach's calendar
    pageList,   \* the list of times kept between views, or being loaded
    panel,      \* each tab's page
    cookie,     \* each browser's booking cookie
    request,    \* each tab's request on the server
    pageHold,   \* rows of slot_holds
    limitsLock  \* who is counting and inserting holds

vars == <<world, minute, diary, pageList, panel, cookie, request, pageHold, limitsLock>>

Here(actor) == actor \in world

CheckOn == Here("person_check")

NoHold == [status |-> "none"]
NoRequest == [pc |-> "none"]
NoList == [state |-> "none", since |-> 0, times |-> {}]
BlankPanel == [at |-> "blank", step |-> "details", token |-> "none", widget |-> "working",
               shown |-> {}, asked |-> 0, hold |-> None]

\* A world begins before the pages are opened, or with the details already given.
Init ==
    /\ world \in Worlds
    /\ minute = 0
    /\ diary = [a \in Appointments |-> None]
    /\ pageList = NoList
    /\ panel = [t \in Tabs |->
          IF Here("details") \/ ~Here(t) THEN BlankPanel
          ELSE [BlankPanel EXCEPT !.at = "page", !.step = "slot", !.shown = PageTimes]]
    /\ cookie = [b \in {BrowserOf[t] : t \in Tabs} |->
          IF Here("details") THEN None ELSE [email |-> CHOOSE e \in Emails : Here(e), key |-> b]]
    /\ request = [t \in Tabs |-> NoRequest]
    /\ pageHold = [h \in PageHolds |-> NoHold]
    /\ limitsLock = NoTab

(***************************************************************************)
(* The list of times.  offeredSlots reads the calendar and then the holds. *)
(***************************************************************************)

\* Held, and its countdown still running by the clock given.
LiveHold(h, now) == pageHold[h].status = "held" /\ pageHold[h].until > now

Events == {a \in Appointments : diary[a] # None}

\* listAvailability, for a list asked for at an instant: the provider has its own clock.
FreeOnCalendar(from) ==
    LET query == [from |-> from, to |-> from + Horizon]
    IN  CandidateSlots(query, minute, BusyBetween(Events, query))

SameTime(h, x) == Overlap(Session(pageHold[h].time), Session(x))

WithoutHeld(times, now) == {x \in times : ~\E h \in PageHolds : LiveHold(h, now) /\ SameTime(h, x)}

OfferedSlots(now) == WithoutHeld(FreeOnCalendar(now), now)

\* holdSlot of the calendar's provider, up to the event it makes: a fresh look.
Accepts(x) == IsBookableSlot(x, minute, BusyBetween(Events, Around(x)))

\* stillBookable: the kept list, looked at against the clock once more.
StillBookable(times, now) == {x \in times : x >= now + Notice}

Shows(p, times) ==
    [p EXCEPT !.at = "page", !.shown = StillBookable(times, p.asked), !.asked = 0]

\* A version that counts from when the load ended.
FreshFromTheEnd == pageList.state = "ready" /\ pageList.ended + PageLag > minute

\* A loaded list serves for PageLag from the moment its load began.
Fresh == pageList.state = "ready" /\ pageList.since + PageLag > minute

\* A view takes a fresh list, joins the load under way, or begins one.
OpenPage(t) ==
    /\ Here(t) /\ panel[t].at = "blank"
    /\ LET p == [panel[t] EXCEPT !.asked = minute]
       IN  \/ /\ Fresh
              /\ panel' = [panel EXCEPT ![t] = Shows(p, pageList.times)]
              /\ UNCHANGED pageList
           \/ /\ ~Fresh
              /\ panel' = [panel EXCEPT ![t] = [p EXCEPT !.at = "waiting"]]
              /\ pageList' = IF pageList.state \in {"loading", "read"} THEN pageList
                             ELSE [state |-> "loading", since |-> minute, times |-> {}]
    /\ UNCHANGED <<world, minute, diary, cookie, request, pageHold, limitsLock>>

ReadCalendar ==
    /\ pageList.state = "loading"
    /\ pageList' = [pageList EXCEPT !.state = "read", !.times = FreeOnCalendar(pageList.since)]
    /\ UNCHANGED <<world, minute, diary, panel, cookie, request, pageHold, limitsLock>>

ToAllWaiting(answer(_)) ==
    panel' = [t \in Tabs |-> IF panel[t].at = "waiting" THEN answer(panel[t]) ELSE panel[t]]

FinishLoad ==
    /\ pageList.state = "read"
    /\ LET times == WithoutHeld(pageList.times, pageList.since)
           Answer(p) == Shows(p, times)
       IN  /\ pageList' = [state |-> "ready", since |-> pageList.since, times |-> times,
                           ended |-> minute]
           /\ ToAllWaiting(Answer)
    /\ UNCHANGED <<world, minute, diary, cookie, request, pageHold, limitsLock>>

\* A failure is told to whoever waited, and not kept.
LoadFails ==
    /\ Here("calendar_fails") /\ pageList.state \in {"loading", "read"}
    /\ LET Answer(p) == Shows(p, {}) IN ToAllWaiting(Answer)
    /\ pageList' = NoList
    /\ UNCHANGED <<world, minute, diary, cookie, request, pageHold, limitsLock>>

(***************************************************************************)
(* The person check in the page.  A token works once and does not last.    *)
(***************************************************************************)
OnPage(t) == panel[t].at \in {"page", "leaving"}

WaitingForCheck(t) == CheckOn /\ panel[t].token = "none"

\* The button: not while a request of its own runs, and not without a token.
CanContinue(t, step) ==
    /\ OnPage(t) /\ panel[t].step = step
    /\ request[t] = NoRequest
    /\ ~WaitingForCheck(t)

WidgetSolves(t) ==
    /\ CheckOn /\ OnPage(t) /\ panel[t].widget = "working"
    /\ panel' = [panel EXCEPT ![t].token = "fresh", ![t].widget = "solved"]
    /\ UNCHANGED <<world, minute, diary, pageList, cookie, request, pageHold, limitsLock>>

\* The service gets a new one by itself.
TokenExpires(t) ==
    /\ CheckOn /\ OnPage(t) /\ panel[t].token # "none"
    /\ panel' = [panel EXCEPT ![t].token = "none", ![t].widget = "working"]
    /\ UNCHANGED <<world, minute, diary, pageList, cookie, request, pageHold, limitsLock>>

\* renewChallenge, after any refusal: the token may have been spent.
Renewed(p) == IF CheckOn THEN [p EXCEPT !.token = "none", !.widget = "working"] ELSE p

\* The widget belongs to a step: the next one mounts its own.
AtStep(p, step) == [p EXCEPT !.step = step, !.token = "none", !.widget = "working"]

\* A token gone to the server may not be used again.
Sent(p) == IF CheckOn THEN [p EXCEPT !.token = "sent"] ELSE p

\* Anything but a clear yes is a no; the service may not be reached either.
PersonChecked(t, reached) == CheckOn => request[t].token = "fresh" /\ reached

(***************************************************************************)
(* The details.                                                            *)
(***************************************************************************)
SubmitDetails(t, e) ==
    /\ Here("details") /\ Here(e) /\ CanContinue(t, "details")
    /\ request' = [request EXCEPT ![t] =
          [pc |-> "details", email |-> e, lead |-> cookie[BrowserOf[t]],
           token |-> panel[t].token]]
    /\ panel' = [panel EXCEPT ![t] = Sent(@)]
    /\ UNCHANGED <<world, minute, diary, pageList, cookie, pageHold, limitsLock>>

\* currentOwnerKey: the key in the cookie as the request left, or a new one.
OwnerKey(t) == IF request[t].lead = None THEN t ELSE request[t].lead.key

\* captureLeadAction: the email says who the customer is, the key which browser.
CaptureLead(t) ==
    /\ request[t] # NoRequest /\ request[t].pc = "details"
    /\ LET lead == [email |-> request[t].email, key |-> OwnerKey(t)]
       IN  request' = [request EXCEPT ![t] =
             [pc |-> "captured", lead |-> IF PersonChecked(t, TRUE) THEN lead ELSE None]]
    /\ UNCHANGED <<world, minute, diary, pageList, panel, cookie, pageHold, limitsLock>>

\* The check, or the database, could not be reached.
CaptureFails(t) ==
    /\ Here("outage") /\ request[t] # NoRequest /\ request[t].pc = "details"
    /\ request' = [request EXCEPT ![t] = [pc |-> "captured", lead |-> None]]
    /\ UNCHANGED <<world, minute, diary, pageList, panel, cookie, pageHold, limitsLock>>

\* The answer sets the cookie and the page goes on to the times.
HearDetails(t) ==
    /\ request[t] # NoRequest /\ request[t].pc = "captured"
    /\ LET lead == request[t].lead
       IN  IF lead = None
           THEN panel' = [panel EXCEPT ![t] = Renewed(@)] /\ UNCHANGED cookie
           ELSE /\ panel' = [panel EXCEPT ![t] = AtStep(@, "slot")]
                /\ cookie' = [cookie EXCEPT ![BrowserOf[t]] = lead]
    /\ request' = [request EXCEPT ![t] = NoRequest]
    /\ UNCHANGED <<world, minute, diary, pageList, pageHold, limitsLock>>

\* The Edit button works while a checkout of this page is on its way, too.
Edit(t) ==
    /\ Here("details") /\ OnPage(t) /\ panel[t].step = "slot"
    /\ panel' = [panel EXCEPT ![t] = AtStep(@, "details")]
    /\ UNCHANGED <<world, minute, diary, pageList, cookie, request, pageHold, limitsLock>>

(***************************************************************************)
(* The checkout.                                                           *)
(***************************************************************************)

\* The customer picks a time the page shows and goes on.  The button works again
\* while the browser is on its way to the payment page.
Continue(t, x) ==
    /\ CanContinue(t, "slot") /\ x \in panel[t].shown
    /\ cookie[BrowserOf[t]] # None
    /\ request' = [request EXCEPT ![t] =
          [pc |-> "asked", time |-> x, lead |-> cookie[BrowserOf[t]],
           token |-> panel[t].token, now |-> minute, hold |-> None]]
    /\ panel' = [panel EXCEPT ![t] = Sent(@)]
    /\ UNCHANGED <<world, minute, diary, pageList, cookie, pageHold, limitsLock>>

At(t, pc) == request[t] # NoRequest /\ request[t].pc = pc
GoesTo(t, pc) == request' = [request EXCEPT ![t].pc = pc]

\* An answer that sends the browser nowhere, with the times left when it has them.
Refuse(t, times) ==
    request' = [request EXCEPT ![t] = [pc |-> "refused", times |-> times]]

\* Before any time is looked at or held.
CheckPerson(t) ==
    /\ At(t, "asked")
    /\ \E reached \in {TRUE, ~Here("outage")} :
         IF PersonChecked(t, reached) THEN GoesTo(t, "checked") ELSE Refuse(t, panel[t].shown)
    /\ UNCHANGED <<world, minute, diary, pageList, panel, cookie, pageHold, limitsLock>>

\* Fresh, never the page's list.
LookAtOffers(t) ==
    /\ At(t, "checked")
    /\ LET offered == OfferedSlots(request[t].now)
       IN  IF request[t].time \in offered THEN GoesTo(t, "offered") ELSE Refuse(t, offered)
    /\ UNCHANGED <<world, minute, diary, pageList, panel, cookie, pageHold, limitsLock>>

\* A version that goes by the typed email alone.
EarlierHoldsOf(t) ==
    {h \in PageHolds : /\ pageHold[h].status = "held"
                       /\ pageHold[h].lead.email = request[t].lead.email}

\* The unpaid holds this browser took for this person, given back first.
EarlierHolds(t) ==
    {h \in PageHolds : pageHold[h].status = "held" /\ pageHold[h].lead = request[t].lead}

\* What countLive counts, as the transaction sees it.
Counted(t) == {h \in PageHolds \ EarlierHolds(t) : LiveHold(h, request[t].now)}

WithinLimits(t) ==
    /\ NetworkOf[t] # None =>
         Cardinality({h \in Counted(t) : pageHold[h].network = NetworkOf[t]}) < MaxPerAddress
    /\ Cardinality(Counted(t)) < MaxLive

\* A version with no lock: two transactions count before either inserts.
MayCountAtOnce(t) == At(t, "offered")

\* pg_advisory_xact_lock.
MayCount(t) == At(t, "offered") /\ limitsLock = NoTab

\* Over a limit nothing stays changed: the holds given back come back.
CountHolds(t) ==
    /\ MayCount(t)
    /\ \/ WithinLimits(t) /\ GoesTo(t, "counted") /\ limitsLock' = t
       \/ ~WithinLimits(t) /\ Refuse(t, panel[t].shown) /\ UNCHANGED limitsLock
    /\ UNCHANGED <<world, minute, diary, pageList, panel, cookie, pageHold>>

\* The exclusion constraint covers a lapsed hold until the sweep has been.
Blocked(t) ==
    \E h \in PageHolds \ EarlierHolds(t) :
      pageHold[h].status = "held" /\ SameTime(h, request[t].time)

FreshPageHold(h) ==
    /\ pageHold[h].status = "none"
    /\ \A k \in PageHolds : pageHold[k].status = "none" => h <= k

NewHold(t) ==
    [status |-> "held", time |-> request[t].time, lead |-> request[t].lead,
     network |-> NetworkOf[t], until |-> request[t].now + HoldMinutes]

InsertHold(t) ==
    /\ At(t, "counted")
    /\ \/ /\ Blocked(t)
          /\ Refuse(t, OfferedSlots(minute))
          /\ UNCHANGED pageHold
       \/ /\ ~Blocked(t)
          /\ \E h \in PageHolds :
               /\ FreshPageHold(h)
               /\ pageHold' = [k \in PageHolds |->
                     IF k = h THEN NewHold(t)
                     ELSE IF k \in EarlierHolds(t) THEN [pageHold[k] EXCEPT !.status = "released"]
                     ELSE pageHold[k]]
               /\ request' = [request EXCEPT ![t].pc = "held", ![t].hold = h]
    /\ limitsLock' = NoTab
    /\ UNCHANGED <<world, minute, diary, pageList, panel, cookie>>

\* A transaction that gives holds back keeps their rows until it ends.
RowFree(h) == \A t \in Tabs : At(t, "counted") => h \notin EarlierHolds(t)

\* The order is written, if the hold still counts, and Stripe opens its page.
StartPayment(t) ==
    /\ At(t, "held") /\ LiveHold(request[t].hold, minute) /\ RowFree(request[t].hold)
    /\ GoesTo(t, "started")
    /\ UNCHANGED <<world, minute, diary, pageList, panel, cookie, pageHold, limitsLock>>

GiveHoldBack(h) ==
    /\ RowFree(h)
    /\ pageHold' = [pageHold EXCEPT ![h].status = IF @ = "held" THEN "released" ELSE @]

\* The coach has taken the time since it was offered, or its notice has begun: the
\* hold goes back.
CalendarRefuses(t) ==
    /\ At(t, "held") /\ ~Accepts(request[t].time)
    /\ GiveHoldBack(request[t].hold)
    /\ Refuse(t, OfferedSlots(minute))
    /\ UNCHANGED <<world, minute, diary, pageList, panel, cookie, limitsLock>>

\* The hold no longer counts, or something else fails: it goes back as well.
CheckoutFails(t) ==
    /\ At(t, "held") /\ (Here("outage") \/ ~LiveHold(request[t].hold, minute))
    /\ GiveHoldBack(request[t].hold)
    /\ Refuse(t, panel[t].shown)
    /\ UNCHANGED <<world, minute, diary, pageList, panel, cookie, limitsLock>>

\* The browser hears the answer, unless the page has gone.
HearCheckout(t) ==
    /\ At(t, "refused") \/ At(t, "started")
    /\ panel' = [panel EXCEPT ![t] =
          IF ~OnPage(t) THEN @
          ELSE IF At(t, "started") THEN [@ EXCEPT !.at = "leaving", !.hold = request[t].hold]
          ELSE [Renewed(@) EXCEPT !.shown = request[t].times]]
    /\ request' = [request EXCEPT ![t] = NoRequest]
    /\ UNCHANGED <<world, minute, diary, pageList, cookie, pageHold, limitsLock>>

Arrive(t) ==
    /\ panel[t].at = "leaving"
    /\ panel' = [panel EXCEPT ![t].at = "paying"]
    /\ UNCHANGED <<world, minute, diary, pageList, cookie, request, pageHold, limitsLock>>

\* The back button: a page restored with a spent token loads itself again.
GoBack(t) ==
    /\ Here("back") /\ panel[t].at = "paying" /\ request[t] = NoRequest
    /\ \/ panel' = [panel EXCEPT ![t] = BlankPanel]
       \/ ~CheckOn /\ panel' = [panel EXCEPT ![t].at = "page", ![t].hold = None]
    /\ UNCHANGED <<world, minute, diary, pageList, cookie, request, pageHold, limitsLock>>

(***************************************************************************)
(* The sweep, the coach and the clock.                                     *)
(***************************************************************************)
SweepExpires(h) ==
    /\ pageHold[h].status = "held" /\ pageHold[h].until <= minute /\ RowFree(h)
    /\ pageHold' = [pageHold EXCEPT ![h].status = "expired"]
    /\ UNCHANGED <<world, minute, diary, pageList, panel, cookie, request, limitsLock>>

CoachTakes(a) ==
    /\ Here("coach_takes") /\ diary[a] = None
    /\ diary' = [diary EXCEPT ![a] = minute]
    /\ UNCHANGED <<world, minute, pageList, panel, cookie, request, pageHold, limitsLock>>

MinutePasses ==
    /\ Here("minutes") /\ minute < LastMinute
    /\ minute' = minute + 1
    /\ UNCHANGED <<world, diary, pageList, panel, cookie, request, pageHold, limitsLock>>

TabStep(t) ==
    \/ OpenPage(t)
    \/ WidgetSolves(t) \/ TokenExpires(t)
    \/ (\E e \in Emails : SubmitDetails(t, e)) \/ CaptureLead(t) \/ CaptureFails(t)
    \/ HearDetails(t) \/ Edit(t)
    \/ (\E x \in PageTimes : Continue(t, x)) \/ CheckPerson(t) \/ LookAtOffers(t)
    \/ CountHolds(t) \/ InsertHold(t) \/ StartPayment(t)
    \/ CalendarRefuses(t) \/ CheckoutFails(t) \/ HearCheckout(t) \/ Arrive(t) \/ GoBack(t)

Next ==
    \/ \E t \in Tabs : TabStep(t)
    \/ ReadCalendar \/ FinishLoad \/ LoadFails
    \/ \E h \in PageHolds : SweepExpires(h)
    \/ \E a \in Appointments : CoachTakes(a)
    \/ MinutePasses

Spec == Init /\ [][Next]_vars

(***************************************************************************)
(* Properties.                                                             *)
(***************************************************************************)
RequestOK(t) ==
    \/ request[t] = NoRequest
    \/ request[t].pc \in {"details", "captured", "refused"}
    \/ /\ request[t].pc \in {"asked", "checked", "offered", "counted", "held", "started"}
       /\ request[t].time \in PageTimes /\ request[t].now \in 0 .. minute
       /\ request[t].pc \in {"held", "started"} => pageHold[request[t].hold].status # "none"

HoldOK(h) ==
    \/ pageHold[h] = NoHold
    \/ /\ pageHold[h].status \in {"held", "expired", "released"}
       /\ pageHold[h].time \in PageTimes /\ pageHold[h].until \in Nat

\* The types; only a transaction that has counted holds the lock, and a browser on
\* its way to pay, or there, has a hold.
TypeOK ==
    /\ minute \in 0 .. LastMinute
    /\ pageList.state \in {"none", "loading", "read", "ready"}
    /\ \A t \in Tabs :
         /\ RequestOK(t)
         /\ panel[t].shown \subseteq PageTimes
         /\ panel[t].at \in {"leaving", "paying"} => panel[t].hold \in PageHolds
         /\ At(t, "counted") <=> limitsLock = t
    /\ \A h \in PageHolds : HoldOK(h)

HeldNow == {h \in PageHolds : LiveHold(h, minute)}
HeldFrom(network) == {h \in HeldNow : pageHold[h].network = network}

\* However many checkouts count and take holds at once, and however old the clock
\* they count by, a person in one browser has one live unpaid hold, and no network
\* and no diary has more than its cap (slot-holds.ts:176).
HoldCapsKept ==
    /\ \A h, k \in HeldNow : pageHold[h].lead = pageHold[k].lead => h = k
    /\ Cardinality(HeldNow) <= MaxLive
    /\ \A t \in Tabs : NetworkOf[t] # None => Cardinality(HeldFrom(NetworkOf[t])) <= MaxPerAddress

\* The time behind an open payment page goes only when its countdown ends or when the
\* browser that took it has taken another for the same person: nobody who types the
\* same email takes it away, and nor does a checkout that is then refused
\* (slot-holds.ts:194).
PaymentPageIsLive ==
    \A t \in Tabs : panel[t].at = "paying" =>
      LET mine == pageHold[panel[t].hold]
      IN  \/ mine.status = "held" \/ mine.until <= minute
          \/ \E h \in PageHolds : h > panel[t].hold /\ pageHold[h].status # "none"
                                  /\ pageHold[h].lead = mine.lead

\* A list ends at the horizon, and an appointment that begins there is not on it:
\* of the times that end less than a buffer before it, nothing is promised.
AtTheHorizon(x) == x + Duration + Buffer > minute + Horizon

\* The list and the check are written twice and must agree: whatever the coach has on
\* the calendar, a start is listed just when the check made as it is held, on a read
\* of its own, would accept it, and no other start would pass (rules.ts:75,
\* availability.ts:17).
OffersAreAccepted ==
    LET offered == FreeOnCalendar(minute)
    IN  \A x \in minute .. minute + Horizon :
          ~AtTheHorizon(x) => (x \in offered <=> Accepts(x))

\* A list served from the one kept shows no time taken more than PageLag ago, however
\* long it took to load; a page that waited for a load, however long, is shown no time
\* taken before that load began (single-flight-cache.ts:42, availability.ts:44).  The
\* horizon is the one of the instant the list was asked for.
NoneTakenBefore(times, since) ==
    \A x \in times, a \in Appointments :
      diary[a] # None /\ ConflictsWithBusy(x, {a}) /\ x + Duration + Buffer <= since + Horizon
        => diary[a] >= since

ListsAreRecent ==
    \A t \in Tabs :
      panel'[t].at = "page" =>
        /\ panel[t].at = "blank" => NoneTakenBefore(panel'[t].shown, minute - PageLag + 1)
        /\ panel[t].at = "waiting" => NoneTakenBefore(panel'[t].shown, pageList.since)

PageLagIsBounded == [][ListsAreRecent]_vars
=============================================================================
