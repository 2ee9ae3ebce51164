----------------------------- MODULE PageSafety ----------------------------
(***************************************************************************)
(* The promises of the booking page, for any number of tabs, browsers,     *)
(* networks, holds and minutes: the caps on unpaid holds are kept, the     *)
(* time behind an open payment page is not taken away, the list of times   *)
(* agrees with the check made as a time is held, and is never older than   *)
(* its lag.                                                                *)
(*                                                                         *)
(* The caps are kept because between a transaction's count and its insert  *)
(* the count stays true: nobody else is between the two (limitsLock), the  *)
(* clock and the other steps only take holds away, and a hold that counts  *)
(* now counted by the older clock of the request as well.                  *)
(*                                                                         *)
(* A payment page keeps its time because the one request that may give a   *)
(* hold back, its own, has ended when the page opens, and rows are used in *)
(* increasing order, so that what takes a hold's place comes after it.     *)
(***************************************************************************)
EXTENDS BookingPage, RulesAgree, FiniteSetTheorems

OnTheWay == {"asked", "checked", "offered", "counted", "held", "started"}

\* A request on its way, and a hold's row, with the fields they have.
Asking(r, latest) ==
    /\ r = [pc |-> r.pc, time |-> r.time, lead |-> r.lead, token |-> r.token,
            now |-> r.now, hold |-> r.hold]
    /\ r.now \in 0 .. latest
HeldRow(r) ==
    /\ r = [status |-> r.status, time |-> r.time, lead |-> r.lead, network |-> r.network,
            until |-> r.until]
    /\ r.until \in Nat

Shapes ==
    /\ minute \in Nat
    /\ request = [t \in Tabs |-> request[t]]
    /\ pageHold = [h \in PageHolds |-> pageHold[h]]
    /\ \A t \in Tabs, pc \in OnTheWay : At(t, pc) => Asking(request[t], minute)
    /\ \A h \in PageHolds : pageHold[h] = NoHold \/ HeldRow(pageHold[h])

\* Whoever has counted holds the lock, and what it counted is still so.
CountStands == \A t \in Tabs : At(t, "counted") => limitsLock = t /\ WithinLimits(t)

CapsInv == Shapes /\ CountStands /\ HoldCapsKept

LEMMA PageTypes ==
    /\ IsFiniteSet(PageHolds) /\ MaxLive \in Nat /\ MaxPerAddress \in Nat
    /\ HoldMinutes \in Nat /\ NoTab \notin Tabs
  BY PageAssumption DEF PageAssumption

-----------------------------------------------------------------------------
(* Steps that take holds away, or leave them alone. *)

HoldsOnlyGo ==
    /\ minute' \in Nat /\ minute <= minute'
    /\ pageHold' = [h \in PageHolds |-> pageHold'[h]]
    /\ \A h \in PageHolds : pageHold'[h] = NoHold \/ HeldRow(pageHold'[h])
    /\ \A h \in PageHolds : pageHold'[h] = pageHold[h] \/ pageHold'[h].status # "held"

LEMMA FewerCount ==
    ASSUME Shapes, HoldsOnlyGo
    PROVE  /\ HeldNow' \subseteq HeldNow
           /\ \A h \in HeldNow' : pageHold'[h] = pageHold[h]
  <1>1. \A h \in HeldNow' : pageHold'[h].status = "held" /\ pageHold'[h].until > minute'
                            /\ h \in PageHolds
    BY DEF HeldNow, LiveHold
  <1>2. \A h \in HeldNow' : pageHold'[h] = pageHold[h]
    BY <1>1 DEF HoldsOnlyGo
  <1>3. \A h \in HeldNow' : h \in HeldNow
    <2> TAKE h \in HeldNow'
    <2>1. pageHold[h].status = "held" /\ pageHold[h].until > minute' /\ h \in PageHolds
      BY <1>1, <1>2
    <2>2. pageHold[h].until \in Nat
      BY <2>1 DEF Shapes, HeldRow, NoHold
    <2>3. pageHold[h].until > minute
      BY <2>1, <2>2 DEF HoldsOnlyGo, Shapes
    <2>4. QED
      BY <2>1, <2>3 DEF HeldNow, LiveHold
  <1>4. QED
    BY <1>2, <1>3

LEMMA HeldIsFinite ==
    /\ IsFiniteSet(HeldNow)
    /\ \A n : IsFiniteSet(HeldFrom(n))
    /\ \A t \in Tabs : IsFiniteSet(Counted(t))
    /\ \A t \in Tabs : \A n : IsFiniteSet({h \in Counted(t) : pageHold[h].network = n})
  BY PageTypes, FS_Subset DEF HeldNow, HeldFrom, Counted

LEMMA OneMore ==
    ASSUME NEW S, NEW T, NEW x, IsFiniteSet(T), S \subseteq T \union {x}
    PROVE  /\ Cardinality(S) <= Cardinality(T) + 1
           /\ Cardinality(S) \in Nat /\ Cardinality(T) \in Nat
  <1>1. IsFiniteSet(T \union {x}) /\ Cardinality(T) \in Nat
        /\ Cardinality(T \union {x}) <= Cardinality(T) + 1
    BY FS_AddElement, FS_CardinalityType
  <1>2. IsFiniteSet(S) /\ Cardinality(S) <= Cardinality(T \union {x})
    BY <1>1, FS_Subset
  <1>3. Cardinality(S) \in Nat /\ Cardinality(T \union {x}) \in Nat
    BY <1>1, <1>2, FS_CardinalityType
  <1>4. QED
    BY <1>1, <1>2, <1>3

LEMMA CapsOutlast ==
    ASSUME Shapes, HoldCapsKept, HoldsOnlyGo
    PROVE  HoldCapsKept'
  <1>1. HeldNow' \subseteq HeldNow /\ \A h \in HeldNow' : pageHold'[h] = pageHold[h]
    BY FewerCount
  <1>2. \A h, k \in HeldNow' : pageHold'[h].lead = pageHold'[k].lead => h = k
    BY <1>1 DEF HoldCapsKept
  <1>3. Cardinality(HeldNow') <= MaxLive
    <2>1. Cardinality(HeldNow') <= Cardinality(HeldNow) /\ Cardinality(HeldNow) <= MaxLive
      BY <1>1, HeldIsFinite, FS_Subset DEF HoldCapsKept
    <2>2. Cardinality(HeldNow') \in Nat /\ Cardinality(HeldNow) \in Nat
      BY <1>1, HeldIsFinite, FS_Subset, FS_CardinalityType
    <2>3. QED
      BY <2>1, <2>2, PageTypes
  <1>4. ASSUME NEW t \in Tabs, NetworkOf[t] # None
        PROVE  Cardinality(HeldFrom(NetworkOf[t])') <= MaxPerAddress
    <2> DEFINE before == HeldFrom(NetworkOf[t])
               after == HeldFrom(NetworkOf[t])'
    <2>1. after \subseteq before
      BY <1>1 DEF HeldFrom
    <2>2. Cardinality(before) <= MaxPerAddress /\ IsFiniteSet(before)
      BY <1>4, HeldIsFinite DEF HoldCapsKept
    <2> HIDE DEF before, after
    <2>3. Cardinality(after) <= Cardinality(before) /\ IsFiniteSet(after)
      BY <2>1, <2>2, FS_Subset
    <2>4. Cardinality(after) \in Nat /\ Cardinality(before) \in Nat
      BY <2>2, <2>3, FS_CardinalityType
    <2>5. Cardinality(after) <= MaxPerAddress
      BY <2>2, <2>3, <2>4, PageTypes
    <2>6. QED
      BY <2>5 DEF after
  <1>5. QED
    BY <1>2, <1>3, <1>4 DEF HoldCapsKept

LEMMA CountOutlasts ==
    ASSUME Shapes, HoldsOnlyGo, NEW t \in Tabs, At(t, "counted"), WithinLimits(t),
           request'[t] = request[t]
    PROVE  WithinLimits(t)'
  <1>1. Counted(t)' \subseteq Counted(t) /\ \A h \in Counted(t)' : pageHold'[h] = pageHold[h]
    <2> SUFFICES ASSUME NEW h \in Counted(t)'
                 PROVE  h \in Counted(t) /\ pageHold'[h] = pageHold[h]
      OBVIOUS
    <2>1. /\ h \in PageHolds /\ pageHold'[h].status = "held"
          /\ pageHold'[h].until > request[t].now /\ pageHold'[h].lead # request[t].lead
      BY DEF Counted, EarlierHolds, LiveHold
    <2>2. pageHold'[h] = pageHold[h]
      BY <2>1 DEF HoldsOnlyGo
    <2>3. QED
      BY <2>1, <2>2 DEF Counted, EarlierHolds, LiveHold
  <1> DEFINE Seen(n) == {h \in Counted(t) : pageHold[h].network = n}
  <1>2. Cardinality(Counted(t)') \in Nat /\ Cardinality(Counted(t)') <= Cardinality(Counted(t))
        /\ Cardinality(Counted(t)) \in Nat
    BY <1>1, HeldIsFinite, FS_Subset, FS_CardinalityType
  <1>3. \A n : Cardinality(Seen(n)') \in Nat /\ Cardinality(Seen(n)') <= Cardinality(Seen(n))
              /\ Cardinality(Seen(n)) \in Nat
    <2> TAKE n
    <2> DEFINE before == Seen(n)
               after == Seen(n)'
    <2>1. after \subseteq before
      BY <1>1
    <2>2. IsFiniteSet(before)
      BY HeldIsFinite
    <2> HIDE DEF before, after
    <2>3. Cardinality(after) \in Nat /\ Cardinality(after) <= Cardinality(before)
          /\ Cardinality(before) \in Nat
      BY <2>1, <2>2, FS_Subset, FS_CardinalityType
    <2>4. QED
      BY <2>3 DEF before, after
  <1>4. Cardinality(Counted(t)') < MaxLive
    BY <1>2, PageTypes DEF WithinLimits
  <1>5. NetworkOf[t] # None => Cardinality(Seen(NetworkOf[t])') < MaxPerAddress
    <2>1. NetworkOf[t] # None => Cardinality(Seen(NetworkOf[t])) < MaxPerAddress
      BY DEF WithinLimits
    <2> HIDE DEF Seen
    <2>2. QED
      BY <1>3, <2>1, PageTypes
  <1>6. QED
    BY <1>4, <1>5 DEF WithinLimits

\* A step that leaves the requests alone.
LEMMA OtherSteps ==
    ASSUME CapsInv, HoldsOnlyGo, request' = request, limitsLock' = limitsLock
    PROVE  CapsInv'
  <1> USE DEF CapsInv
  <1>1. Shapes'
    <2>1. \A t \in Tabs, pc \in OnTheWay : At(t, pc)' => Asking(request'[t], minute')
      BY DEF Shapes, HoldsOnlyGo, At, Asking
    <2>2. QED
      BY <2>1 DEF Shapes, HoldsOnlyGo
  <1>2. CountStands'
    BY CountOutlasts DEF CountStands, At
  <1>3. HoldCapsKept'
    BY CapsOutlast
  <1>4. QED
    BY <1>1, <1>2, <1>3

\* A step of one request that does not count; if it had counted it lets go of the lock.
LEMMA RequestSteps ==
    ASSUME CapsInv, HoldsOnlyGo, NEW t \in Tabs, NEW r,
           request' = [request EXCEPT ![t] = r],
           limitsLock' = limitsLock \/ limitsLock = t,
           \/ r = NoRequest
           \/ r.pc \notin OnTheWay
           \/ r.pc # "counted" /\ Asking(r, minute')
    PROVE  CapsInv'
  <1> USE DEF CapsInv
  <1>1. request'[t] = r /\ (\A u \in Tabs : u # t => request'[u] = request[u])
        /\ request' = [u \in Tabs |-> request'[u]]
    BY DEF Shapes
  <1>2. Shapes'
    <2>1. ASSUME NEW u \in Tabs, NEW pc \in OnTheWay, At(u, pc)'
          PROVE  Asking(request'[u], minute')
      <3>1. CASE u = t
        BY <1>1, <2>1, <3>1 DEF At
      <3>2. CASE u # t
        BY <1>1, <2>1, <3>2 DEF Shapes, HoldsOnlyGo, At, Asking
      <3>3. QED
        BY <3>1, <3>2
    <2>2. QED
      BY <1>1, <2>1 DEF Shapes, HoldsOnlyGo
  <1>3. CountStands'
    <2> SUFFICES ASSUME NEW u \in Tabs, At(u, "counted")'
                 PROVE  limitsLock' = u /\ WithinLimits(u)'
      BY DEF CountStands
    <2>1. u # t
      BY <1>1 DEF At, OnTheWay
    <2>2. request'[u] = request[u] /\ At(u, "counted")
      BY <1>1, <2>1 DEF At
    <2>3. limitsLock = u /\ WithinLimits(u)
      BY <2>2 DEF CountStands
    <2>4. QED
      BY <2>1, <2>2, <2>3, CountOutlasts
  <1>4. HoldCapsKept'
    BY CapsOutlast
  <1>5. QED
    BY <1>2, <1>3, <1>4

-----------------------------------------------------------------------------
(* Counting, and inserting. *)

LEMMA Counting ==
    ASSUME CapsInv, NEW t \in Tabs, MayCount(t), WithinLimits(t), GoesTo(t, "counted"),
           limitsLock' = t, UNCHANGED <<minute, pageHold>>
    PROVE  CapsInv'
  <1> USE DEF CapsInv
  <1>1. At(t, "offered") /\ limitsLock = NoTab /\ Asking(request[t], minute)
    BY DEF MayCount, Shapes, OnTheWay
  <1>2. /\ request'[t] = [request[t] EXCEPT !.pc = "counted"]
        /\ \A u \in Tabs : u # t => request'[u] = request[u]
        /\ request' = [u \in Tabs |-> request'[u]]
    BY DEF GoesTo, Shapes
  <1>3. Asking(request'[t], minute') /\ request'[t].lead = request[t].lead
        /\ request'[t].now = request[t].now
    BY <1>1, <1>2 DEF Asking
  <1>4. Shapes'
    <2>1. ASSUME NEW u \in Tabs, NEW pc \in OnTheWay, At(u, pc)'
          PROVE  Asking(request'[u], minute')
      BY <1>2, <1>3, <2>1 DEF Shapes, At
    <2>2. QED
      BY <1>2, <2>1 DEF Shapes
  <1>5. CountStands'
    <2> SUFFICES ASSUME NEW u \in Tabs, At(u, "counted")'
                 PROVE  limitsLock' = u /\ WithinLimits(u)'
      BY DEF CountStands
    <2>1. CASE u = t
      <3>1. Counted(t)' = Counted(t)
        BY <1>3 DEF Counted, EarlierHolds, LiveHold
      <3>2. QED
        BY <2>1, <3>1 DEF WithinLimits
    <2>2. CASE u # t
      <3>1. At(u, "counted")
        BY <1>2, <2>2 DEF At
      <3>2. limitsLock = u
        BY <3>1 DEF CountStands
      <3>3. QED
        BY <1>1, <3>2, PageTypes
    <2>3. QED
      BY <2>1, <2>2
  <1>6. HoldCapsKept'
    BY DEF HoldCapsKept, HeldNow, HeldFrom, LiveHold
  <1>7. QED
    BY <1>4, <1>5, <1>6

Inserted(t, h) ==
    pageHold' = [k \in PageHolds |->
       IF k = h THEN NewHold(t)
       ELSE IF k \in EarlierHolds(t) THEN [pageHold[k] EXCEPT !.status = "released"]
       ELSE pageHold[k]]

LEMMA Inserting ==
    ASSUME CapsInv, NEW t \in Tabs, At(t, "counted"), NEW h \in PageHolds, Inserted(t, h),
           request' = [request EXCEPT ![t].pc = "held", ![t].hold = h],
           limitsLock' = NoTab, UNCHANGED minute
    PROVE  CapsInv'
  <1> USE DEF CapsInv
  <1>1. Asking(request[t], minute) /\ minute \in Nat /\ WithinLimits(t) /\ limitsLock = t
    BY DEF Shapes, OnTheWay, CountStands
  <1>2. /\ request'[t] = [request[t] EXCEPT !.pc = "held", !.hold = h]
        /\ \A u \in Tabs : u # t => request'[u] = request[u]
        /\ request' = [u \in Tabs |-> request'[u]]
    BY DEF Shapes
  <1>3. Asking(request'[t], minute') /\ request'[t].pc = "held"
    BY <1>1, <1>2 DEF Asking
  <1>4. /\ pageHold'[h] = NewHold(t)
        /\ \A k \in EarlierHolds(t) : k # h => pageHold'[k].status = "released"
        /\ \A k \in PageHolds : k # h /\ k \notin EarlierHolds(t) => pageHold'[k] = pageHold[k]
        /\ pageHold' = [k \in PageHolds |-> pageHold'[k]]
    <2>1. \A k \in EarlierHolds(t) : k \in PageHolds /\ HeldRow(pageHold[k])
      BY DEF EarlierHolds, Shapes, NoHold
    <2>2. \A k \in EarlierHolds(t) : [pageHold[k] EXCEPT !.status = "released"].status = "released"
      BY <2>1 DEF HeldRow
    <2>3. QED
      BY <2>1, <2>2 DEF Inserted
  <1>5. HeldRow(NewHold(t))
    BY <1>1, PageTypes DEF NewHold, HeldRow, Asking
  <1>6. Shapes'
    <2>1. ASSUME NEW u \in Tabs, NEW pc \in OnTheWay, At(u, pc)'
          PROVE  Asking(request'[u], minute')
      BY <1>2, <1>3, <2>1 DEF Shapes, At
    <2>2. ASSUME NEW k \in PageHolds
          PROVE  pageHold'[k] = NoHold \/ HeldRow(pageHold'[k])
      <3>1. CASE k = h
        BY <1>4, <1>5, <3>1
      <3>2. CASE k # h /\ k \in EarlierHolds(t)
        <4>1. HeldRow(pageHold[k]) /\ pageHold'[k] = [pageHold[k] EXCEPT !.status = "released"]
          BY <3>2 DEF Inserted, Shapes, EarlierHolds, NoHold
        <4>2. QED
          BY <4>1 DEF HeldRow
      <3>3. CASE k # h /\ k \notin EarlierHolds(t)
        BY <1>4, <3>3 DEF Shapes
      <3>4. QED
        BY <3>1, <3>2, <3>3
    <2>3. QED
      BY <1>1, <1>2, <1>4, <2>1, <2>2 DEF Shapes
  <1>7. CountStands'
    <2> SUFFICES ASSUME NEW u \in Tabs, At(u, "counted")' PROVE FALSE
      BY DEF CountStands
    <2>1. u # t
      BY <1>3 DEF At
    <2>2. At(u, "counted")
      BY <1>2, <2>1 DEF At
    <2>3. QED
      BY <1>1, <2>1, <2>2 DEF CountStands
  \* What is live afterwards was counted, except for the new hold.
  <1>8. ASSUME NEW k \in HeldNow', k # h
        PROVE  /\ k \in Counted(t) /\ k \in HeldNow /\ pageHold'[k] = pageHold[k]
               /\ pageHold[k].lead # request[t].lead
    <2>1. k \in PageHolds /\ pageHold'[k].status = "held" /\ pageHold'[k].until > minute
      BY DEF HeldNow, LiveHold
    <2>2. k \notin EarlierHolds(t)
      BY <1>4, <1>8, <2>1
    <2>3. pageHold'[k] = pageHold[k]
      BY <1>4, <1>8, <2>1, <2>2
    <2>4. pageHold[k].until > request[t].now
      <3>1. pageHold[k].until \in Nat /\ request[t].now \in 0 .. minute
        BY <1>1, <2>1, <2>3 DEF Shapes, HeldRow, Asking, NoHold
      <3>2. QED
        BY <1>1, <2>1, <2>3, <3>1
    <2>5. QED
      BY <2>1, <2>2, <2>3, <2>4 DEF Counted, EarlierHolds, LiveHold, HeldNow
  <1>9. HoldCapsKept'
    <2>1. ASSUME NEW k \in HeldNow', NEW l \in HeldNow', pageHold'[k].lead = pageHold'[l].lead
          PROVE  k = l
      <3>1. pageHold'[h].lead = request[t].lead
        BY <1>4 DEF NewHold
      <3>2. k = h <=> l = h
        BY <1>8, <2>1, <3>1
      <3>3. QED
        BY <1>8, <2>1, <3>2 DEF HoldCapsKept
    <2>2. Cardinality(HeldNow') <= MaxLive
      <3>1. HeldNow' \subseteq Counted(t) \union {h}
        BY <1>8
      <3>2. IsFiniteSet(Counted(t))
        BY HeldIsFinite
      <3>3. Cardinality(HeldNow') <= Cardinality(Counted(t)) + 1
            /\ Cardinality(HeldNow') \in Nat /\ Cardinality(Counted(t)) \in Nat
        BY <3>1, <3>2, OneMore
      <3>4. Cardinality(Counted(t)) < MaxLive
        BY <1>1 DEF WithinLimits
      <3>5. QED
        BY <3>3, <3>4, PageTypes
    <2>3. ASSUME NEW u \in Tabs, NetworkOf[u] # None
          PROVE  Cardinality(HeldFrom(NetworkOf[u])') <= MaxPerAddress
      <3> DEFINE n == NetworkOf[u]
                 after == HeldFrom(n)'
                 seen == {k \in Counted(t) : pageHold[k].network = n}
      <3>1. CASE NetworkOf[t] = n
        <4>1. after \subseteq seen \union {h}
          BY <1>8 DEF HeldFrom
        <4>2. IsFiniteSet(seen)
          BY HeldIsFinite
        <4>3. Cardinality(seen) < MaxPerAddress
          BY <1>1, <2>3, <3>1 DEF WithinLimits
        <4> HIDE DEF after, seen
        <4>4. Cardinality(after) <= Cardinality(seen) + 1
              /\ Cardinality(after) \in Nat /\ Cardinality(seen) \in Nat
          BY <4>1, <4>2, OneMore
        <4>5. Cardinality(after) <= MaxPerAddress
          BY <4>3, <4>4, PageTypes
        <4>6. QED
          BY <4>5 DEF after
      <3>2. CASE NetworkOf[t] # n
        <4> DEFINE before == HeldFrom(n)
        <4>1. pageHold'[h].network # n
          BY <1>4, <3>2 DEF NewHold
        <4>2. after \subseteq before
          BY <1>8, <4>1 DEF HeldFrom
        <4>3. IsFiniteSet(before) /\ Cardinality(before) <= MaxPerAddress
          BY <2>3, HeldIsFinite DEF HoldCapsKept
        <4> HIDE DEF after, before
        <4>4. Cardinality(after) <= Cardinality(before)
              /\ Cardinality(after) \in Nat /\ Cardinality(before) \in Nat
          BY <4>2, <4>3, FS_Subset, FS_CardinalityType
        <4>5. Cardinality(after) <= MaxPerAddress
          BY <4>3, <4>4, PageTypes
        <4>6. QED
          BY <4>5 DEF after
      <3>3. QED
        BY <3>1, <3>2
    <2>4. QED
      BY <2>1, <2>2, <2>3 DEF HoldCapsKept
  <1>10. QED
    BY <1>6, <1>7, <1>9

-----------------------------------------------------------------------------
(* Every step. *)

LEMMA CapsAtFirst == Init => CapsInv
  <1> SUFFICES ASSUME Init PROVE CapsInv
    OBVIOUS
  <1>1. \A t \in Tabs, pc \in OnTheWay : ~At(t, pc)
    BY DEF Init, At
  <1>2. \A h \in PageHolds : pageHold[h].status = "none"
    BY DEF Init, NoHold
  <1>3. HeldNow = {} /\ \A n : HeldFrom(n) = {}
    BY <1>2 DEF HeldNow, HeldFrom, LiveHold
  <1>4. Shapes
    BY <1>1, <1>2 DEF Shapes, Init
  <1>5. CountStands
    BY <1>1 DEF CountStands, OnTheWay
  <1>6. HoldCapsKept
    <2>1. Cardinality({}) = 0
      BY FS_EmptySet
    <2>2. QED
      BY <1>3, <2>1, PageTypes DEF HoldCapsKept
  <1>7. QED
    BY <1>4, <1>5, <1>6 DEF CapsInv

LEMMA NothingGoes ==
    ASSUME Shapes, UNCHANGED <<minute, pageHold>>
    PROVE  HoldsOnlyGo
  BY DEF Shapes, HoldsOnlyGo

LEMMA GivingBack ==
    ASSUME Shapes, NEW h, GiveHoldBack(h), UNCHANGED minute
    PROVE  HoldsOnlyGo
  <1>0. CASE h \notin PageHolds
    BY <1>0, NothingGoes DEF GiveHoldBack, Shapes
  <1> SUFFICES ASSUME h \in PageHolds PROVE HoldsOnlyGo
    BY <1>0
  <1>1. pageHold' = [k \in PageHolds |-> pageHold'[k]]
        /\ \A k \in PageHolds : k # h => pageHold'[k] = pageHold[k]
    BY DEF GiveHoldBack, Shapes
  <1>2. CASE pageHold[h] = NoHold
    <2>1. pageHold'[h] = pageHold[h]
      BY <1>2 DEF GiveHoldBack, Shapes, NoHold
    <2>2. QED
      BY <1>1, <2>1 DEF HoldsOnlyGo, Shapes
  <1>3. CASE HeldRow(pageHold[h])
    <2>1. pageHold'[h] = [pageHold[h] EXCEPT !.status = IF @ = "held" THEN "released" ELSE @]
      BY DEF GiveHoldBack, Shapes
    <2>2. HeldRow(pageHold'[h]) /\ pageHold'[h].status # "held"
      BY <1>3, <2>1 DEF HeldRow
    <2>3. QED
      BY <1>1, <2>2 DEF HoldsOnlyGo, Shapes
  <1>4. QED
    BY <1>2, <1>3 DEF Shapes

LEMMA Expiring ==
    ASSUME Shapes, NEW h \in PageHolds, SweepExpires(h)
    PROVE  HoldsOnlyGo
  <1>1. /\ pageHold' = [k \in PageHolds |-> pageHold'[k]]
        /\ \A k \in PageHolds : k # h => pageHold'[k] = pageHold[k]
        /\ pageHold'[h] = [pageHold[h] EXCEPT !.status = "expired"]
        /\ minute' = minute
    BY DEF SweepExpires, Shapes
  <1>2. HeldRow(pageHold[h])
    BY DEF SweepExpires, Shapes, NoHold
  <1>3. HeldRow(pageHold'[h]) /\ pageHold'[h].status # "held"
    BY <1>1, <1>2 DEF HeldRow
  <1>4. minute' \in Nat /\ minute <= minute'
    BY <1>1 DEF Shapes
  <1>5. ASSUME NEW k \in PageHolds
        PROVE  /\ pageHold'[k] = NoHold \/ HeldRow(pageHold'[k])
               /\ pageHold'[k] = pageHold[k] \/ pageHold'[k].status # "held"
    BY <1>1, <1>3 DEF Shapes
  <1>6. QED
    BY <1>1, <1>4, <1>5 DEF HoldsOnlyGo

\* A request that moves on keeps what it asks for.
LEMMA GoingOn ==
    ASSUME CapsInv, HoldsOnlyGo, NEW t \in Tabs, NEW was \in OnTheWay, At(t, was),
           NEW pc, pc # "counted", GoesTo(t, pc),
           limitsLock' = limitsLock
    PROVE  CapsInv'
  <1> DEFINE r == [request[t] EXCEPT !.pc = pc]
  <1>1. Asking(request[t], minute)
    BY DEF CapsInv, Shapes
  <1>2. Asking(r, minute') /\ r.pc = pc
    BY <1>1 DEF Asking, CapsInv, Shapes, HoldsOnlyGo
  <1>3. request' = [request EXCEPT ![t] = r]
    BY DEF GoesTo
  <1> HIDE DEF r
  <1>4. QED
    BY <1>2, <1>3, RequestSteps

\* One that is refused asks no more.
LEMMA Refusing ==
    ASSUME CapsInv, HoldsOnlyGo, NEW t \in Tabs, NEW times, Refuse(t, times),
           limitsLock' = limitsLock \/ limitsLock = t
    PROVE  CapsInv'
  <1> DEFINE r == [pc |-> "refused", times |-> times]
  <1>1. request' = [request EXCEPT ![t] = r] /\ r.pc \notin OnTheWay
    BY DEF Refuse, OnTheWay
  <1> HIDE DEF r
  <1>2. QED
    BY <1>1, RequestSteps

LEMMA TabStepsKeepCaps ==
    ASSUME CapsInv, NEW t \in Tabs, TabStep(t)
    PROVE  CapsInv'
  <1>0. Shapes
    BY DEF CapsInv
  <1>1. ASSUME UNCHANGED <<minute, pageHold, request, limitsLock>> PROVE CapsInv'
    BY <1>0, <1>1, NothingGoes, OtherSteps
  <1>2. CASE OpenPage(t)
    BY <1>1, <1>2 DEF OpenPage
  <1>3. CASE WidgetSolves(t) \/ TokenExpires(t) \/ Edit(t) \/ Arrive(t) \/ GoBack(t)
    BY <1>1, <1>3 DEF WidgetSolves, TokenExpires, Edit, Arrive, GoBack
  <1>4. CASE \E e \in Emails : SubmitDetails(t, e)
    <2>1. PICK e \in Emails : SubmitDetails(t, e)
      BY <1>4
    <2> DEFINE r == [pc |-> "details", email |-> e, lead |-> cookie[BrowserOf[t]],
                     token |-> panel[t].token]
    <2>2. request' = [request EXCEPT ![t] = r] /\ r.pc \notin OnTheWay
          /\ UNCHANGED <<minute, pageHold, limitsLock>>
      BY <2>1 DEF SubmitDetails, OnTheWay
    <2> HIDE DEF r
    <2>3. QED
      BY <1>0, <2>2, NothingGoes, RequestSteps
  <1>5. CASE CaptureLead(t) \/ CaptureFails(t)
    <2>1. PICK lead : request' = [request EXCEPT ![t] = [pc |-> "captured", lead |-> lead]]
      BY <1>5 DEF CaptureLead, CaptureFails
    <2> DEFINE r == [pc |-> "captured", lead |-> lead]
    <2>2. request' = [request EXCEPT ![t] = r] /\ r.pc \notin OnTheWay
          /\ UNCHANGED <<minute, pageHold, limitsLock>>
      BY <1>5, <2>1 DEF CaptureLead, CaptureFails, OnTheWay
    <2> HIDE DEF r
    <2>3. QED
      BY <1>0, <2>2, NothingGoes, RequestSteps
  <1>6. CASE HearDetails(t) \/ HearCheckout(t)
    <2>1. request' = [request EXCEPT ![t] = NoRequest]
          /\ UNCHANGED <<minute, pageHold, limitsLock>>
      BY <1>6 DEF HearDetails, HearCheckout
    <2>2. QED
      BY <1>0, <2>1, NothingGoes, RequestSteps
  <1>7. CASE \E x \in PageTimes : Continue(t, x)
    <2>1. PICK x \in PageTimes : Continue(t, x)
      BY <1>7
    <2> DEFINE r == [pc |-> "asked", time |-> x, lead |-> cookie[BrowserOf[t]],
                     token |-> panel[t].token, now |-> minute, hold |-> None]
    <2>2. request' = [request EXCEPT ![t] = r] /\ UNCHANGED <<minute, pageHold, limitsLock>>
      BY <2>1 DEF Continue
    <2>3. r.pc # "counted" /\ Asking(r, minute')
      BY <1>0, <2>2 DEF Asking, Shapes
    <2> HIDE DEF r
    <2>4. QED
      BY <1>0, <2>2, <2>3, NothingGoes, RequestSteps
  <1>8. CASE CheckPerson(t)
    <2>1. At(t, "asked") /\ UNCHANGED <<minute, pageHold, limitsLock>>
          /\ (GoesTo(t, "checked") \/ Refuse(t, panel[t].shown))
      BY <1>8 DEF CheckPerson
    <2>2. "asked" \in OnTheWay
      BY DEF OnTheWay
    <2>3. QED
      BY <1>0, <2>1, <2>2, NothingGoes, GoingOn, Refusing
  <1>9. CASE LookAtOffers(t)
    <2> DEFINE offered == OfferedSlots(request[t].now)
    <2>1. At(t, "checked") /\ UNCHANGED <<minute, pageHold, limitsLock>>
          /\ (GoesTo(t, "offered") \/ Refuse(t, offered))
      BY <1>9 DEF LookAtOffers
    <2>2. "checked" \in OnTheWay
      BY DEF OnTheWay
    <2> HIDE DEF offered
    <2>3. QED
      BY <1>0, <2>1, <2>2, NothingGoes, GoingOn, Refusing
  <1>10. CASE CountHolds(t)
    <2>1. CASE WithinLimits(t) /\ GoesTo(t, "counted") /\ limitsLock' = t
      BY <1>10, <2>1, Counting DEF CountHolds
    <2>2. CASE Refuse(t, panel[t].shown) /\ UNCHANGED limitsLock
      BY <1>0, <1>10, <2>2, NothingGoes, Refusing DEF CountHolds
    <2>3. QED
      BY <1>10, <2>1, <2>2 DEF CountHolds
  <1>11. CASE InsertHold(t)
    <2>1. At(t, "counted") /\ limitsLock' = NoTab /\ UNCHANGED minute
      BY <1>11 DEF InsertHold
    <2>2. limitsLock = t
      BY <2>1 DEF CapsInv, CountStands
    <2>3. CASE Refuse(t, OfferedSlots(minute)) /\ UNCHANGED pageHold
      BY <1>0, <2>1, <2>2, <2>3, NothingGoes, Refusing
    <2>4. CASE \E h \in PageHolds :
                 /\ Inserted(t, h)
                 /\ request' = [request EXCEPT ![t].pc = "held", ![t].hold = h]
      BY <2>1, <2>4, Inserting
    <2>5. QED
      BY <1>11, <2>3, <2>4 DEF InsertHold, Inserted
  <1>12. CASE StartPayment(t)
    <2>1. At(t, "held") /\ GoesTo(t, "started") /\ UNCHANGED <<minute, pageHold, limitsLock>>
      BY <1>12 DEF StartPayment
    <2>2. "held" \in OnTheWay
      BY DEF OnTheWay
    <2>3. QED
      BY <1>0, <2>1, <2>2, NothingGoes, GoingOn
  <1>13. CASE CalendarRefuses(t) \/ CheckoutFails(t)
    <2>1. PICK h, times : /\ GiveHoldBack(h) /\ Refuse(t, times)
                          /\ UNCHANGED <<minute, limitsLock>>
      BY <1>13 DEF CalendarRefuses, CheckoutFails
    <2>2. HoldsOnlyGo
      BY <1>0, <2>1, GivingBack
    <2>3. QED
      BY <2>1, <2>2, Refusing
  <1>14. QED
    BY <1>2, <1>3, <1>4, <1>5, <1>6, <1>7, <1>8, <1>9, <1>10, <1>11, <1>12, <1>13 DEF TabStep

LEMMA CapsKeptByAll == CapsInv /\ [Next]_vars => CapsInv'
  <1> SUFFICES ASSUME CapsInv, [Next]_vars PROVE CapsInv'
    OBVIOUS
  <1>0. Shapes
    BY DEF CapsInv
  <1>1. ASSUME UNCHANGED <<minute, pageHold, request, limitsLock>> PROVE CapsInv'
    BY <1>0, <1>1, NothingGoes, OtherSteps
  <1>2. CASE UNCHANGED vars
    BY <1>1, <1>2 DEF vars
  <1>3. CASE \E t \in Tabs : TabStep(t)
    BY <1>3, TabStepsKeepCaps
  <1>4. CASE ReadCalendar \/ FinishLoad \/ LoadFails
    BY <1>1, <1>4 DEF ReadCalendar, FinishLoad, LoadFails
  <1>5. CASE \E h \in PageHolds : SweepExpires(h)
    <2>1. HoldsOnlyGo /\ UNCHANGED <<request, limitsLock>>
      BY <1>0, <1>5, Expiring DEF SweepExpires
    <2>2. QED
      BY <2>1, OtherSteps
  <1>6. CASE \E a \in Appointments : CoachTakes(a)
    BY <1>1, <1>6 DEF CoachTakes
  <1>7. CASE MinutePasses
    <2>1. HoldsOnlyGo
      BY <1>0, <1>7 DEF MinutePasses, HoldsOnlyGo, Shapes
    <2>2. QED
      BY <1>7, <2>1, OtherSteps DEF MinutePasses
  <1>8. QED
    BY <1>2, <1>3, <1>4, <1>5, <1>6, <1>7 DEF Next

\* However many checkouts count and take holds at once, a person in one browser has
\* one live unpaid hold, and no network and no diary has more than its cap
\* (reserveSlotForOrder's advisory lock and counts, slot-holds.ts:176).
THEOREM CapsAreKept == Spec => []HoldCapsKept
  <1>1. CapsInv => HoldCapsKept
    BY DEF CapsInv
  <1>2. QED
    BY CapsAtFirst, CapsKeptByAll, <1>1, PTL DEF Spec

-----------------------------------------------------------------------------
(***************************************************************************)
(* The time behind an open payment page.                                   *)
(***************************************************************************)

\* On its way to the payment page, or there.
Pays(t) == panel[t].at \in {"leaving", "paying"}

\* The hold still stands, its countdown has ended, or a later hold of the same person
\* in the same browser has taken its place.
Stands(h) ==
    /\ h \in PageHolds /\ pageHold[h].status # "none"
    /\ \/ pageHold[h].status = "held" \/ pageHold[h].until <= minute
       \/ \E k \in PageHolds : k > h /\ pageHold[k].status # "none"
                               /\ pageHold[k].lead = pageHold[h].lead

\* A page, with the fields its way to a payment depends on.
PanelShape(p) == {"at", "hold", "shown"} \subseteq DOMAIN p

PanelShapes == DOMAIN panel = Tabs /\ \A t \in Tabs : PanelShape(panel[t])

\* Rows of holds are used in increasing order.
UsedInOrder ==
    \A h, k \in PageHolds : pageHold[h].status # "none" /\ pageHold[k].status = "none" => h < k

\* A hold whose payment has not started is its own request's and no one else's, so
\* the request that gives it back takes nobody's time away.
OwnHold ==
    \A u \in Tabs : At(u, "held") =>
      /\ request[u].hold \in PageHolds /\ pageHold[request[u].hold].status # "none"
      /\ \A t \in Tabs :
           /\ t # u /\ (At(t, "held") \/ At(t, "started")) => request[t].hold # request[u].hold
           /\ Pays(t) => panel[t].hold # request[u].hold

PaysForOne ==
    \A t \in Tabs : /\ Pays(t) => Stands(panel[t].hold)
                    /\ At(t, "started") => Stands(request[t].hold)

PayInv == PanelShapes /\ UsedInOrder /\ OwnHold /\ PaysForOne

\* A page is on its way to pay because it was, or because it hears that its payment
\* has started.
PanelMove ==
    \A u \in Tabs : Pays(u)' =>
      \/ Pays(u) /\ panel'[u].hold = panel[u].hold
      \/ At(u, "started") /\ ~At(u, "started")' /\ panel'[u].hold = request[u].hold

\* Every step leaves the pages so.
LEMMA PanelMoves ==
    ASSUME PanelShapes, Shapes, [Next]_vars
    PROVE  PanelShapes' /\ PanelMove
  <1> DEFINE Goal == PanelShapes' /\ PanelMove
  <1>1. ASSUME panel' = panel PROVE Goal
    BY <1>1 DEF PanelShapes, PanelMove, Pays
  <1>2. ASSUME NEW t \in Tabs, NEW p, panel' = [panel EXCEPT ![t] = p], PanelShape(p),
               \/ p.at \notin {"leaving", "paying"}
               \/ Pays(t) /\ p.hold = panel[t].hold
               \/ At(t, "started") /\ ~At(t, "started")' /\ p.hold = request[t].hold
        PROVE  Goal
    <2>1. panel'[t] = p /\ (\A u \in Tabs \ {t} : panel'[u] = panel[u])
          /\ DOMAIN panel' = Tabs
      BY <1>2 DEF PanelShapes
    <2>2. PanelShapes'
      BY <1>2, <2>1 DEF PanelShapes
    <2>3. PanelMove
      BY <1>2, <2>1 DEF PanelMove, Pays
    <2> QED BY <2>2, <2>3
  <1>3. ASSUME NEW t \in Tabs, NEW p, PanelShape(p), p.at = panel[t].at, p.hold = panel[t].hold,
               panel' = [panel EXCEPT ![t] = p]
        PROVE  Goal
    <2>1. p.at \notin {"leaving", "paying"} \/ Pays(t)
      BY <1>3 DEF Pays
    <2> HIDE DEF Goal
    <2> QED BY <1>2, <1>3, <2>1
  <1>4. ASSUME NEW times,
               panel' = [t \in Tabs |-> IF panel[t].at = "waiting" THEN Shows(panel[t], times)
                                       ELSE panel[t]]
        PROVE  Goal
    <2>1. \A u \in Tabs : panel'[u] = IF panel[u].at = "waiting" THEN Shows(panel[u], times)
                                     ELSE panel[u]
      BY <1>4
    <2>2. \A p : PanelShape(p) => PanelShape(Shows(p, times)) /\ Shows(p, times).at = "page"
      BY DEF PanelShape, Shows
    <2>3. DOMAIN panel' = Tabs
      BY <1>4
    <2>4. PanelShapes'
      BY <2>1, <2>2, <2>3 DEF PanelShapes
    <2>5. PanelMove
      BY <2>1, <2>2 DEF PanelMove, PanelShapes, Pays
    <2> QED BY <2>4, <2>5
  <1>5. \A t \in Tabs : PanelShape(panel[t])
    BY DEF PanelShapes
  <1>6. ASSUME NEW p, NEW times, PanelShape(p)
        PROVE  PanelShape(Shows(p, times)) /\ Shows(p, times).at = "page"
    BY <1>6 DEF PanelShape, Shows
  <1>7. ASSUME NEW p, PanelShape(p)
        PROVE  /\ PanelShape(Renewed(p)) /\ Renewed(p).at = p.at /\ Renewed(p).hold = p.hold
               /\ PanelShape(Sent(p)) /\ Sent(p).at = p.at /\ Sent(p).hold = p.hold
               /\ \A step : /\ PanelShape(AtStep(p, step)) /\ AtStep(p, step).at = p.at
                            /\ AtStep(p, step).hold = p.hold
    BY <1>7 DEF PanelShape, Renewed, Sent, AtStep
  <1> HIDE DEF Goal
  <1>8. ASSUME NEW t \in Tabs, OpenPage(t)
        PROVE  Goal
    <2> DEFINE p == [panel[t] EXCEPT !.asked = minute]
    <2>1. PanelShape(p)
      BY <1>5 DEF PanelShape
    <2>2. PanelShape([p EXCEPT !.at = "waiting"]) /\ [p EXCEPT !.at = "waiting"].at = "waiting"
      BY <2>1 DEF PanelShape
    <2>3. \/ panel' = [panel EXCEPT ![t] = Shows(p, pageList.times)]
          \/ panel' = [panel EXCEPT ![t] = [p EXCEPT !.at = "waiting"]]
      BY <1>8 DEF OpenPage
    <2> HIDE DEF p
    <2>4. PanelShape(Shows(p, pageList.times)) /\ Shows(p, pageList.times).at = "page"
      BY <1>6, <2>1
    <2>5. ASSUME NEW q \in {Shows(p, pageList.times), [p EXCEPT !.at = "waiting"]},
                 panel' = [panel EXCEPT ![t] = q]
          PROVE  Goal
      <3>1. PanelShape(q) /\ q.at \notin {"leaving", "paying"}
        BY <2>2, <2>4, <2>5
      <3> QED BY <1>2, <2>5, <3>1
    <2> QED BY <2>3, <2>5
  <1>9. ASSUME NEW t \in Tabs, WidgetSolves(t) \/ TokenExpires(t)
        PROVE  Goal
    <2>1. PICK p \in {[panel[t] EXCEPT !.token = "fresh", !.widget = "solved"],
                      [panel[t] EXCEPT !.token = "none", !.widget = "working"]} :
             panel' = [panel EXCEPT ![t] = p]
      BY <1>9 DEF WidgetSolves, TokenExpires
    <2>2. PanelShape(p) /\ p.at = panel[t].at /\ p.hold = panel[t].hold
      BY <1>5, <2>1 DEF PanelShape
    <2> QED BY <1>3, <2>1, <2>2
  <1>10. ASSUME NEW t \in Tabs,
                \/ \E e \in Emails : SubmitDetails(t, e)
                \/ \E x \in PageTimes : Continue(t, x)
         PROVE  Goal
    <2>1. panel' = [panel EXCEPT ![t] = Sent(panel[t])]
      BY <1>10 DEF SubmitDetails, Continue
    <2> QED BY <1>3, <1>5, <1>7, <2>1
  <1>11. ASSUME NEW t \in Tabs, HearDetails(t) \/ Edit(t)
         PROVE  Goal
    <2>1. PICK p \in {Renewed(panel[t]), AtStep(panel[t], "slot"), AtStep(panel[t], "details")} :
             panel' = [panel EXCEPT ![t] = p]
      BY <1>11 DEF HearDetails, Edit
    <2> QED BY <1>3, <1>5, <1>7, <2>1
  <1>12. ASSUME NEW t \in Tabs, HearCheckout(t)
         PROVE  Goal
    <2>1. CASE ~OnPage(t)
      <3>1. panel' = [panel EXCEPT ![t] = panel[t]]
        BY <1>12, <2>1 DEF HearCheckout
      <3> QED BY <1>3, <1>5, <3>1
    <2>2. CASE OnPage(t) /\ At(t, "started")
      <3> DEFINE p == [panel[t] EXCEPT !.at = "leaving", !.hold = request[t].hold]
      <3>1. panel' = [panel EXCEPT ![t] = p]
        BY <1>12, <2>2 DEF HearCheckout
      <3>2. PanelShape(p) /\ p.hold = request[t].hold
        BY <1>5 DEF PanelShape
      <3>3. ~At(t, "started")'
        BY <1>12 DEF HearCheckout, At, Shapes
      <3> HIDE DEF p
      <3> QED BY <1>2, <2>2, <3>1, <3>2, <3>3
    <2>3. CASE OnPage(t) /\ ~At(t, "started")
      <3> DEFINE p == [Renewed(panel[t]) EXCEPT !.shown = request[t].times]
      <3>1. panel' = [panel EXCEPT ![t] = p]
        BY <1>12, <2>3 DEF HearCheckout
      <3>2. PanelShape(p) /\ p.at = panel[t].at /\ p.hold = panel[t].hold
        BY <1>5, <1>7 DEF PanelShape
      <3> HIDE DEF p
      <3> QED BY <1>3, <3>1, <3>2
    <2> QED BY <2>1, <2>2, <2>3
  <1>13. ASSUME NEW t \in Tabs, Arrive(t)
         PROVE  Goal
    <2> DEFINE p == [panel[t] EXCEPT !.at = "paying"]
    <2>1. panel' = [panel EXCEPT ![t] = p] /\ Pays(t)
      BY <1>13 DEF Arrive, Pays
    <2>2. PanelShape(p) /\ p.hold = panel[t].hold
      BY <1>5 DEF PanelShape
    <2> HIDE DEF p
    <2> QED BY <1>2, <2>1, <2>2
  <1>14. ASSUME NEW t \in Tabs, GoBack(t)
         PROVE  Goal
    <2>1. PICK p \in {BlankPanel, [panel[t] EXCEPT !.at = "page", !.hold = None]} :
             panel' = [panel EXCEPT ![t] = p]
      BY <1>14 DEF GoBack
    <2>2. PanelShape(p) /\ p.at \notin {"leaving", "paying"}
      <3>1. CASE p = BlankPanel
        BY <3>1 DEF PanelShape, BlankPanel
      <3>2. CASE p = [panel[t] EXCEPT !.at = "page", !.hold = None]
        BY <1>5, <3>2 DEF PanelShape
      <3> QED BY <2>1, <3>1, <3>2
    <2> QED BY <1>2, <2>1, <2>2
  <1>15. ASSUME FinishLoad PROVE Goal
    BY <1>4, <1>15 DEF FinishLoad, ToAllWaiting
  <1>16. ASSUME LoadFails PROVE Goal
    BY <1>4, <1>16 DEF LoadFails, ToAllWaiting
  <1>17. ASSUME \/ \E t \in Tabs : \/ CaptureLead(t) \/ CaptureFails(t) \/ CheckPerson(t)
                                   \/ LookAtOffers(t) \/ CountHolds(t) \/ InsertHold(t)
                                   \/ StartPayment(t) \/ CalendarRefuses(t) \/ CheckoutFails(t)
                \/ ReadCalendar \/ MinutePasses \/ UNCHANGED vars
                \/ \E h \in PageHolds : SweepExpires(h)
                \/ \E a \in Appointments : CoachTakes(a)
         PROVE  Goal
    <2>1. panel' = panel
      BY <1>17 DEF CaptureLead, CaptureFails, CheckPerson, LookAtOffers, CountHolds, InsertHold,
                   StartPayment, CalendarRefuses, CheckoutFails, ReadCalendar, MinutePasses, vars,
                   SweepExpires, CoachTakes
    <2> QED BY <1>1, <2>1
  <1>18. Goal
    BY <1>8, <1>9, <1>10, <1>11, <1>12, <1>13, <1>14, <1>15, <1>16, <1>17 DEF Next, TabStep
  <1> QED BY <1>18 DEF Goal

\* A row of a hold that was taken.
Used(h) == pageHold[h].status # "none"

\* The same once a step is taken.
UsedAfter(h) == pageHold'[h].status # "none"

StandsAfter(h) ==
    /\ h \in PageHolds /\ UsedAfter(h)
    /\ \/ pageHold'[h].status = "held" \/ pageHold'[h].until <= minute'
       \/ \E k \in PageHolds : k > h /\ UsedAfter(k) /\ pageHold'[k].lead = pageHold'[h].lead

\* What a step may do to the holds: a row once used stays so and keeps whose it is and
\* its countdown; a hold ends when that has run out, when its place is taken, or when
\* the request it was made for gives it back.
GivenBack(h) == \E u \in Tabs : At(u, "held") /\ request[u].hold = h

Replaced(h) ==
    \E k \in PageHolds : k > h /\ Used(k) /\ pageHold[k].lead = pageHold[h].lead

HoldMove ==
    /\ minute \in Nat /\ minute' \in Nat /\ minute <= minute'
    /\ \A h \in PageHolds :
         /\ Used(h) =>
              /\ UsedAfter(h) /\ pageHold'[h].lead = pageHold[h].lead
              /\ pageHold'[h].until = pageHold[h].until /\ pageHold[h].until \in Nat
         /\ UsedAfter(h) => Used(h) \/ FreshPageHold(h)
         /\ pageHold[h].status = "held" /\ pageHold'[h].status # "held" =>
              pageHold[h].until <= minute \/ Replaced(h)' \/ GivenBack(h)

\* What a step may do to the requests that have a hold.
RequestMove ==
    \A u \in Tabs :
      /\ At(u, "held")' =>
           \/ At(u, "held") /\ request'[u].hold = request[u].hold
           \/ /\ At(u, "counted") /\ request'[u].hold \in PageHolds
              /\ FreshPageHold(request'[u].hold) /\ UsedAfter(request'[u].hold)
      /\ At(u, "started")' =>
           \/ At(u, "started") /\ request'[u].hold = request[u].hold
           \/ /\ At(u, "held") /\ request'[u].hold = request[u].hold
              /\ pageHold'[request[u].hold].status = "held"

\* One hold is not given back behind a page that is to pay for it.
LEMMA StandsOn ==
    ASSUME HoldMove, NEW h, Stands(h), ~GivenBack(h)
    PROVE  StandsAfter(h)
  <1>1. h \in PageHolds /\ UsedAfter(h) /\ pageHold'[h].lead = pageHold[h].lead
        /\ pageHold'[h].until = pageHold[h].until /\ pageHold[h].until \in Nat
    BY DEF Stands, HoldMove, Used
  <1>2. CASE pageHold[h].until <= minute
    <2>1. pageHold'[h].until <= minute'
      BY <1>1, <1>2 DEF HoldMove
    <2>2. QED
      BY <1>1, <2>1 DEF StandsAfter
  <1>3. CASE Replaced(h)
    <2>1. PICK k \in PageHolds : k > h /\ Used(k) /\ pageHold[k].lead = pageHold[h].lead
      BY <1>3 DEF Replaced
    <2>2. UsedAfter(k) /\ pageHold'[k].lead = pageHold'[h].lead
      BY <1>1, <2>1 DEF HoldMove
    <2>3. QED
      BY <1>1, <2>1, <2>2 DEF StandsAfter
  <1>4. CASE pageHold[h].status = "held" /\ pageHold'[h].status # "held"
    <2>1. pageHold[h].until <= minute \/ Replaced(h)'
      BY <1>1, <1>4 DEF HoldMove
    <2>2. QED
      BY <1>1, <1>2, <2>1 DEF StandsAfter, Replaced, Used, UsedAfter
  <1>5. CASE pageHold'[h].status = "held"
    BY <1>1, <1>5 DEF StandsAfter
  <1>6. QED
    BY <1>2, <1>3, <1>4, <1>5 DEF Stands, Replaced, Used

\* What is left of a page's hold is so after every step that moves panels, holds and
\* requests as they may.
LEMMA PayFollows ==
    ASSUME CapsInv, PayInv, PanelShapes', PanelMove, HoldMove, RequestMove
    PROVE  PayInv'
  <1>0. PageHolds \subseteq Nat
    BY PageAssumption DEF PageAssumption
  <1>1. UsedInOrder'
    <2> SUFFICES ASSUME NEW h \in PageHolds, NEW k \in PageHolds, UsedAfter(h), ~UsedAfter(k)
                 PROVE  h < k
      BY DEF UsedInOrder, UsedAfter
    <2>1. ~Used(k) /\ h # k /\ (Used(h) \/ FreshPageHold(h))
      BY DEF HoldMove
    <2>2. CASE Used(h)
      BY <2>1, <2>2 DEF PayInv, UsedInOrder, Used
    <2>3. CASE FreshPageHold(h)
      <3>1. h <= k
        BY <2>1, <2>3 DEF FreshPageHold, Used
      <3>2. QED
        BY <1>0, <2>1, <3>1
    <2>4. QED
      BY <2>1, <2>2, <2>3
  \* Those who have a hold have a row in use, and no other's that may yet be given back.
  <1>2. \A t \in Tabs : At(t, "held") \/ At(t, "started") => Used(request[t].hold)
    BY DEF PayInv, OwnHold, PaysForOne, Stands, Used
  <1>3. \A t \in Tabs : Pays(t) => Used(panel[t].hold)
    BY DEF PayInv, PaysForOne, Stands, Used
  <1>4. \A t \in Tabs : ~(At(t, "held") /\ At(t, "started")) /\ ~(At(t, "counted") /\ At(t, "held"))
    BY DEF At
  <1>5. \A h : FreshPageHold(h) => ~Used(h)
    BY DEF FreshPageHold, Used
  <1>6. \A t, u \in Tabs : At(t, "counted") /\ At(u, "counted") => t = u
    BY DEF CapsInv, CountStands
  <1>7. OwnHold'
    <2> SUFFICES ASSUME NEW u \in Tabs, At(u, "held")'
                 PROVE  /\ request'[u].hold \in PageHolds /\ UsedAfter(request'[u].hold)
                        /\ \A t \in Tabs :
                             /\ t # u /\ (At(t, "held")' \/ At(t, "started")')
                                => request'[t].hold # request'[u].hold
                             /\ Pays(t)' => panel'[t].hold # request'[u].hold
      BY DEF OwnHold, UsedAfter, At, Pays
    <2>1. CASE At(u, "held") /\ request'[u].hold = request[u].hold
      <3>1. request[u].hold \in PageHolds /\ Used(request[u].hold)
        BY <2>1 DEF PayInv, OwnHold, Used
      <3>2. UsedAfter(request'[u].hold)
        BY <2>1, <3>1 DEF HoldMove
      <3>3. ASSUME NEW t \in Tabs, t # u, At(t, "held")' \/ At(t, "started")'
            PROVE  request'[t].hold # request'[u].hold
        <4>1. CASE (At(t, "held") \/ At(t, "started")) /\ request'[t].hold = request[t].hold
          BY <2>1, <3>3, <4>1 DEF PayInv, OwnHold
        <4>2. CASE FreshPageHold(request'[t].hold)
          BY <1>5, <2>1, <3>1, <4>2
        <4>3. QED
          BY <3>3, <4>1, <4>2 DEF RequestMove
      <3>4. ASSUME NEW t \in Tabs, Pays(t)'
            PROVE  panel'[t].hold # request'[u].hold
        <4>1. CASE Pays(t) /\ panel'[t].hold = panel[t].hold
          BY <2>1, <4>1 DEF PayInv, OwnHold
        <4>2. CASE At(t, "started") /\ panel'[t].hold = request[t].hold
          <5>1. t # u
            BY <1>4, <2>1, <4>2
          <5>2. QED
            BY <2>1, <4>2, <5>1 DEF PayInv, OwnHold
        <4>3. QED
          BY <3>4, <4>1, <4>2 DEF PanelMove
      <3>5. QED
        BY <2>1, <3>1, <3>2, <3>3, <3>4
    <2>2. CASE /\ At(u, "counted") /\ request'[u].hold \in PageHolds
               /\ FreshPageHold(request'[u].hold) /\ UsedAfter(request'[u].hold)
      <3>1. ~Used(request'[u].hold)
        BY <1>5, <2>2
      <3>2. ASSUME NEW t \in Tabs, t # u, At(t, "held")' \/ At(t, "started")'
            PROVE  request'[t].hold # request'[u].hold
        <4>1. (At(t, "held") \/ At(t, "started")) /\ request'[t].hold = request[t].hold
          BY <1>6, <2>2, <3>2 DEF RequestMove
        <4>2. QED
          BY <1>2, <3>1, <4>1
      <3>3. ASSUME NEW t \in Tabs, Pays(t)'
            PROVE  panel'[t].hold # request'[u].hold
        BY <1>2, <1>3, <3>1, <3>3 DEF PanelMove
      <3>4. QED
        BY <2>2, <3>2, <3>3
    <2>3. QED
      BY <2>1, <2>2 DEF RequestMove
  <1>8. ASSUME NEW t \in Tabs, Pays(t)'
        PROVE  StandsAfter(panel'[t].hold)
    <2>1. CASE Pays(t) /\ panel'[t].hold = panel[t].hold
      <3> DEFINE h == panel[t].hold
      <3>1. Stands(h) /\ ~GivenBack(h)
        BY <2>1 DEF PayInv, PaysForOne, OwnHold, GivenBack
      <3> PICK k : k = h
        OBVIOUS
      <3>2. StandsAfter(k)
        BY <3>1, StandsOn
      <3>3. QED
        BY <2>1, <3>2
    <2>2. CASE At(t, "started") /\ panel'[t].hold = request[t].hold
      <3> PICK k : k = request[t].hold
        OBVIOUS
      <3>1. Stands(k) /\ ~GivenBack(k)
        BY <1>4, <2>2 DEF PayInv, PaysForOne, OwnHold, GivenBack
      <3>2. StandsAfter(k)
        BY <3>1, StandsOn
      <3>3. QED
        BY <2>2, <3>2
    <2>3. QED
      BY <1>8, <2>1, <2>2 DEF PanelMove
  <1>9. ASSUME NEW t \in Tabs, At(t, "started")'
        PROVE  StandsAfter(request'[t].hold)
    <2>1. CASE At(t, "started") /\ request'[t].hold = request[t].hold
      <3> PICK k : k = request[t].hold
        OBVIOUS
      <3>1. Stands(k) /\ ~GivenBack(k)
        BY <1>4, <2>1 DEF PayInv, PaysForOne, OwnHold, GivenBack
      <3>2. StandsAfter(k)
        BY <3>1, StandsOn
      <3>3. QED
        BY <2>1, <3>2
    <2>2. CASE /\ At(t, "held") /\ request'[t].hold = request[t].hold
               /\ pageHold'[request[t].hold].status = "held"
      BY <1>2, <2>2 DEF PayInv, OwnHold, StandsAfter, UsedAfter
    <2>3. QED
      BY <1>9, <2>1, <2>2 DEF RequestMove
  <1>10. QED
    BY <1>1, <1>7, <1>8, <1>9 DEF PayInv, PaysForOne, Pays, At, Stands, StandsAfter, UsedAfter

-----------------------------------------------------------------------------
\* Steps that leave the holds alone.
LEMMA HoldsLeftAlone ==
    ASSUME Shapes, pageHold' = pageHold, minute' \in Nat, minute <= minute'
    PROVE  HoldMove
  <1>1. \A h \in PageHolds : Used(h) => pageHold[h].until \in Nat
    BY DEF Shapes, Used, HeldRow, NoHold
  <1>2. QED
    BY <1>1 DEF Shapes, HoldMove, Used, UsedAfter

\* A step that ends one hold, and may.
LEMMA OneHoldEnds ==
    ASSUME Shapes, NEW h \in PageHolds, UNCHANGED minute, pageHold[h].status = "held",
           NEW status, status # "none",
           pageHold' = [pageHold EXCEPT ![h].status = status],
           pageHold[h].until <= minute \/ GivenBack(h)
    PROVE  HoldMove
  <1>1. \A k \in PageHolds : Used(k) => pageHold[k].until \in Nat
    BY DEF Shapes, Used, HeldRow, NoHold
  <1>2. /\ pageHold'[h] = [pageHold[h] EXCEPT !.status = status]
        /\ \A k \in PageHolds : k # h => pageHold'[k] = pageHold[k]
    BY DEF Shapes
  <1>3. HeldRow(pageHold[h])
    BY DEF Shapes, NoHold
  <1>4. /\ pageHold'[h].status = status /\ pageHold'[h].lead = pageHold[h].lead
        /\ pageHold'[h].until = pageHold[h].until
    BY <1>2, <1>3 DEF HeldRow
  <1>5. ASSUME NEW k \in PageHolds
        PROVE  /\ Used(k) => /\ UsedAfter(k) /\ pageHold'[k].lead = pageHold[k].lead
                             /\ pageHold'[k].until = pageHold[k].until /\ pageHold[k].until \in Nat
               /\ UsedAfter(k) => Used(k) \/ FreshPageHold(k)
               /\ pageHold[k].status = "held" /\ pageHold'[k].status # "held" =>
                    pageHold[k].until <= minute \/ Replaced(k)' \/ GivenBack(k)
    BY <1>1, <1>2, <1>4 DEF Used, UsedAfter
  <1>6. minute \in Nat /\ minute' \in Nat /\ minute <= minute'
    BY DEF Shapes
  <1>7. QED
    BY <1>5, <1>6 DEF HoldMove

\* A refused checkout gives back its own hold, if it is still held.
LEMMA GivingBackMoves ==
    ASSUME Shapes, PayInv, NEW t \in Tabs, At(t, "held"), GiveHoldBack(request[t].hold),
           UNCHANGED minute
    PROVE  HoldMove
  <1> PICK h : h = request[t].hold
    OBVIOUS
  <1>1. h \in PageHolds /\ GivenBack(h)
    BY DEF PayInv, OwnHold, GivenBack
  <1>2. pageHold' = [pageHold EXCEPT ![h].status = IF pageHold[h].status = "held" THEN "released"
                                                   ELSE pageHold[h].status]
    BY DEF GiveHoldBack
  <1>3. CASE pageHold[h].status = "held"
    <2>1. pageHold' = [pageHold EXCEPT ![h].status = "released"]
      BY <1>2, <1>3
    <2>2. QED
      BY <1>1, <1>3, <2>1, OneHoldEnds
  <1>4. CASE pageHold[h].status # "held"
    <2>1. pageHold[h] = NoHold \/ HeldRow(pageHold[h])
      BY <1>1 DEF Shapes
    <2>2. [pageHold[h] EXCEPT !.status = pageHold[h].status] = pageHold[h]
      BY <2>1 DEF NoHold, HeldRow
    <2>3. pageHold' = [pageHold EXCEPT ![h] = pageHold[h]]
      BY <1>2, <1>4, <2>2
    <2>4. pageHold' = pageHold
      BY <1>1, <2>3 DEF Shapes
    <2>5. QED
      BY <2>4, HoldsLeftAlone DEF Shapes
  <1>5. QED
    BY <1>3, <1>4

\* A new hold takes the place of the earlier ones of its browser and person, and its row
\* comes after theirs.
LEMMA InsertingMoves ==
    ASSUME CapsInv, PayInv, NEW t \in Tabs, At(t, "counted"), NEW h \in PageHolds,
           FreshPageHold(h), Inserted(t, h), UNCHANGED minute
    PROVE  HoldMove /\ UsedAfter(h)
  <1>1. \A k \in PageHolds : Used(k) => HeldRow(pageHold[k]) /\ pageHold[k].until \in Nat
    BY DEF CapsInv, Shapes, Used, HeldRow, NoHold
  <1>2. /\ pageHold'[h] = NewHold(t)
        /\ \A k \in EarlierHolds(t) :
             k # h => pageHold'[k] = [pageHold[k] EXCEPT !.status = "released"]
        /\ \A k \in PageHolds : k # h /\ k \notin EarlierHolds(t) => pageHold'[k] = pageHold[k]
    BY DEF Inserted, EarlierHolds
  <1>3. ~Used(h) /\ UsedAfter(h) /\ pageHold'[h].lead = request[t].lead
    BY <1>2 DEF FreshPageHold, Used, UsedAfter, NewHold
  <1>4. ASSUME NEW k \in EarlierHolds(t)
        PROVE  /\ k \in PageHolds /\ Used(k) /\ k # h /\ h > k
               /\ UsedAfter(k) /\ pageHold'[k].lead = pageHold[k].lead
               /\ pageHold'[k].until = pageHold[k].until
               /\ pageHold[k].lead = request[t].lead
    <2>1. k \in PageHolds /\ Used(k) /\ pageHold[k].lead = request[t].lead
      BY DEF EarlierHolds, Used
    <2>2. k < h
      BY <1>3, <2>1 DEF PayInv, UsedInOrder, Used
    <2>3. k # h
      BY <1>3, <2>1
    <2>4. pageHold'[k] = [pageHold[k] EXCEPT !.status = "released"] /\ HeldRow(pageHold[k])
      BY <1>1, <1>2, <2>1, <2>3
    <2>5. UsedAfter(k) /\ pageHold'[k].lead = pageHold[k].lead
          /\ pageHold'[k].until = pageHold[k].until
      BY <2>4 DEF HeldRow, UsedAfter
    <2>6. QED
      BY <2>1, <2>2, <2>3, <2>5
  <1>5. \A k \in EarlierHolds(t) : Replaced(k)'
    BY <1>3, <1>4 DEF Replaced, Used, UsedAfter
  <1>6. ASSUME NEW k \in PageHolds
        PROVE  /\ Used(k) => /\ UsedAfter(k) /\ pageHold'[k].lead = pageHold[k].lead
                             /\ pageHold'[k].until = pageHold[k].until /\ pageHold[k].until \in Nat
               /\ UsedAfter(k) => Used(k) \/ FreshPageHold(k)
               /\ pageHold[k].status = "held" /\ pageHold'[k].status # "held" =>
                    pageHold[k].until <= minute \/ Replaced(k)' \/ GivenBack(k)
    <2>1. CASE k = h
      BY <1>3, <2>1 DEF Used
    <2>2. CASE k \in EarlierHolds(t)
      BY <1>1, <1>4, <1>5, <2>2
    <2>3. CASE k # h /\ k \notin EarlierHolds(t)
      BY <1>1, <1>2, <2>3 DEF Used, UsedAfter
    <2>4. QED
      BY <2>1, <2>2, <2>3
  <1>7. minute \in Nat /\ minute' \in Nat /\ minute <= minute'
    BY DEF CapsInv, Shapes
  <1>8. QED
    BY <1>3, <1>6, <1>7 DEF HoldMove

\* Steps that leave the requests alone, and steps of one request.
LEMMA RequestsLeftAlone ==
    ASSUME request' = request
    PROVE  RequestMove
  BY DEF RequestMove, At

LEMMA OneRequestTurns ==
    ASSUME Shapes, NEW t \in Tabs, NEW r, request' = [request EXCEPT ![t] = r],
           \/ r = NoRequest \/ r.pc \notin {"held", "started"}
           \/ /\ r.pc = "held" /\ At(t, "counted") /\ r.hold \in PageHolds
              /\ FreshPageHold(r.hold) /\ UsedAfter(r.hold)
           \/ /\ r.pc = "started" /\ At(t, "held") /\ r.hold = request[t].hold
              /\ pageHold'[r.hold].status = "held"
    PROVE  RequestMove
  <1>1. request'[t] = r /\ (\A u \in Tabs : u # t => request'[u] = request[u])
    BY DEF Shapes
  <1>2. \A u \in Tabs : u # t => /\ At(u, "held")' => At(u, "held")
                                 /\ At(u, "started")' => At(u, "started")
    BY <1>1 DEF At
  <1>3. /\ At(t, "held")' => r # NoRequest /\ r.pc = "held"
        /\ At(t, "started")' => r # NoRequest /\ r.pc = "started"
    BY <1>1 DEF At
  <1>4. QED
    BY <1>1, <1>2, <1>3 DEF RequestMove

\* Every step of a tab moves holds and requests as it may.
LEMMA TabStepsMove ==
    ASSUME CapsInv, PayInv, NEW t \in Tabs, TabStep(t)
    PROVE  HoldMove /\ RequestMove
  <1>0. Shapes /\ minute \in Nat
    BY DEF CapsInv, Shapes
  <1>1. ASSUME UNCHANGED <<minute, pageHold>> PROVE HoldMove
    BY <1>0, <1>1, HoldsLeftAlone
  <1>2. ASSUME NEW times, Refuse(t, times) PROVE RequestMove
    <2> DEFINE r == [pc |-> "refused", times |-> times]
    <2>1. request' = [request EXCEPT ![t] = r] /\ r.pc \notin {"held", "started"}
      BY <1>2 DEF Refuse
    <2> HIDE DEF r
    <2>2. QED
      BY <1>0, <2>1, OneRequestTurns
  <1>3. ASSUME NEW was \in OnTheWay, At(t, was), NEW pc, GoesTo(t, pc),
               \/ pc \notin {"held", "started"}
               \/ pc = "started" /\ At(t, "held") /\ pageHold'[request[t].hold].status = "held"
        PROVE  RequestMove
    <2> DEFINE r == [request[t] EXCEPT !.pc = pc]
    <2>1. Asking(request[t], minute)
      BY <1>0, <1>3 DEF Shapes
    <2>2. r.pc = pc /\ r.hold = request[t].hold
      BY <2>1 DEF Asking
    <2>3. request' = [request EXCEPT ![t] = r]
      BY <1>3 DEF GoesTo
    <2> HIDE DEF r
    <2>4. QED
      BY <1>0, <1>3, <2>2, <2>3, OneRequestTurns
  <1>4. CASE OpenPage(t) \/ WidgetSolves(t) \/ TokenExpires(t) \/ Edit(t) \/ Arrive(t) \/ GoBack(t)
    BY <1>1, <1>4, RequestsLeftAlone DEF OpenPage, WidgetSolves, TokenExpires, Edit, Arrive, GoBack
  <1>5. CASE HearDetails(t) \/ HearCheckout(t)
    <2>1. request' = [request EXCEPT ![t] = NoRequest] /\ UNCHANGED <<minute, pageHold>>
      BY <1>5 DEF HearDetails, HearCheckout
    <2>2. QED
      BY <1>0, <1>1, <2>1, OneRequestTurns
  <1>6. CASE \/ \E e \in Emails : SubmitDetails(t, e)
             \/ \E x \in PageTimes : Continue(t, x)
             \/ CaptureLead(t) \/ CaptureFails(t)
    <2>1. PICK r : /\ request' = [request EXCEPT ![t] = r] /\ r.pc \notin {"held", "started"}
                   /\ UNCHANGED <<minute, pageHold>>
      <3>1. ASSUME NEW e \in Emails, SubmitDetails(t, e)
            PROVE  \E r : /\ request' = [request EXCEPT ![t] = r] /\ r.pc \notin {"held", "started"}
                          /\ UNCHANGED <<minute, pageHold>>
        <4> DEFINE r == [pc |-> "details", email |-> e, lead |-> cookie[BrowserOf[t]],
                         token |-> panel[t].token]
        <4>1. r.pc = "details"
          OBVIOUS
        <4>2. QED
          BY <3>1, <4>1 DEF SubmitDetails
      <3>2. ASSUME NEW x \in PageTimes, Continue(t, x)
            PROVE  \E r : /\ request' = [request EXCEPT ![t] = r] /\ r.pc \notin {"held", "started"}
                          /\ UNCHANGED <<minute, pageHold>>
        <4> DEFINE r == [pc |-> "asked", time |-> x, lead |-> cookie[BrowserOf[t]],
                         token |-> panel[t].token, now |-> minute, hold |-> None]
        <4>1. r.pc = "asked"
          OBVIOUS
        <4>2. QED
          BY <3>2, <4>1 DEF Continue
      <3>3. ASSUME CaptureLead(t) \/ CaptureFails(t)
            PROVE  \E r : /\ request' = [request EXCEPT ![t] = r] /\ r.pc \notin {"held", "started"}
                          /\ UNCHANGED <<minute, pageHold>>
        <4>1. PICK lead : request' = [request EXCEPT ![t] = [pc |-> "captured", lead |-> lead]]
          BY <3>3 DEF CaptureLead, CaptureFails
        <4> DEFINE r == [pc |-> "captured", lead |-> lead]
        <4>2. r.pc = "captured"
          OBVIOUS
        <4>3. QED
          BY <3>3, <4>1, <4>2 DEF CaptureLead, CaptureFails
      <3>4. QED
        BY <1>6, <3>1, <3>2, <3>3
    <2>2. QED
      BY <1>0, <1>1, <2>1, OneRequestTurns
  <1>7. CASE CheckPerson(t)
    <2>1. /\ At(t, "asked") /\ UNCHANGED <<minute, pageHold>>
          /\ GoesTo(t, "checked") \/ Refuse(t, panel[t].shown)
      BY <1>7 DEF CheckPerson
    <2>2. "asked" \in OnTheWay
      BY DEF OnTheWay
    <2>3. QED
      BY <1>1, <1>2, <1>3, <2>1, <2>2
  <1>8. CASE LookAtOffers(t)
    <2> DEFINE offered == OfferedSlots(request[t].now)
    <2>1. /\ At(t, "checked") /\ UNCHANGED <<minute, pageHold>>
          /\ GoesTo(t, "offered") \/ Refuse(t, offered)
      BY <1>8 DEF LookAtOffers
    <2>2. "checked" \in OnTheWay
      BY DEF OnTheWay
    <2> HIDE DEF offered
    <2>3. QED
      BY <1>1, <1>2, <1>3, <2>1, <2>2
  <1>9. CASE CountHolds(t)
    <2>1. /\ At(t, "offered") /\ UNCHANGED <<minute, pageHold>>
          /\ GoesTo(t, "counted") \/ Refuse(t, panel[t].shown)
      BY <1>9 DEF CountHolds, MayCount
    <2>2. "offered" \in OnTheWay
      BY DEF OnTheWay
    <2>3. QED
      BY <1>1, <1>2, <1>3, <2>1, <2>2
  <1>10. CASE InsertHold(t)
    <2>1. At(t, "counted") /\ UNCHANGED minute
      BY <1>10 DEF InsertHold
    <2>2. ASSUME Refuse(t, OfferedSlots(minute)), UNCHANGED pageHold
          PROVE  HoldMove /\ RequestMove
      BY <1>1, <1>2, <2>1, <2>2
    <2>3. ASSUME NEW h \in PageHolds, FreshPageHold(h), Inserted(t, h),
                 request' = [request EXCEPT ![t].pc = "held", ![t].hold = h]
          PROVE  HoldMove /\ RequestMove
      <3> DEFINE r == [request[t] EXCEPT !.pc = "held", !.hold = h]
      <3>1. Asking(request[t], minute)
        BY <1>0, <2>1 DEF Shapes, OnTheWay
      <3>2. r.pc = "held" /\ r.hold = h
        BY <3>1 DEF Asking
      <3>3. request' = [request EXCEPT ![t] = r]
        BY <1>0, <2>3 DEF Shapes
      <3>4. HoldMove /\ UsedAfter(h)
        BY <2>1, <2>3, InsertingMoves
      <3> HIDE DEF r
      <3>5. QED
        BY <1>0, <2>1, <2>3, <3>2, <3>3, <3>4, OneRequestTurns
    <2>4. QED
      BY <1>10, <2>2, <2>3 DEF InsertHold, Inserted
  <1>11. CASE StartPayment(t)
    <2>1. /\ At(t, "held") /\ GoesTo(t, "started") /\ UNCHANGED <<minute, pageHold>>
          /\ pageHold'[request[t].hold].status = "held"
      BY <1>11 DEF StartPayment, LiveHold
    <2>2. "held" \in OnTheWay
      BY DEF OnTheWay
    <2>3. QED
      BY <1>1, <1>3, <2>1, <2>2
  <1>12. CASE CalendarRefuses(t) \/ CheckoutFails(t)
    <2>1. PICK times : /\ At(t, "held") /\ GiveHoldBack(request[t].hold) /\ Refuse(t, times)
                       /\ UNCHANGED minute
      BY <1>12 DEF CalendarRefuses, CheckoutFails
    <2>2. QED
      BY <1>0, <1>2, <2>1, GivingBackMoves
  <1>13. QED
    BY <1>4, <1>5, <1>6, <1>7, <1>8, <1>9, <1>10, <1>11, <1>12 DEF TabStep

\* Every step leaves the invariant so, and it is so at first.
LEMMA PayKept ==
    ASSUME CapsInv, PayInv, [Next]_vars
    PROVE  PayInv'
  <1>0. Shapes /\ minute \in Nat /\ PanelShapes
    BY DEF CapsInv, Shapes, PayInv
  <1>1. HoldMove /\ RequestMove
    <2>1. CASE \E t \in Tabs : TabStep(t)
      BY <2>1, TabStepsMove
    <2>2. CASE \/ ReadCalendar \/ FinishLoad \/ LoadFails \/ UNCHANGED vars
               \/ \E a \in Appointments : CoachTakes(a)
      BY <1>0, <2>2, HoldsLeftAlone, RequestsLeftAlone
         DEF ReadCalendar, FinishLoad, LoadFails, vars, CoachTakes
    <2>3. CASE MinutePasses
      <3>1. UNCHANGED <<pageHold, request>> /\ minute' \in Nat /\ minute <= minute'
        BY <1>0, <2>3 DEF MinutePasses
      <3>2. QED
        BY <1>0, <3>1, HoldsLeftAlone, RequestsLeftAlone
    <2>4. CASE \E h \in PageHolds : SweepExpires(h)
      <3>1. PICK h \in PageHolds : SweepExpires(h)
        BY <2>4
      <3>2. /\ pageHold[h].status = "held" /\ pageHold[h].until <= minute
            /\ pageHold' = [pageHold EXCEPT ![h].status = "expired"]
            /\ UNCHANGED <<minute, request>>
        BY <3>1 DEF SweepExpires
      <3>3. QED
        BY <1>0, <3>2, OneHoldEnds, RequestsLeftAlone
    <2>5. QED
      BY <2>1, <2>2, <2>3, <2>4 DEF Next
  <1>2. QED
    BY <1>0, <1>1, PanelMoves, PayFollows

LEMMA PayAtFirst == Init => PayInv
  <1> SUFFICES ASSUME Init PROVE PayInv
    OBVIOUS
  <1>1. PanelShapes /\ \A t \in Tabs : ~Pays(t)
    <2>1. DOMAIN panel = Tabs
      BY DEF Init
    <2> DEFINE first == [BlankPanel EXCEPT !.at = "page", !.step = "slot", !.shown = PageTimes]
    <2>2. \A t \in Tabs : panel[t] = BlankPanel \/ panel[t] = first
      BY DEF Init
    <2>3. PanelShape(BlankPanel) /\ BlankPanel.at = "blank"
      BY DEF PanelShape, BlankPanel
    <2>4. PanelShape(first) /\ first.at = "page"
      BY DEF PanelShape, BlankPanel
    <2> HIDE DEF first
    <2>5. QED
      BY <2>1, <2>2, <2>3, <2>4 DEF PanelShapes, Pays
  <1>2. \A t \in Tabs : \A pc : ~At(t, pc)
    BY DEF Init, At
  <1>3. \A h \in PageHolds : ~Used(h)
    BY DEF Init, NoHold, Used
  <1>4. QED
    BY <1>1, <1>2, <1>3 DEF PayInv, UsedInOrder, OwnHold, PaysForOne, Used

\* The time behind an open payment page goes only when its countdown ends or when its
\* own browser has taken another for the same person (reserveSlotForOrder's release of
\* earlier holds, slot-holds.ts:194, and the way out of a refused checkout).
THEOREM PaymentPageStaysLive == Spec => []PaymentPageIsLive
  <1>1. PayInv => PaymentPageIsLive
    BY DEF PayInv, PaysForOne, Pays, Stands, PaymentPageIsLive
  <1>2. Init => CapsInv /\ PayInv
    BY CapsAtFirst, PayAtFirst
  <1>3. CapsInv /\ PayInv /\ [Next]_vars => (CapsInv /\ PayInv)'
    BY CapsKeptByAll, PayKept
  <1>4. QED
    BY <1>1, <1>2, <1>3, PTL DEF Spec

-----------------------------------------------------------------------------
(* The list and the check, each on its own read of the calendar. *)

\* Both reads see an appointment that stands in a time's way.
LEMMA SameConflicts ==
    ASSUME NEW now \in Nat, NEW x \in Int, now + Notice <= x, NEW taken \in Appointments,
           x + Duration + Buffer <= now + Horizon,
           Overlap(Session(x), Padded(taken))
    PROVE  Overlap(taken, [from |-> now, to |-> now + Horizon]) /\ Overlap(taken, Around(x))
  <1>1. taken.from \in Nat /\ taken.to \in Nat
    BY PageAssumption DEF PageAssumption
  <1>2. x < taken.to + Buffer /\ taken.from - Buffer < x + Duration
    BY DEF Overlap, Session, Padded
  <1>3. QED
    BY <1>1, <1>2, ConstantTypes, NoticeAssumption
       DEF NoticeAssumption, Overlap, Session, Padded, Around

LEMMA ListAndCheckAgree ==
    ASSUME minute \in Nat
    PROVE  OffersAreAccepted
  <1> SUFFICES ASSUME NEW x \in minute .. minute + Horizon, ~AtTheHorizon(x)
               PROVE  x \in FreeOnCalendar(minute) <=> Accepts(x)
    BY DEF OffersAreAccepted
  <1> DEFINE query == [from |-> minute, to |-> minute + Horizon]
             listed == BusyBetween(Events, query)
             checked == BusyBetween(Events, Around(x))
  <1>1. /\ x \in Int /\ minute <= x /\ x + Duration + Buffer <= minute + Horizon
        /\ x + Duration <= minute + Horizon
        /\ query.from \in Int /\ query.to \in Int /\ minute \in Int
    BY ConstantTypes DEF AtTheHorizon
  <1>2. x \in FreeOnCalendar(minute) <=> IsBookableSlot(x, minute, listed)
    <2>1. x \in FreeOnCalendar(minute) <=> x \in CandidateSlots(query, minute, listed)
      BY DEF FreeOnCalendar
    <2> HIDE DEF listed
    <2>2. QED
      BY <1>1, <2>1, ListedIsChecked
  <1>3. ASSUME minute + Notice <= x
        PROVE  ConflictsWithBusy(x, listed) <=> ConflictsWithBusy(x, checked)
    <2>1. Events \subseteq Appointments
      BY DEF Events
    <2>2. \A taken \in Events :
            Overlap(Session(x), Padded(taken)) => taken \in listed /\ taken \in checked
      BY <1>1, <1>3, <2>1, SameConflicts DEF BusyBetween
    <2>3. listed \subseteq Events /\ checked \subseteq Events
      BY DEF BusyBetween
    <2> HIDE DEF listed, checked
    <2>4. QED
      BY <2>2, <2>3 DEF ConflictsWithBusy
  <1>4. QED
    BY <1>2, <1>3 DEF Accepts, IsBookableSlot

\* Whatever the hours, the grid, the buffer, the notice and the coach's diary, the
\* list a customer chooses from and the check made as the time is held agree, but for
\* the last buffer before the horizon (candidateSlots and isBookableSlot, rules.ts).
THEOREM ListedTimesAreAccepted == Spec => []OffersAreAccepted
  <1>1. Init => minute \in Nat
    BY DEF Init
  <1>2. minute \in Nat /\ [Next]_vars => (minute \in Nat)'
    <2> SUFFICES ASSUME minute \in Nat, [Next]_vars PROVE minute' \in Nat
      OBVIOUS
    <2>1. minute' = minute \/ MinutePasses
      BY DEF Next, TabStep, vars, OpenPage, WidgetSolves, TokenExpires, SubmitDetails,
             CaptureLead, CaptureFails, HearDetails, Edit, Continue, CheckPerson,
             LookAtOffers, CountHolds, InsertHold, StartPayment, CalendarRefuses,
             CheckoutFails, HearCheckout, Arrive, GoBack, ReadCalendar, FinishLoad,
             LoadFails, SweepExpires, CoachTakes
    <2>2. QED
      BY <2>1 DEF MinutePasses
  <1>3. minute \in Nat => OffersAreAccepted
    BY ListAndCheckAgree
  <1>4. QED
    BY <1>1, <1>2, <1>3, PTL DEF Spec

-----------------------------------------------------------------------------
(***************************************************************************)
(* The list of times: what pages show, and how old it may be.              *)
(***************************************************************************)

\* What a page shows once a step is taken is what it showed, nothing, what was kept or
\* has been read, or what came with a refusal.
ShownFrom(u) ==
    \/ panel'[u].shown = panel[u].shown /\ panel[u].at \notin {"blank", "waiting"}
    \/ panel'[u].shown = panel[u].shown /\ panel'[u].at # "page"
    \/ panel'[u].shown = {}
    \/ panel[u].at = "blank" /\ Fresh /\ panel'[u].shown \subseteq pageList.times
    \/ /\ panel[u].at = "waiting" /\ pageList.state = "read"
       /\ panel'[u].shown \subseteq pageList.times
    \/ OnPage(u) /\ At(u, "refused") /\ panel'[u].shown = request[u].times

\* So it is in every step.
LEMMA WhereShownComesFrom ==
    ASSUME PanelShapes, [Next]_vars
    PROVE  \A u \in Tabs : ShownFrom(u)
  <1> DEFINE Goal == \A u \in Tabs : ShownFrom(u)
  <1>1. ASSUME panel' = panel PROVE Goal
    BY <1>1 DEF ShownFrom
  <1>2. ASSUME NEW t \in Tabs, NEW p, panel' = [panel EXCEPT ![t] = p],
               panel'[t] = p => ShownFrom(t)
        PROVE  Goal
    <2>1. panel'[t] = p /\ (\A u \in Tabs \ {t} : panel'[u] = panel[u])
      BY <1>2 DEF PanelShapes
    <2>2. QED
      BY <1>2, <2>1 DEF ShownFrom
  <1>3. ASSUME NEW t \in Tabs, NEW p, p.at = panel[t].at, p.shown = panel[t].shown,
               panel' = [panel EXCEPT ![t] = p]
        PROVE  Goal
    <2>1. panel'[t] = p => ShownFrom(t)
      BY <1>3 DEF ShownFrom
    <2> HIDE DEF Goal
    <2>2. QED
      BY <1>2, <1>3, <2>1
  <1>4. \A t \in Tabs : PanelShape(panel[t])
    BY DEF PanelShapes
  <1>5. ASSUME NEW p, NEW times, PanelShape(p)
        PROVE  Shows(p, times).shown \subseteq times
    BY <1>5 DEF PanelShape, Shows, StillBookable
  <1>6. ASSUME NEW p, PanelShape(p)
        PROVE  /\ Renewed(p).at = p.at /\ Renewed(p).shown = p.shown /\ PanelShape(Renewed(p))
               /\ Sent(p).at = p.at /\ Sent(p).shown = p.shown
               /\ \A step : AtStep(p, step).at = p.at /\ AtStep(p, step).shown = p.shown
    BY <1>6 DEF PanelShape, Renewed, Sent, AtStep
  <1>7. ASSUME NEW times,
               \/ pageList.state = "read" /\ times \subseteq pageList.times
               \/ times = {},
               panel' = [t \in Tabs |-> IF panel[t].at = "waiting" THEN Shows(panel[t], times)
                                       ELSE panel[t]]
        PROVE  Goal
    <2> SUFFICES ASSUME NEW u \in Tabs PROVE ShownFrom(u)
      OBVIOUS
    <2>1. CASE panel[u].at = "waiting"
      <3>1. panel'[u].shown \subseteq times
        BY <1>4, <1>5, <1>7, <2>1
      <3>2. QED
        BY <1>7, <2>1, <3>1 DEF ShownFrom
    <2>2. CASE panel[u].at # "waiting"
      BY <1>7, <2>2 DEF ShownFrom
    <2>3. QED
      BY <2>1, <2>2
  <1> HIDE DEF Goal
  <1>8. ASSUME NEW t \in Tabs, OpenPage(t)
        PROVE  Goal
    <2> DEFINE p == [panel[t] EXCEPT !.asked = minute]
               q == [p EXCEPT !.at = "waiting"]
    <2>1. PanelShape(p) /\ p.shown = panel[t].shown
      BY <1>4 DEF PanelShape
    <2>2. q.shown = panel[t].shown /\ q.at = "waiting"
      BY <2>1 DEF PanelShape
    <2>3. \/ Fresh /\ panel' = [panel EXCEPT ![t] = Shows(p, pageList.times)]
          \/ panel' = [panel EXCEPT ![t] = q]
      BY <1>8 DEF OpenPage
    <2>4. panel[t].at = "blank"
      BY <1>8 DEF OpenPage
    <2> HIDE DEF p, q
    <2>5. ASSUME Fresh, panel' = [panel EXCEPT ![t] = Shows(p, pageList.times)]
          PROVE  Goal
      <3>1. Shows(p, pageList.times).shown \subseteq pageList.times
        BY <1>5, <2>1
      <3>2. panel'[t] = Shows(p, pageList.times) => ShownFrom(t)
        BY <2>4, <2>5, <3>1 DEF ShownFrom
      <3>3. QED
        BY <1>2, <2>5, <3>2
    <2>6. ASSUME panel' = [panel EXCEPT ![t] = q] PROVE Goal
      <3>1. panel'[t] = q => ShownFrom(t)
        BY <2>2 DEF ShownFrom
      <3>2. QED
        BY <1>2, <2>6, <3>1
    <2>7. QED
      BY <2>3, <2>5, <2>6
  <1>9. ASSUME NEW t \in Tabs, WidgetSolves(t) \/ TokenExpires(t)
        PROVE  Goal
    <2>1. PICK p \in {[panel[t] EXCEPT !.token = "fresh", !.widget = "solved"],
                      [panel[t] EXCEPT !.token = "none", !.widget = "working"]} :
             panel' = [panel EXCEPT ![t] = p]
      BY <1>9 DEF WidgetSolves, TokenExpires
    <2>2. p.at = panel[t].at /\ p.shown = panel[t].shown
      BY <1>4, <2>1 DEF PanelShape
    <2>3. QED
      BY <1>3, <2>1, <2>2
  <1>10. ASSUME NEW t \in Tabs,
                \/ \E e \in Emails : SubmitDetails(t, e)
                \/ \E x \in PageTimes : Continue(t, x)
         PROVE  Goal
    <2>1. panel' = [panel EXCEPT ![t] = Sent(panel[t])]
      BY <1>10 DEF SubmitDetails, Continue
    <2>2. QED
      BY <1>3, <1>4, <1>6, <2>1
  <1>11. ASSUME NEW t \in Tabs, HearDetails(t) \/ Edit(t)
         PROVE  Goal
    <2>1. PICK p \in {Renewed(panel[t]), AtStep(panel[t], "slot"), AtStep(panel[t], "details")} :
             panel' = [panel EXCEPT ![t] = p]
      BY <1>11 DEF HearDetails, Edit
    <2>2. QED
      BY <1>3, <1>4, <1>6, <2>1
  <1>12. ASSUME NEW t \in Tabs, HearCheckout(t)
         PROVE  Goal
    <2>1. CASE ~OnPage(t)
      <3>1. panel' = [panel EXCEPT ![t] = panel[t]]
        BY <1>12, <2>1 DEF HearCheckout
      <3>2. QED
        BY <1>3, <3>1
    <2>2. CASE OnPage(t) /\ At(t, "started")
      <3> DEFINE p == [panel[t] EXCEPT !.at = "leaving", !.hold = request[t].hold]
      <3>1. panel' = [panel EXCEPT ![t] = p]
        BY <1>12, <2>2 DEF HearCheckout
      <3>2. p.shown = panel[t].shown /\ p.at = "leaving"
        BY <1>4 DEF PanelShape
      <3> HIDE DEF p
      <3>3. panel'[t] = p => ShownFrom(t)
        BY <3>2 DEF ShownFrom
      <3>4. QED
        BY <1>2, <3>1, <3>3
    <2>3. CASE OnPage(t) /\ ~At(t, "started")
      <3> DEFINE p == [Renewed(panel[t]) EXCEPT !.shown = request[t].times]
      <3>1. panel' = [panel EXCEPT ![t] = p] /\ At(t, "refused")
        BY <1>12, <2>3 DEF HearCheckout
      <3>2. p.shown = request[t].times
        BY <1>4, <1>6 DEF PanelShape
      <3> HIDE DEF p
      <3>3. panel'[t] = p => ShownFrom(t)
        BY <2>3, <3>1, <3>2 DEF ShownFrom
      <3>4. QED
        BY <1>2, <3>1, <3>3
    <2>4. QED
      BY <2>1, <2>2, <2>3
  <1>13. ASSUME NEW t \in Tabs, Arrive(t)
         PROVE  Goal
    <2> DEFINE p == [panel[t] EXCEPT !.at = "paying"]
    <2>1. panel' = [panel EXCEPT ![t] = p]
      BY <1>13 DEF Arrive
    <2>2. p.shown = panel[t].shown /\ p.at = "paying"
      BY <1>4 DEF PanelShape
    <2> HIDE DEF p
    <2>3. panel'[t] = p => ShownFrom(t)
      BY <2>2 DEF ShownFrom
    <2>4. QED
      BY <1>2, <2>1, <2>3
  <1>14. ASSUME NEW t \in Tabs, GoBack(t)
         PROVE  Goal
    <2> DEFINE p == [panel[t] EXCEPT !.at = "page", !.hold = None]
    <2>1. panel[t].at = "paying" /\ \E q \in {BlankPanel, p} : panel' = [panel EXCEPT ![t] = q]
      BY <1>14 DEF GoBack
    <2>2. p.shown = panel[t].shown /\ BlankPanel.shown = {}
      BY <1>4 DEF PanelShape, BlankPanel
    <2> HIDE DEF p
    <2>3. PICK q \in {BlankPanel, p} : panel' = [panel EXCEPT ![t] = q]
      BY <2>1
    <2>4. panel'[t] = q => ShownFrom(t)
      BY <2>1, <2>2, <2>3 DEF ShownFrom
    <2>5. QED
      BY <1>2, <2>3, <2>4
  <1>15. ASSUME FinishLoad PROVE Goal
    <2> DEFINE times == WithoutHeld(pageList.times, pageList.since)
    <2>1. pageList.state = "read" /\ times \subseteq pageList.times
      BY <1>15 DEF FinishLoad, WithoutHeld
    <2>2. panel' = [t \in Tabs |-> IF panel[t].at = "waiting" THEN Shows(panel[t], times)
                                   ELSE panel[t]]
      BY <1>15 DEF FinishLoad, ToAllWaiting
    <2> HIDE DEF times
    <2>3. QED
      BY <1>7, <2>1, <2>2
  <1>16. ASSUME LoadFails PROVE Goal
    BY <1>7, <1>16 DEF LoadFails, ToAllWaiting
  <1>17. ASSUME \/ \E t \in Tabs : \/ CaptureLead(t) \/ CaptureFails(t) \/ CheckPerson(t)
                                   \/ LookAtOffers(t) \/ CountHolds(t) \/ InsertHold(t)
                                   \/ StartPayment(t) \/ CalendarRefuses(t) \/ CheckoutFails(t)
                \/ ReadCalendar \/ MinutePasses \/ UNCHANGED vars
                \/ \E h \in PageHolds : SweepExpires(h)
                \/ \E a \in Appointments : CoachTakes(a)
         PROVE  Goal
    <2>1. panel' = panel
      BY <1>17 DEF CaptureLead, CaptureFails, CheckPerson, LookAtOffers, CountHolds, InsertHold,
                   StartPayment, CalendarRefuses, CheckoutFails, ReadCalendar, MinutePasses, vars,
                   SweepExpires, CoachTakes
    <2>2. QED
      BY <1>1, <2>1
  <1>18. Goal
    BY <1>8, <1>9, <1>10, <1>11, <1>12, <1>13, <1>14, <1>15, <1>16, <1>17 DEF Next, TabStep
  <1>19. QED
    BY <1>18 DEF Goal

\* The list being loaded, or kept: when it was asked for, and that nothing on it was
\* taken before.
ListsInv ==
    /\ minute \in Nat
    /\ {"state", "since", "times"} \subseteq DOMAIN pageList
    /\ pageList.since \in 0 .. minute /\ pageList.times \subseteq Int
    /\ DOMAIN diary = Appointments
    /\ \A a \in Appointments : diary[a] # None => diary[a] \in 0 .. minute
    /\ pageList.state \in {"read", "ready"} => NoneTakenBefore(pageList.times, pageList.since)

\* What the clock and the lag are.
LEMMA Clocks == PageLag \in Nat /\ LastMinute \in Nat
  BY PageAssumption DEF PageAssumption

\* A read sees every appointment that could be in a listed time's way.
LEMMA ReadSeesAll ==
    ASSUME minute \in Nat, NEW since \in 0 .. minute
    PROVE  /\ FreeOnCalendar(since) \subseteq Int
           /\ NoneTakenBefore(FreeOnCalendar(since), since)
  <1> DEFINE query == [from |-> since, to |-> since + Horizon]
             listed == BusyBetween(Events, query)
  <1>1. /\ query.from \in Int /\ query.to \in Int /\ minute \in Int /\ since \in Nat
        /\ query.from = since /\ query.to = since + Horizon
    BY ConstantTypes
  <1>2. FreeOnCalendar(since) = CandidateSlots(query, minute, listed)
    BY DEF FreeOnCalendar
  <1> HIDE DEF listed
  <1>3. FreeOnCalendar(since) \subseteq Int
    BY <1>1, <1>2, ListedAreInstants
  <1>4. ASSUME NEW x \in FreeOnCalendar(since), NEW a \in Appointments,
               diary[a] # None, ConflictsWithBusy(x, {a}),
               x + Duration + Buffer <= since + Horizon
        PROVE  FALSE
    <2>1. x \in Int
      BY <1>3
    <2>2. IsBookableSlot(x, minute, listed)
      BY <1>1, <1>2, <2>1, ListedIsChecked
    <2>3. minute + Notice <= x /\ ~ConflictsWithBusy(x, listed)
      BY <2>2 DEF IsBookableSlot
    <2>4. since + Notice <= x
      BY <1>1, <2>1, <2>3, ConstantTypes
    <2>5. Overlap(Session(x), Padded(a))
      BY <1>4 DEF ConflictsWithBusy
    <2>6. Overlap(a, [from |-> since, to |-> since + Horizon])
      BY <1>1, <1>4, <2>1, <2>4, <2>5, SameConflicts
    <2>7. a \in listed
      BY <1>4, <2>6 DEF listed, BusyBetween, Events
    <2>8. QED
      BY <2>3, <2>5, <2>7 DEF ConflictsWithBusy
  <1>5. QED
    BY <1>3, <1>4 DEF NoneTakenBefore

\* Fewer times, asked for earlier.
LEMMA FewerTaken ==
    ASSUME NEW times, NEW since \in Int, NoneTakenBefore(times, since), times \subseteq Int,
           NEW fewer, fewer \subseteq times, NEW earlier \in Int, earlier <= since,
           \A a \in Appointments : diary[a] # None => diary[a] \in Int
    PROVE  NoneTakenBefore(fewer, earlier)
  <1> SUFFICES ASSUME NEW x \in fewer, NEW a \in Appointments, diary[a] # None,
                      ConflictsWithBusy(x, {a}), x + Duration + Buffer <= earlier + Horizon
               PROVE  diary[a] >= earlier
    BY DEF NoneTakenBefore
  <1>1. x \in times /\ x \in Int
    OBVIOUS
  <1>2. x + Duration + Buffer <= since + Horizon
    BY <1>1, ConstantTypes
  <1>3. diary[a] >= since
    BY <1>1, <1>2 DEF NoneTakenBefore
  <1>4. QED
    BY <1>3

\* There is no list at first, and every step leaves it so.
LEMMA ListsAtFirst == Init => ListsInv
  <1> SUFFICES ASSUME Init PROVE ListsInv
    OBVIOUS
  <1>1. minute = 0 /\ diary = [a \in Appointments |-> None] /\ pageList = NoList
    BY DEF Init
  <1>2. DOMAIN diary = Appointments /\ \A a \in Appointments : diary[a] = None
    BY <1>1
  <1>3. /\ {"state", "since", "times"} \subseteq DOMAIN pageList
        /\ pageList.since = 0 /\ pageList.times = {} /\ pageList.state = "none"
    BY <1>1 DEF NoList
  <1>4. QED
    BY <1>1, <1>2, <1>3 DEF ListsInv

\* A step that leaves the list, or what is on it, alone: who is taken now is taken now.
LEMMA ListStays ==
    ASSUME ListsInv, minute' \in Nat, minute <= minute', DOMAIN diary' = Appointments,
           \A a \in Appointments : diary'[a] = diary[a] \/ diary'[a] = minute,
           {"state", "since", "times"} \subseteq DOMAIN pageList',
           pageList'.since = pageList.since, pageList'.times \subseteq pageList.times,
           pageList'.state \in {"read", "ready"} => pageList.state \in {"read", "ready"}
    PROVE  ListsInv'
  <1>1. pageList'.since \in 0 .. minute' /\ pageList'.times \subseteq Int
    BY DEF ListsInv
  <1>2. \A a \in Appointments : diary'[a] # None => diary'[a] \in 0 .. minute'
    BY DEF ListsInv
  <1>3. ASSUME pageList'.state \in {"read", "ready"}
        PROVE  \A x \in pageList'.times, a \in Appointments :
                 diary'[a] # None /\ ConflictsWithBusy(x, {a})
                 /\ x + Duration + Buffer <= pageList'.since + Horizon
                   => diary'[a] >= pageList'.since
    <2> SUFFICES ASSUME NEW x \in pageList'.times, NEW a \in Appointments,
                        diary'[a] # None, ConflictsWithBusy(x, {a}),
                        x + Duration + Buffer <= pageList'.since + Horizon
                 PROVE  diary'[a] >= pageList'.since
      OBVIOUS
    <2>1. CASE diary'[a] = diary[a]
      BY <1>3, <2>1 DEF ListsInv, NoneTakenBefore
    <2>2. CASE diary'[a] = minute
      BY <2>2 DEF ListsInv
    <2>3. QED
      BY <2>1, <2>2
  <1>4. pageList'.state \in {"read", "ready"} => NoneTakenBefore(pageList.times, pageList.since)'
    BY <1>3 DEF NoneTakenBefore
  <1>5. QED
    BY <1>1, <1>2, <1>4 DEF ListsInv

LEMMA ListsKept ==
    ASSUME ListsInv, [Next]_vars
    PROVE  ListsInv'
  <1>1. ASSUME UNCHANGED <<minute, diary, pageList>> PROVE ListsInv'
    BY <1>1 DEF ListsInv, NoneTakenBefore
  <1>2. CASE \E t \in Tabs : TabStep(t) /\ ~OpenPage(t)
    <2>1. UNCHANGED <<minute, diary, pageList>>
      BY <1>2 DEF TabStep, WidgetSolves, TokenExpires, SubmitDetails,
             CaptureLead, CaptureFails, HearDetails, Edit, Continue, CheckPerson,
             LookAtOffers, CountHolds, InsertHold, StartPayment, CalendarRefuses,
             CheckoutFails, HearCheckout, Arrive, GoBack
    <2>2. QED
      BY <1>1, <2>1
  <1>3. CASE UNCHANGED vars \/ \E h \in PageHolds : SweepExpires(h)
    BY <1>1, <1>3 DEF vars, SweepExpires
  <1>4. ASSUME NEW t \in Tabs, OpenPage(t) PROVE ListsInv'
    <2> DEFINE new == [state |-> "loading", since |-> minute, times |-> {}]
    <2>1. UNCHANGED <<minute, diary>> /\ (pageList' = pageList \/ pageList' = new)
      BY <1>4 DEF OpenPage
    <2>2. CASE pageList' = new
      <3>1. /\ {"state", "since", "times"} \subseteq DOMAIN pageList'
            /\ pageList'.since = minute /\ pageList'.times = {} /\ pageList'.state = "loading"
        BY <2>2
      <3> HIDE DEF new
      <3>2. QED
        BY <2>1, <3>1 DEF ListsInv
    <2>3. QED
      BY <1>1, <2>1, <2>2
  <1>5. CASE ReadCalendar
    <2> DEFINE times == FreeOnCalendar(pageList.since)
               new == [pageList EXCEPT !.state = "read", !.times = times]
    <2>1. UNCHANGED <<minute, diary>> /\ pageList' = new
      BY <1>5 DEF ReadCalendar
    <2>2. /\ {"state", "since", "times"} \subseteq DOMAIN new
          /\ new.since = pageList.since /\ new.times = times
      BY DEF ListsInv
    <2>3. times \subseteq Int /\ NoneTakenBefore(times, pageList.since)
      BY ReadSeesAll DEF ListsInv
    <2> HIDE DEF new, times
    <2>4. NoneTakenBefore(pageList.times, pageList.since)'
      BY <2>1, <2>2, <2>3 DEF NoneTakenBefore
    <2>5. QED
      BY <2>1, <2>2, <2>3, <2>4 DEF ListsInv
  <1>6. CASE FinishLoad
    <2> DEFINE times == WithoutHeld(pageList.times, pageList.since)
               new == [state |-> "ready", since |-> pageList.since, times |-> times,
                       ended |-> minute]
    <2>1. UNCHANGED <<minute, diary>> /\ pageList' = new /\ pageList.state = "read"
      BY <1>6 DEF FinishLoad
    <2>2. /\ {"state", "since", "times"} \subseteq DOMAIN new
          /\ new.since = pageList.since /\ new.times \subseteq pageList.times
      BY DEF WithoutHeld
    <2> HIDE DEF new
    <2>3. QED
      BY <2>1, <2>2, ListStays DEF ListsInv
  <1>7. CASE LoadFails
    <2>1. UNCHANGED <<minute, diary>> /\ pageList' = NoList
      BY <1>7 DEF LoadFails
    <2>2. /\ {"state", "since", "times"} \subseteq DOMAIN NoList
          /\ NoList.since = 0 /\ NoList.times = {} /\ NoList.state = "none"
      BY DEF NoList
    <2>3. QED
      BY <2>1, <2>2 DEF ListsInv
  <1>8. ASSUME NEW a \in Appointments, CoachTakes(a) PROVE ListsInv'
    <2>1. /\ UNCHANGED <<minute, pageList>> /\ DOMAIN diary' = Appointments
          /\ \A b \in Appointments : diary'[b] = diary[b] \/ diary'[b] = minute
      BY <1>8 DEF CoachTakes, ListsInv
    <2>2. QED
      BY <2>1, ListStays DEF ListsInv
  <1>9. CASE MinutePasses
    <2>1. UNCHANGED <<diary, pageList>> /\ minute' \in Nat /\ minute <= minute'
      BY <1>9 DEF MinutePasses, ListsInv
    <2>2. QED
      BY <2>1, ListStays DEF ListsInv
  <1>10. QED
    BY <1>2, <1>3, <1>4, <1>5, <1>6, <1>7, <1>8, <1>9 DEF Next

\* A list served from the one kept shows no time taken more than PageLag ago, and a
\* page that waited for a load none taken before it began, however long it took
\* (the single-flight cache's clock starts with the load, single-flight-cache.ts:42).
THEOREM PageLagAlwaysBounded == Spec => PageLagIsBounded
  <1>1. Init => CapsInv /\ ListsInv /\ PanelShapes
    BY CapsAtFirst, ListsAtFirst, PayAtFirst DEF PayInv
  <1>2. ListsInv /\ PanelShapes /\ [Next]_vars => ListsInv'
    BY ListsKept
  <1>3. ASSUME ListsInv, PanelShapes, [Next]_vars PROVE ListsAreRecent
    <2> SUFFICES ASSUME NEW t \in Tabs, panel'[t].at = "page"
                 PROVE  /\ panel[t].at = "blank" =>
                             NoneTakenBefore(panel'[t].shown, minute - PageLag + 1)
                        /\ panel[t].at = "waiting" =>
                             NoneTakenBefore(panel'[t].shown, pageList.since)
      BY DEF ListsAreRecent
    <2>1. ShownFrom(t)
      BY <1>3, WhereShownComesFrom
    <2>2. CASE panel'[t].shown = {}
      BY <2>2 DEF NoneTakenBefore
    <2>3. ASSUME panel[t].at = "blank", Fresh, panel'[t].shown \subseteq pageList.times
          PROVE  NoneTakenBefore(panel'[t].shown, minute - PageLag + 1)
      <3>1. /\ pageList.since \in Int /\ minute - PageLag + 1 \in Int
            /\ minute - PageLag + 1 <= pageList.since
        BY <1>3, <2>3, Clocks DEF ListsInv, Fresh
      <3>2. NoneTakenBefore(pageList.times, pageList.since) /\ pageList.times \subseteq Int
            /\ \A a \in Appointments : diary[a] # None => diary[a] \in Int
        BY <1>3, <2>3 DEF ListsInv, Fresh
      <3>3. QED
        BY <2>3, <3>1, <3>2, FewerTaken
    <2>4. ASSUME pageList.state = "read", panel'[t].shown \subseteq pageList.times
          PROVE  NoneTakenBefore(panel'[t].shown, pageList.since)
      <3>1. /\ pageList.since \in Int /\ NoneTakenBefore(pageList.times, pageList.since)
            /\ pageList.times \subseteq Int
            /\ \A a \in Appointments : diary[a] # None => diary[a] \in Int
        BY <1>3, <2>4 DEF ListsInv
      <3>2. QED
        BY <2>4, <3>1, FewerTaken
    <2>5. QED
      BY <2>1, <2>2, <2>3, <2>4 DEF ShownFrom, OnPage
  <1>4. CapsInv /\ PanelShapes /\ [Next]_vars => (CapsInv /\ PanelShapes)'
    BY CapsKeptByAll, PanelMoves DEF CapsInv
  <1>5. QED
    BY <1>1, <1>2, <1>3, <1>4, PTL DEF Spec, PageLagIsBounded

-----------------------------------------------------------------------------
(***************************************************************************)
(* The types.                                                              *)
(***************************************************************************)
\* A request, as far as the times in it go.
RequestFine(r) ==
    r # NoRequest =>
      /\ r.pc \in OnTheWay \union {"details", "captured", "refused"}
      /\ r.pc = "refused" => r.times \subseteq PageTimes
      /\ r.pc \in OnTheWay => r.time \in PageTimes

TypeInv ==
    /\ minute \in 0 .. LastMinute
    /\ pageList.state \in {"none", "loading", "read", "ready"}
    /\ pageList.times \subseteq PageTimes
    /\ \A t \in Tabs : panel[t].shown \subseteq PageTimes
    /\ \A t \in Tabs : RequestFine(request[t])
    /\ \A t \in Tabs : limitsLock = t => At(t, "counted")
    /\ \A h \in PageHolds : HoldOK(h)

AllInv == CapsInv /\ PayInv /\ ListsInv /\ TypeInv

\* Every time on a list is on sale.
LEMMA ListedIsOnSale ==
    ASSUME minute \in 0 .. LastMinute, NEW since \in 0 .. minute
    PROVE  FreeOnCalendar(since) \subseteq PageTimes
  <1> DEFINE query == [from |-> since, to |-> since + Horizon]
             listed == BusyBetween(Events, query)
  <1>1. /\ query.from \in Int /\ query.to \in Int /\ minute \in Nat /\ minute <= LastMinute
    BY ConstantTypes, Clocks
  <1>2. FreeOnCalendar(since) = CandidateSlots(query, minute, listed)
    BY DEF FreeOnCalendar
  <1> HIDE DEF listed, query
  <1>3. ASSUME NEW x \in FreeOnCalendar(since) PROVE x \in PageTimes
    <2>1. x \in Int
      BY <1>1, ReadSeesAll
    <2>2. IsBookableSlot(x, minute, listed) /\ x + Duration <= minute + Horizon
      BY <1>1, <1>2, <1>3, <2>1, ListedIsChecked
    <2>3. minute + Notice <= x /\ FitsAWindow(x)
      BY <2>2 DEF IsBookableSlot
    <2>4. x + Duration <= LastMinute + Horizon /\ x \in Notice .. LastMinute + Horizon
      BY <1>1, <2>1, <2>2, <2>3, ConstantTypes, Clocks
    <2>5. QED
      BY <2>3, <2>4, TimesAssumption DEF TimesAssumption
  <1>4. QED
    BY <1>3

LEMMA OfferedIsOnSale ==
    ASSUME minute \in 0 .. LastMinute, NEW now \in 0 .. minute
    PROVE  OfferedSlots(now) \subseteq PageTimes
  BY ListedIsOnSale DEF OfferedSlots, WithoutHeld

\* It is so at first.
LEMMA TypesAtFirst == Init => TypeInv
  <1> SUFFICES ASSUME Init PROVE TypeInv
    OBVIOUS
  <1>1. minute \in 0 .. LastMinute
    BY Clocks DEF Init
  <1>2. pageList.state = "none" /\ pageList.times = {}
    BY DEF Init, NoList
  <1>3. \A t \in Tabs : panel[t].shown \subseteq PageTimes
    <2> DEFINE first == [BlankPanel EXCEPT !.at = "page", !.step = "slot", !.shown = PageTimes]
    <2>1. \A t \in Tabs : panel[t] = BlankPanel \/ panel[t] = first
      BY DEF Init
    <2>2. BlankPanel.shown = {} /\ first.shown = PageTimes
      BY DEF BlankPanel
    <2> HIDE DEF first
    <2>3. QED
      BY <2>1, <2>2
  <1>4. \A t \in Tabs : RequestFine(request[t]) /\ limitsLock # t
    BY PageTypes DEF Init, RequestFine
  <1>5. \A h \in PageHolds : HoldOK(h)
    BY DEF Init, HoldOK
  <1>6. QED
    BY <1>1, <1>2, <1>3, <1>4, <1>5 DEF TypeInv

\* What pages show.
LEMMA ShownIsOnSale ==
    ASSUME PayInv, TypeInv, [Next]_vars
    PROVE  \A t \in Tabs : panel'[t].shown \subseteq PageTimes
  <1> SUFFICES ASSUME NEW t \in Tabs PROVE panel'[t].shown \subseteq PageTimes
    OBVIOUS
  <1>1. ShownFrom(t)
    BY WhereShownComesFrom DEF PayInv
  <1>2. At(t, "refused") => request[t].times \subseteq PageTimes
    BY DEF TypeInv, RequestFine, At
  <1>3. QED
    BY <1>1, <1>2 DEF ShownFrom, TypeInv

\* The clock and the list.
LEMMA ListTypes ==
    ASSUME ListsInv, TypeInv, [Next]_vars
    PROVE  /\ minute' \in 0 .. LastMinute
           /\ pageList'.state \in {"none", "loading", "read", "ready"}
           /\ pageList'.times \subseteq PageTimes
  <1> DEFINE Goal == /\ minute' \in 0 .. LastMinute
                     /\ pageList'.state \in {"none", "loading", "read", "ready"}
                     /\ pageList'.times \subseteq PageTimes
  <1>1. ASSUME UNCHANGED <<minute, pageList>> PROVE Goal
    BY <1>1 DEF TypeInv
  <1>2. CASE \E t \in Tabs : TabStep(t) /\ ~OpenPage(t)
    <2>1. UNCHANGED <<minute, pageList>>
      BY <1>2 DEF TabStep, WidgetSolves, TokenExpires, SubmitDetails,
             CaptureLead, CaptureFails, HearDetails, Edit, Continue, CheckPerson,
             LookAtOffers, CountHolds, InsertHold, StartPayment, CalendarRefuses,
             CheckoutFails, HearCheckout, Arrive, GoBack
    <2>2. QED
      BY <1>1, <2>1
  <1>3. CASE \/ UNCHANGED vars \/ \E h \in PageHolds : SweepExpires(h)
             \/ \E a \in Appointments : CoachTakes(a)
    BY <1>1, <1>3 DEF vars, SweepExpires, CoachTakes
  <1>4. ASSUME NEW t \in Tabs, OpenPage(t) PROVE Goal
    <2> DEFINE new == [state |-> "loading", since |-> minute, times |-> {}]
    <2>1. UNCHANGED minute /\ (pageList' = pageList \/ pageList' = new)
      BY <1>4 DEF OpenPage
    <2>2. new.state = "loading" /\ new.times = {}
      OBVIOUS
    <2> HIDE DEF new
    <2>3. QED
      BY <2>1, <2>2 DEF TypeInv
  <1>5. CASE ReadCalendar
    <2> DEFINE times == FreeOnCalendar(pageList.since)
               new == [pageList EXCEPT !.state = "read", !.times = times]
    <2>1. UNCHANGED minute /\ pageList' = new
      BY <1>5 DEF ReadCalendar
    <2>2. new.state = "read" /\ new.times = times
      BY DEF ListsInv
    <2>3. times \subseteq PageTimes
      BY ListedIsOnSale DEF ListsInv, TypeInv
    <2> HIDE DEF new, times
    <2>4. QED
      BY <2>1, <2>2, <2>3 DEF TypeInv
  <1>6. CASE FinishLoad
    <2> DEFINE times == WithoutHeld(pageList.times, pageList.since)
               new == [state |-> "ready", since |-> pageList.since, times |-> times,
                       ended |-> minute]
    <2>1. UNCHANGED minute /\ pageList' = new
      BY <1>6 DEF FinishLoad
    <2>2. new.state = "ready" /\ new.times \subseteq pageList.times
      BY DEF WithoutHeld
    <2> HIDE DEF new
    <2>3. QED
      BY <2>1, <2>2 DEF TypeInv
  <1>7. CASE LoadFails
    <2>1. UNCHANGED minute /\ pageList' = NoList /\ NoList.times = {} /\ NoList.state = "none"
      BY <1>7 DEF LoadFails, NoList
    <2>2. QED
      BY <2>1 DEF TypeInv
  <1>8. CASE MinutePasses
    BY <1>8, Clocks DEF MinutePasses, TypeInv
  <1>9. QED
    BY <1>2, <1>3, <1>4, <1>5, <1>6, <1>7, <1>8 DEF Next

\* One request changes.
LEMMA OneRequestFine ==
    ASSUME Shapes, TypeInv, NEW t \in Tabs, NEW r, request' = [request EXCEPT ![t] = r],
           RequestFine(r)
    PROVE  \A u \in Tabs : RequestFine(request'[u])
  BY DEF Shapes, TypeInv

\* Requests, the lock and the holds.
LEMMA TabTypes ==
    ASSUME CapsInv, PayInv, TypeInv, NEW t \in Tabs, TabStep(t)
    PROVE  /\ \A u \in Tabs : RequestFine(request'[u])
           /\ \A u \in Tabs : limitsLock' = u => At(u, "counted")'
           /\ \A h \in PageHolds : HoldOK(h)'
  <1> DEFINE Fine == \A u \in Tabs : RequestFine(request'[u])
             Lock == \A u \in Tabs : limitsLock' = u => At(u, "counted")'
             Rows == \A h \in PageHolds : HoldOK(h)'
  <1>0. Shapes /\ minute \in 0 .. LastMinute /\ minute \in Nat
    BY DEF CapsInv, Shapes, TypeInv
  <1>1. ASSUME pageHold' = pageHold PROVE Rows
    BY <1>1 DEF TypeInv, HoldOK
  <1>2. ASSUME NEW r, request' = [request EXCEPT ![t] = r], ~At(t, "counted"),
               limitsLock' = limitsLock
        PROVE  Lock
    <2>1. \A u \in Tabs : u # t => request'[u] = request[u]
      BY <1>0, <1>2 DEF Shapes
    <2>2. QED
      BY <1>2, <2>1 DEF TypeInv, At
  <1>3. ASSUME NEW times, times \subseteq PageTimes, Refuse(t, times) PROVE Fine
    <2> DEFINE r == [pc |-> "refused", times |-> times]
    <2>1. request' = [request EXCEPT ![t] = r]
      BY <1>3 DEF Refuse
    <2>2. RequestFine(r)
      BY <1>3 DEF RequestFine, OnTheWay
    <2> HIDE DEF r
    <2>3. QED
      BY <1>0, <2>1, <2>2, OneRequestFine
  <1>4. ASSUME NEW was \in OnTheWay, At(t, was), NEW pc \in OnTheWay, GoesTo(t, pc) PROVE Fine
    <2> DEFINE r == [request[t] EXCEPT !.pc = pc]
    <2>1. Asking(request[t], minute)
      BY <1>0, <1>4 DEF Shapes
    <2>2. r.pc = pc /\ r.time = request[t].time
      BY <2>1 DEF Asking
    <2>3. request' = [request EXCEPT ![t] = r]
      BY <1>4 DEF GoesTo
    <2>4. request[t].time \in PageTimes
      BY <1>4 DEF TypeInv, RequestFine, At
    <2> HIDE DEF r
    <2>5. RequestFine(r)
      BY <1>4, <2>2, <2>4 DEF RequestFine, OnTheWay
    <2>6. QED
      BY <1>0, <2>3, <2>5, OneRequestFine
  <1>5. ASSUME NEW was \in OnTheWay, At(t, was) PROVE request[t].now \in 0 .. minute
    BY <1>0, <1>5 DEF Shapes, Asking
  <1>6. panel[t].shown \subseteq PageTimes
    BY DEF TypeInv
  <1> HIDE DEF Fine, Lock, Rows
  <1>7. CASE UNCHANGED <<request, limitsLock, pageHold>>
    <2>1. Fine
      BY <1>7 DEF Fine, TypeInv
    <2>2. Lock
      BY <1>7 DEF Lock, TypeInv, At
    <2>3. QED
      BY <1>1, <1>7, <2>1, <2>2 DEF Fine, Lock, Rows
  <1>8. CASE OpenPage(t) \/ WidgetSolves(t) \/ TokenExpires(t) \/ Edit(t) \/ Arrive(t) \/ GoBack(t)
    BY <1>7, <1>8 DEF OpenPage, WidgetSolves, TokenExpires, Edit, Arrive, GoBack
  <1>9. ASSUME NEW r, request' = [request EXCEPT ![t] = r], RequestFine(r), ~At(t, "counted"),
               UNCHANGED <<limitsLock, pageHold>>
        PROVE  Fine /\ Lock /\ Rows
    BY <1>0, <1>1, <1>2, <1>9, OneRequestFine DEF Fine
  <1>10. CASE HearDetails(t) \/ HearCheckout(t)
    <2>1. /\ request' = [request EXCEPT ![t] = NoRequest] /\ UNCHANGED <<limitsLock, pageHold>>
          /\ ~At(t, "counted")
      BY <1>10 DEF HearDetails, HearCheckout, At
    <2>2. RequestFine(NoRequest)
      BY DEF RequestFine
    <2>3. QED
      BY <1>9, <2>1, <2>2 DEF Fine, Lock, Rows
  <1>11. ASSUME NEW e \in Emails, SubmitDetails(t, e) PROVE Fine /\ Lock /\ Rows
    <2> DEFINE r == [pc |-> "details", email |-> e, lead |-> cookie[BrowserOf[t]],
                     token |-> panel[t].token]
    <2>1. /\ request' = [request EXCEPT ![t] = r] /\ UNCHANGED <<limitsLock, pageHold>>
          /\ ~At(t, "counted")
      BY <1>11 DEF SubmitDetails, CanContinue, At
    <2>2. RequestFine(r)
      BY DEF RequestFine, OnTheWay
    <2> HIDE DEF r
    <2>3. QED
      BY <1>9, <2>1, <2>2
  <1>12. ASSUME NEW x \in PageTimes, Continue(t, x) PROVE Fine /\ Lock /\ Rows
    <2> DEFINE r == [pc |-> "asked", time |-> x, lead |-> cookie[BrowserOf[t]],
                     token |-> panel[t].token, now |-> minute, hold |-> None]
    <2>1. /\ request' = [request EXCEPT ![t] = r] /\ UNCHANGED <<limitsLock, pageHold>>
          /\ ~At(t, "counted")
      BY <1>12 DEF Continue, CanContinue, At
    <2>2. RequestFine(r)
      BY DEF RequestFine, OnTheWay
    <2> HIDE DEF r
    <2>3. QED
      BY <1>9, <2>1, <2>2
  <1>13. CASE CaptureLead(t) \/ CaptureFails(t)
    <2>1. PICK lead : request' = [request EXCEPT ![t] = [pc |-> "captured", lead |-> lead]]
      BY <1>13 DEF CaptureLead, CaptureFails
    <2> DEFINE r == [pc |-> "captured", lead |-> lead]
    <2>2. /\ request' = [request EXCEPT ![t] = r] /\ UNCHANGED <<limitsLock, pageHold>>
          /\ ~At(t, "counted")
      BY <1>13, <2>1 DEF CaptureLead, CaptureFails, At
    <2>3. RequestFine(r)
      BY DEF RequestFine, OnTheWay
    <2> HIDE DEF r
    <2>4. QED
      BY <1>9, <2>2, <2>3 DEF Fine, Lock, Rows
  <1>14. ASSUME NEW was \in OnTheWay, At(t, was), was # "counted",
                \/ \E pc \in OnTheWay : GoesTo(t, pc)
                \/ \E times : times \subseteq PageTimes /\ Refuse(t, times),
                limitsLock' = limitsLock
         PROVE  Fine /\ Lock
    <2>1. Fine
      BY <1>3, <1>4, <1>14
    <2>2. \E r : request' = [request EXCEPT ![t] = r]
      BY <1>14 DEF GoesTo, Refuse
    <2>3. ~At(t, "counted")
      BY <1>14 DEF At
    <2>4. QED
      BY <1>2, <1>14, <2>1, <2>2, <2>3
  <1>15. {"asked", "checked", "offered", "counted", "held", "started"} = OnTheWay
    BY DEF OnTheWay
  <1>16. CASE CheckPerson(t)
    <2>1. /\ At(t, "asked") /\ UNCHANGED <<limitsLock, pageHold>>
          /\ GoesTo(t, "checked") \/ Refuse(t, panel[t].shown)
      BY <1>16 DEF CheckPerson
    <2>2. QED
      BY <1>1, <1>6, <1>14, <1>15, <2>1 DEF Fine, Lock, Rows
  <1>17. CASE LookAtOffers(t)
    <2> DEFINE offered == OfferedSlots(request[t].now)
    <2>1. /\ At(t, "checked") /\ UNCHANGED <<limitsLock, pageHold>>
          /\ GoesTo(t, "offered") \/ Refuse(t, offered)
      BY <1>17 DEF LookAtOffers
    <2>2. offered \subseteq PageTimes
      BY <1>0, <1>5, <1>15, <2>1, OfferedIsOnSale
    <2> HIDE DEF offered
    <2>3. QED
      BY <1>1, <1>14, <1>15, <2>1, <2>2 DEF Fine, Lock, Rows
  <1>18. CASE CountHolds(t)
    <2>1. At(t, "offered") /\ UNCHANGED pageHold
      BY <1>18 DEF CountHolds, MayCount
    <2>2. CASE Refuse(t, panel[t].shown) /\ UNCHANGED limitsLock
      BY <1>1, <1>6, <1>14, <1>15, <2>1, <2>2 DEF Fine, Lock, Rows
    <2>3. CASE GoesTo(t, "counted") /\ limitsLock' = t
      <3>1. Fine
        BY <1>4, <1>15, <2>1, <2>3
      <3>2. request'[t] = [request[t] EXCEPT !.pc = "counted"] /\ Asking(request[t], minute)
        BY <1>0, <1>15, <2>1, <2>3 DEF GoesTo, Shapes
      <3>3. request'[t].pc = "counted"
        BY <3>2 DEF Asking
      <3>4. At(t, "counted")'
        BY <3>3 DEF At, NoRequest
      <3>5. QED
        BY <1>1, <2>1, <2>3, <3>1, <3>4 DEF Fine, Lock, Rows
    <2>4. QED
      BY <1>18, <2>2, <2>3 DEF CountHolds
  <1>19. CASE InsertHold(t)
    <2>1. At(t, "counted") /\ limitsLock' = NoTab /\ UNCHANGED minute
      BY <1>19 DEF InsertHold
    <2>2. Lock
      BY <2>1, PageTypes DEF Lock
    <2>3. OfferedSlots(minute) \subseteq PageTimes
      BY <1>0, OfferedIsOnSale
    <2>4. ASSUME Refuse(t, OfferedSlots(minute)), UNCHANGED pageHold PROVE Fine /\ Rows
      BY <1>1, <1>3, <2>3, <2>4
    <2>5. ASSUME NEW h \in PageHolds, Inserted(t, h),
                 request' = [request EXCEPT ![t].pc = "held", ![t].hold = h]
          PROVE  Fine /\ Rows
      <3> DEFINE r == [request[t] EXCEPT !.pc = "held", !.hold = h]
      <3>1. Asking(request[t], minute) /\ request[t].time \in PageTimes
        BY <1>0, <1>15, <2>1 DEF Shapes, TypeInv, RequestFine, At
      <3>2. r.pc = "held" /\ r.time = request[t].time
        BY <3>1 DEF Asking
      <3>3. request' = [request EXCEPT ![t] = r]
        BY <1>0, <2>5 DEF Shapes
      <3> HIDE DEF r
      <3>4. RequestFine(r)
        BY <3>1, <3>2 DEF RequestFine, OnTheWay
      <3>5. Fine
        BY <1>0, <3>3, <3>4, OneRequestFine DEF Fine
      <3>6. ASSUME NEW k \in PageHolds PROVE HoldOK(k)'
        <4>1. CASE k = h
          <5>1. pageHold'[k] = NewHold(t)
            BY <2>5, <4>1 DEF Inserted
          <5>2. request[t].now + HoldMinutes \in Nat
            BY <1>0, <3>1, PageTypes DEF Asking
          <5>3. QED
            BY <3>1, <5>1, <5>2 DEF HoldOK, NewHold
        <4>2. CASE k # h /\ k \in EarlierHolds(t)
          <5>1. pageHold'[k] = [pageHold[k] EXCEPT !.status = "released"]
            BY <2>5, <4>2 DEF Inserted
          <5>2. HeldRow(pageHold[k])
            BY <1>0, <4>2 DEF Shapes, EarlierHolds, NoHold
          <5>3. pageHold[k].time \in PageTimes /\ pageHold[k].until \in Nat
            BY <4>2 DEF TypeInv, HoldOK, EarlierHolds, NoHold
          <5>4. QED
            BY <5>1, <5>2, <5>3 DEF HeldRow, HoldOK
        <4>3. CASE k # h /\ k \notin EarlierHolds(t)
          <5>1. pageHold'[k] = pageHold[k]
            BY <2>5, <4>3 DEF Inserted
          <5>2. QED
            BY <5>1 DEF TypeInv, HoldOK
        <4>4. QED
          BY <4>1, <4>2, <4>3
      <3>7. QED
        BY <3>5, <3>6 DEF Rows
    <2>6. Fine /\ Rows
      BY <1>19, <2>4, <2>5 DEF InsertHold, Inserted
    <2>7. QED
      BY <2>2, <2>6 DEF Fine, Lock, Rows
  <1>20. CASE StartPayment(t)
    <2>1. At(t, "held") /\ UNCHANGED <<limitsLock, pageHold>> /\ GoesTo(t, "started")
      BY <1>20 DEF StartPayment
    <2>2. QED
      BY <1>1, <1>14, <1>15, <2>1 DEF Fine, Lock, Rows
  <1>21. CASE CalendarRefuses(t) \/ CheckoutFails(t)
    <2>1. /\ At(t, "held") /\ UNCHANGED <<minute, limitsLock>> /\ GiveHoldBack(request[t].hold)
          /\ Refuse(t, OfferedSlots(minute)) \/ Refuse(t, panel[t].shown)
      BY <1>21 DEF CalendarRefuses, CheckoutFails
    <2>2. OfferedSlots(minute) \subseteq PageTimes
      BY <1>0, OfferedIsOnSale
    <2>3. Fine /\ Lock
      BY <1>6, <1>14, <1>15, <2>1, <2>2
    <2>4. ASSUME NEW k \in PageHolds PROVE HoldOK(k)'
      <3>1. CASE k = request[t].hold
        <4>1. pageHold'[k] = [pageHold[k] EXCEPT !.status = IF @ = "held" THEN "released" ELSE @]
          BY <1>0, <2>1, <3>1 DEF GiveHoldBack, Shapes
        <4>2. HeldRow(pageHold[k])
          BY <1>0, <2>1, <3>1 DEF Shapes, PayInv, OwnHold, NoHold
        <4>3. /\ pageHold[k].status \in {"held", "expired", "released"}
              /\ pageHold[k].time \in PageTimes /\ pageHold[k].until \in Nat
          BY <2>1, <3>1 DEF TypeInv, HoldOK, PayInv, OwnHold, NoHold
        <4>4. QED
          BY <4>1, <4>2, <4>3 DEF HeldRow, HoldOK
      <3>2. CASE k # request[t].hold
        <4>1. pageHold'[k] = pageHold[k]
          BY <1>0, <2>1, <3>2 DEF GiveHoldBack, Shapes
        <4>2. QED
          BY <4>1 DEF TypeInv, HoldOK
      <3>3. QED
        BY <3>1, <3>2
    <2>5. QED
      BY <2>3, <2>4 DEF Fine, Lock, Rows
  <1>22. QED
    BY <1>8, <1>10, <1>11, <1>12, <1>13, <1>16, <1>17, <1>18, <1>19, <1>20, <1>21
       DEF TabStep, Fine, Lock, Rows

\* Every step leaves the types so.
LEMMA TypesKept ==
    ASSUME CapsInv, PayInv, ListsInv, TypeInv, [Next]_vars
    PROVE  TypeInv'
  <1>1. /\ minute' \in 0 .. LastMinute
        /\ pageList'.state \in {"none", "loading", "read", "ready"}
        /\ pageList'.times \subseteq PageTimes
        /\ \A t \in Tabs : panel'[t].shown \subseteq PageTimes
    BY ListTypes, ShownIsOnSale
  <1>2. /\ \A u \in Tabs : RequestFine(request'[u])
        /\ \A u \in Tabs : limitsLock' = u => At(u, "counted")'
        /\ \A h \in PageHolds : HoldOK(h)'
    <2> DEFINE Goal == /\ \A u \in Tabs : RequestFine(request'[u])
                       /\ \A u \in Tabs : limitsLock' = u => At(u, "counted")'
                       /\ \A h \in PageHolds : HoldOK(h)'
    <2>1. CASE \E t \in Tabs : TabStep(t)
      BY <2>1, TabTypes
    <2>2. CASE UNCHANGED <<request, limitsLock, pageHold>>
      BY <2>2 DEF TypeInv, At, HoldOK
    <2>3. CASE \E h \in PageHolds : SweepExpires(h)
      <3>1. PICK h \in PageHolds : SweepExpires(h)
        BY <2>3
      <3>2. UNCHANGED <<request, limitsLock>> /\ pageHold[h].status = "held"
        BY <3>1 DEF SweepExpires
      <3>3. ASSUME NEW k \in PageHolds PROVE HoldOK(k)'
        <4>1. CASE k = h
          <5>1. pageHold'[k] = [pageHold[k] EXCEPT !.status = "expired"]
            BY <3>1, <4>1 DEF SweepExpires, CapsInv, Shapes
          <5>2. HeldRow(pageHold[k])
            BY <3>2, <4>1 DEF CapsInv, Shapes, NoHold
          <5>3. pageHold[k].time \in PageTimes /\ pageHold[k].until \in Nat
            BY <3>2, <4>1 DEF TypeInv, HoldOK, NoHold
          <5>4. QED
            BY <5>1, <5>2, <5>3 DEF HeldRow, HoldOK
        <4>2. CASE k # h
          <5>1. pageHold'[k] = pageHold[k]
            BY <3>1, <4>2 DEF SweepExpires, CapsInv, Shapes
          <5>2. QED
            BY <5>1 DEF TypeInv, HoldOK
        <4>3. QED
          BY <4>1, <4>2
      <3>4. QED
        BY <3>2, <3>3 DEF TypeInv, At
    <2>4. CASE ReadCalendar \/ FinishLoad \/ LoadFails \/ MinutePasses \/ UNCHANGED vars
               \/ \E a \in Appointments : CoachTakes(a)
      <3>1. UNCHANGED <<request, limitsLock, pageHold>>
        BY <2>4 DEF ReadCalendar, FinishLoad, LoadFails, MinutePasses, vars, CoachTakes
      <3>2. QED
        BY <2>2, <3>1
    <2>5. QED
      BY <2>1, <2>3, <2>4 DEF Next
  <1>3. QED
    BY <1>1, <1>2 DEF TypeInv, RequestFine, At

\* The page's types, for any number of tabs, holds and minutes: every time shown, asked
\* for or held is one on sale, and a browser on its way to pay has a hold
\* (BookingPanel.tsx, actions.ts, slot-holds.ts).
THEOREM PageTypesHold == Spec => []TypeOK
  <1>1. Init => AllInv
    BY CapsAtFirst, PayAtFirst, ListsAtFirst, TypesAtFirst DEF AllInv
  <1>2. AllInv /\ [Next]_vars => AllInv'
    BY CapsKeptByAll, PayKept, ListsKept, TypesKept DEF AllInv
  <1>3. AllInv => TypeOK
    <2> SUFFICES ASSUME AllInv PROVE TypeOK
      OBVIOUS
    <2>1. ASSUME NEW t \in Tabs PROVE RequestOK(t)
      <3>1. CASE request[t] = NoRequest
        BY <3>1 DEF RequestOK
      <3>2. CASE request[t] # NoRequest /\ request[t].pc \in {"details", "captured", "refused"}
        BY <3>2 DEF RequestOK
      <3>3. CASE request[t] # NoRequest /\ request[t].pc \in OnTheWay
        <4>1. request[t].time \in PageTimes
          BY <3>3 DEF AllInv, TypeInv, RequestFine
        <4>2. request[t].now \in 0 .. minute
          BY <3>3 DEF AllInv, CapsInv, Shapes, At, Asking
        <4>3. request[t].pc \in {"held", "started"} => pageHold[request[t].hold].status # "none"
          BY <3>3 DEF AllInv, PayInv, OwnHold, PaysForOne, Stands, At
        <4>4. QED
          BY <3>3, <4>1, <4>2, <4>3 DEF RequestOK, OnTheWay
      <3>4. QED
        BY <3>1, <3>2, <3>3 DEF AllInv, TypeInv, RequestFine
    <2>2. \A t \in Tabs : panel[t].at \in {"leaving", "paying"} => panel[t].hold \in PageHolds
      BY DEF AllInv, PayInv, PaysForOne, Pays, Stands
    <2>3. \A t \in Tabs : At(t, "counted") <=> limitsLock = t
      BY DEF AllInv, TypeInv, CapsInv, CountStands
    <2>4. QED
      BY <2>1, <2>2, <2>3 DEF AllInv, TypeInv, TypeOK
  <1>4. QED
    BY <1>1, <1>2, <1>3, PTL DEF Spec
=============================================================================
