----------------------------- MODULE MetricsProofs -----------------------------
(***************************************************************************)
(* Theorems about Metrics, for every finite set of requests and every      *)
(* grace period, handler limit and retry period, and however the wall      *)
(* clock is set.                                                           *)
(***************************************************************************)
EXTENDS Metrics, FiniteSetTheorems, TLAPS

RequestState ==
  [at : {"none", "counted", "handling", "uncounted", "streaming"},
   body : BOOLEAN, age : 0 .. HandlerLimit]

WaitState == [at : {"load_active", "load_last", "sleep", "pass"}, slept : 0 .. BusyRetry]

(* The stamp is ahead of the clock by no more than the clock was set back. *)
AheadIfSetBack == 0 <= last_activity + set_back

(* What the counter's accuracy and the range of the stamp rest on.         *)
CountInv == TypeOK /\ InFlightIsCounted /\ AheadIfSetBack

(* The requests in flight are some of finitely many. *)
LEMMA InFlightFinite ==
  /\ IsFiniteSet(InFlight)
  /\ Cardinality(InFlight) \in 0 .. Cardinality(Requests)
<1>1. InFlight \subseteq Requests
  BY DEF InFlight
<1>2. /\ IsFiniteSet(InFlight)
      /\ Cardinality(InFlight) <= Cardinality(Requests)
  BY <1>1, MetricsAssumption, FS_Subset
<1>3. Cardinality(InFlight) \in Nat /\ Cardinality(Requests) \in Nat
  BY <1>2, MetricsAssumption, FS_CardinalityType
<1> QED
  BY <1>2, <1>3

(* A step that keeps every request's side of the counter keeps the count.  *)
LEMMA SameInFlight ==
  ASSUME \A r \in Requests : (req[r].at \in Alive) <=> (req'[r].at \in Alive)
  PROVE  InFlight' = InFlight
  BY DEF InFlight, Alive

(* A capped clock stays in its range and never runs ahead of an uncapped   *)
(* one, nor behind another capped one it was ahead of.                     *)
LEMMA CappedClock ==
  ASSUME NEW bound \in Nat, NEW n \in 0 .. bound
  PROVE  /\ AtMost(n + 1, bound) \in 0 .. bound
         /\ AtMost(n + 1, bound) <= n + 1
         /\ AtMost(n + 1, bound) = IF n = bound THEN bound ELSE n + 1
  BY DEF AtMost

(* Moving a request to another stage keeps the others and its type.        *)
LEMMA GotoTyped ==
  ASSUME req \in [Requests -> RequestState], NEW r \in Requests,
         NEW at \in {"none", "counted", "handling", "uncounted", "streaming"},
         Goto(r, at)
  PROVE  /\ req' \in [Requests -> RequestState]
         /\ req'[r].at = at
         /\ \A q \in Requests \ {r} : req'[q] = req[q]
<1> DEFINE new == [req[r] EXCEPT !.at = at, !.age = 0]
<1>1. req[r] \in RequestState
  OBVIOUS
<1>2. 0 \in 0 .. HandlerLimit
  BY MetricsAssumption
<1>3. new \in RequestState /\ new.at = at
  BY <1>1, <1>2 DEF RequestState
<1>4. req' = [req EXCEPT ![r] = new]
  BY <1>1 DEF Goto
<1> HIDE DEF new
<1> QED
  BY <1>3, <1>4

(* The clock ages every running handler, within its limit.                 *)
LEMMA TickAges ==
  ASSUME TypeOK, Tick
  PROVE  /\ req' \in [Requests -> RequestState]
         /\ \A r \in Requests :
              /\ req'[r].at = req[r].at
              /\ req'[r].at = "handling" => req'[r].age = req[r].age + 1
<1>1. req \in [Requests -> RequestState]
  BY DEF TypeOK, RequestState
<1>2. req' = [r \in Requests |->
                IF req[r].at = "handling" THEN [req[r] EXCEPT !.age = @ + 1] ELSE req[r]]
  BY DEF Tick
<1>3. SUFFICES ASSUME NEW r \in Requests
               PROVE  /\ req'[r] \in RequestState
                      /\ req'[r].at = req[r].at
                      /\ req'[r].at = "handling" => req'[r].age = req[r].age + 1
  BY <1>1, <1>2
<1>4. req[r] \in RequestState
  BY <1>1
<1>5. CASE req[r].at = "handling"
  <2>1. req[r].age # HandlerLimit
    BY <1>5 DEF Tick, SomethingDue
  <2> DEFINE older == req[r].age + 1
  <2>2. older \in 0 .. HandlerLimit
    BY <1>4, <2>1, MetricsAssumption DEF RequestState
  <2>3. req'[r] = [req[r] EXCEPT !.age = older]
    BY <1>2, <1>5
  <2>4. older = req[r].age + 1
    OBVIOUS
  <2> HIDE DEF older
  <2>5. req'[r] \in RequestState /\ req'[r].at = req[r].at /\ req'[r].age = older
    BY <1>4, <2>2, <2>3 DEF RequestState
  <2> QED
    BY <2>4, <2>5
<1>6. CASE req[r].at # "handling"
  BY <1>2, <1>4, <1>6
<1> QED
  BY <1>5, <1>6

-----------------------------------------------------------------------------
(* Every step keeps the types and the count. *)
LEMMA CountInductive == Spec => []CountInv
<1> USE MetricsAssumption
<1> DEFINE Rest == /\ last_activity \in -MaxBack .. Oldest
                   /\ wait \in WaitState
                   /\ ended \in 0 .. Grace
                   /\ seen \subseteq {"quiet", "dropping", "ahead"}
                   /\ quiet_for \in 0 .. BusyRetry + MaxBack + 1
                   /\ set_back \in 0 .. MaxBack /\ set_ahead \in BOOLEAN
                   /\ AheadIfSetBack
<1>1. CountInv <=> /\ Rest
                   /\ req \in [Requests -> RequestState]
                   /\ active_requests = Cardinality(InFlight)
  BY InFlightFinite DEF CountInv, TypeOK, InFlightIsCounted, WaitState, RequestState
<1>2. CountInv' <=> /\ Rest'
                    /\ req' \in [Requests -> RequestState]
                    /\ active_requests' = Cardinality(InFlight')
  <2>1. InFlight' \subseteq Requests
    BY DEF InFlight
  <2>2. Cardinality(InFlight') \in 0 .. Cardinality(Requests)
    BY <2>1, FS_Subset, FS_CardinalityType
  <2> QED
    BY <2>2 DEF CountInv, TypeOK, InFlightIsCounted, WaitState, RequestState
<1>3. Init => CountInv
  <2> SUFFICES ASSUME Init PROVE CountInv
    OBVIOUS
  <2>1. req \in [Requests -> RequestState]
    BY DEF Init, NoRequest, RequestState
  <2>2. InFlight = {}
    BY DEF Init, NoRequest, InFlight, Alive
  <2>3. /\ last_activity \in -MaxBack .. Oldest /\ ended \in 0 .. Grace
        /\ set_back \in 0 .. MaxBack /\ quiet_for \in 0 .. BusyRetry + MaxBack + 1
        /\ AheadIfSetBack
    BY DEF Init, Oldest, AheadIfSetBack
  <2>4. wait \in WaitState
    BY DEF Init, WaitState
  <2>5. Rest
    BY <2>3, <2>4 DEF Init
  <2> QED
    BY <1>1, <2>1, <2>2, <2>5, FS_EmptySet DEF Init
<1>4. CountInv /\ [Next]_vars => CountInv'
  <2> SUFFICES ASSUME CountInv, [Next]_vars PROVE CountInv'
    OBVIOUS
  <2>0. Rest /\ req \in [Requests -> RequestState] /\ active_requests = Cardinality(InFlight)
    BY <1>1
  <2> SUFFICES /\ Rest'
               /\ req' \in [Requests -> RequestState]
               /\ active_requests' = Cardinality(InFlight')
    BY <1>2
  <2>1. ASSUME NEW r \in Requests, BeginCount(r)
        PROVE  /\ Rest'
               /\ req' \in [Requests -> RequestState]
               /\ active_requests' = Cardinality(InFlight')
    <3>1. req' \in [Requests -> RequestState]
      BY <2>0, <2>1, GotoTyped DEF BeginCount
    <3>2. r \notin InFlight
      BY <2>1 DEF BeginCount, InFlight, Alive
    <3>3. InFlight' = InFlight \cup {r}
      BY <2>0, <2>1, GotoTyped DEF BeginCount, InFlight, Alive
    <3>4. Cardinality(InFlight') = Cardinality(InFlight) + 1
      BY <3>2, <3>3, InFlightFinite, FS_AddElement
    <3> QED
      BY <2>0, <2>1, <3>1, <3>4 DEF BeginCount, AheadIfSetBack
  <2>2. ASSUME NEW r \in Requests, BeginStamp(r)
        PROVE  /\ Rest'
               /\ req' \in [Requests -> RequestState]
               /\ active_requests' = Cardinality(InFlight')
    <3>1. req' \in [Requests -> RequestState]
      BY <2>0, <2>2, GotoTyped DEF BeginStamp
    <3>2. InFlight' = InFlight
      BY <2>0, <2>2, GotoTyped, SameInFlight DEF BeginStamp, Alive
    <3>3. /\ last_activity' = 0 /\ set_back' = 0
          /\ UNCHANGED <<active_requests, wait, ended, seen, quiet_for>>
      BY <2>2 DEF BeginStamp, Stamp
    <3>4. set_ahead' \in BOOLEAN
      BY <2>2 DEF BeginStamp, Stamp
    <3>5. AheadIfSetBack' /\ last_activity' \in -MaxBack .. Oldest
      BY <3>3 DEF AheadIfSetBack, Oldest
    <3> QED
      BY <2>0, <3>1, <3>2, <3>3, <3>4, <3>5
  <2>3. ASSUME NEW r \in Requests, NEW body \in BOOLEAN, DropCount(r, body)
        PROVE  /\ Rest'
               /\ req' \in [Requests -> RequestState]
               /\ active_requests' = Cardinality(InFlight')
    <3>1. req' \in [Requests -> RequestState]
      BY <2>0, <2>3 DEF DropCount, RequestState
    <3>2. r \in InFlight
      BY <2>3 DEF DropCount, InFlight, Alive
    <3>3. InFlight' = InFlight \ {r}
      BY <2>0, <2>3 DEF DropCount, InFlight, Alive, RequestState
    <3>4. Cardinality(InFlight') = Cardinality(InFlight) - 1
      BY <3>2, <3>3, InFlightFinite, FS_RemoveElement
    <3> QED
      BY <2>0, <2>3, <3>1, <3>4 DEF DropCount, AheadIfSetBack
  <2>4. ASSUME NEW r \in Requests, DropStamp(r)
        PROVE  /\ Rest'
               /\ req' \in [Requests -> RequestState]
               /\ active_requests' = Cardinality(InFlight')
    <3>1. req' \in [Requests -> RequestState]
      BY <2>0, <2>4, GotoTyped DEF DropStamp
    <3>2. InFlight' = InFlight
      BY <2>0, <2>4, GotoTyped, SameInFlight DEF DropStamp, Alive
    <3>3. /\ last_activity' = 0 /\ set_back' = 0
          /\ UNCHANGED <<active_requests, wait, ended, seen, quiet_for>>
      BY <2>4 DEF DropStamp, Stamp
    <3>4. set_ahead' \in BOOLEAN
      BY <2>4 DEF DropStamp, Stamp
    <3>5. AheadIfSetBack' /\ last_activity' \in -MaxBack .. Oldest
      BY <3>3 DEF AheadIfSetBack, Oldest
    <3> QED
      BY <2>0, <3>1, <3>2, <3>3, <3>4, <3>5
  <2>5. ASSUME NEW r \in Requests, EndBody(r)
        PROVE  /\ Rest'
               /\ req' \in [Requests -> RequestState]
               /\ active_requests' = Cardinality(InFlight')
    <3>1. req' \in [Requests -> RequestState]
      BY <2>0, <2>5 DEF EndBody, NoRequest, RequestState
    <3>2. InFlight' = InFlight
      BY <2>0, <2>5, SameInFlight DEF EndBody, NoRequest, RequestState, Alive
    <3> QED
      BY <2>0, <2>5, <3>1, <3>2 DEF EndBody, AheadIfSetBack
  <2>6. CASE LoadActive \/ LoadLast \/ WakeUp \/ WaitAgain
    <3>1. UNCHANGED <<active_requests, req, last_activity, ended, set_back, set_ahead>>
      BY <2>6 DEF LoadActive, LoadLast, WakeUp, WaitAgain
    <3>2. InFlight' = InFlight
      BY <3>1, SameInFlight
    <3>3. wait' \in WaitState
      BY <2>6 DEF LoadActive, LoadLast, WakeUp, WaitAgain, WaitState
    <3>4. quiet_for' \in 0 .. BusyRetry + MaxBack + 1
      BY <2>0, <2>6 DEF LoadActive, LoadLast, WakeUp, WaitAgain
    <3>5. seen' \subseteq {"quiet", "dropping", "ahead"}
      BY <2>0, <2>6 DEF LoadActive, LoadLast, WakeUp, WaitAgain, Seen
    <3> QED
      BY <2>0, <3>1, <3>2, <3>3, <3>4, <3>5 DEF AheadIfSetBack
  <2>7. CASE Tick
    <3>1. req' \in [Requests -> RequestState] /\ InFlight' = InFlight
      BY <2>7, TickAges, SameInFlight DEF CountInv
    <3>2. ended' \in 0 .. Grace
      BY <2>0, <2>7, CappedClock DEF Tick
    <3>a. last_activity' \in -MaxBack .. Oldest /\ last_activity <= last_activity'
      BY <2>0, <2>7 DEF Tick, AtMost, Oldest
    <3>b. AheadIfSetBack'
      BY <2>0, <2>7, <3>a DEF Tick, AheadIfSetBack, Oldest
    <3>3. quiet_for' \in 0 .. BusyRetry + MaxBack + 1
      <4> DEFINE top == BusyRetry + MaxBack + 1
      <4>1. top \in Nat /\ quiet_for \in 0 .. top
        BY <2>0
      <4>2. quiet_for' \in {AtMost(quiet_for + 1, top), 0}
        BY <2>7 DEF Tick
      <4>3. AtMost(quiet_for + 1, top) \in 0 .. top
        BY <4>1, CappedClock
      <4> QED
        BY <4>1, <4>2, <4>3
    <3>4. wait' \in WaitState
      <4>1. CASE wait.at = "sleep"
        <5> DEFINE slept == wait.slept + 1
        <5>1. wait.slept # BusyRetry
          BY <2>7, <4>1 DEF Tick, SomethingDue
        <5>2. slept \in 0 .. BusyRetry
          BY <2>0, <5>1 DEF WaitState
        <5>3. wait' = [wait EXCEPT !.slept = slept]
          BY <2>7, <4>1 DEF Tick
        <5> HIDE DEF slept
        <5> QED
          BY <2>0, <5>2, <5>3 DEF WaitState
      <4>2. CASE wait.at # "sleep"
        BY <2>0, <2>7, <4>2 DEF Tick
      <4> QED
        BY <4>1, <4>2
    <3> QED
      BY <2>0, <2>7, <3>1, <3>2, <3>a, <3>b, <3>3, <3>4 DEF Tick
  <2>8. CASE UNCHANGED vars
    <3>1. InFlight' = InFlight
      BY <2>8, SameInFlight DEF vars
    <3> QED
      BY <2>0, <2>8, <3>1 DEF vars, AheadIfSetBack
  <2>9. ASSUME NEW by \in 1 .. Oldest + MaxBack,
               (by <= MaxBack /\ ClockSetBack(by)) \/ ClockSetForward(by)
        PROVE  /\ Rest'
               /\ req' \in [Requests -> RequestState]
               /\ active_requests' = Cardinality(InFlight')
    <3>1. UNCHANGED <<active_requests, req, wait, ended, seen, quiet_for>>
      BY <2>9 DEF ClockSetBack, ClockSetForward
    <3>2. InFlight' = InFlight
      BY <3>1, SameInFlight
    <3>3. CASE ClockSetBack(by)
      <4>1. last_activity' = last_activity - by /\ set_back' = set_back + by
            /\ set_back + by <= MaxBack /\ set_ahead' = set_ahead
        BY <3>3 DEF ClockSetBack
      <4> QED
        BY <2>0, <3>1, <3>2, <4>1 DEF AheadIfSetBack, Oldest
    <3>4. CASE ClockSetForward(by)
      <4>1. last_activity' = AtMost(last_activity + by, Oldest) /\ set_back' = set_back
            /\ set_ahead' = TRUE
        BY <3>4 DEF ClockSetForward
      <4>2. last_activity' \in -MaxBack .. Oldest /\ last_activity <= last_activity'
        BY <2>0, <4>1 DEF AtMost, Oldest
      <4>3. AheadIfSetBack'
        BY <2>0, <4>1, <4>2 DEF AheadIfSetBack, Oldest
      <4> QED
        BY <2>0, <3>1, <3>2, <4>1, <4>2, <4>3
    <3> QED
      BY <2>9, <3>3, <3>4
  <2> HIDE DEF Rest
  <2>10. \A by \in 1 .. MaxBack : by \in 1 .. Oldest + MaxBack /\ by <= MaxBack
    BY DEF Oldest
  <2> QED
    BY <2>1, <2>2, <2>3, <2>4, <2>5, <2>6, <2>7, <2>8, <2>9, <2>10 DEF Next
<1> QED
  BY <1>3, <1>4, PTL DEF Spec

(* Type correctness of the live-traffic tracking.                          *)
THEOREM MetricsTyped == Spec => []TypeOK
<1>1. CountInv => TypeOK
  BY DEF CountInv
<1> QED
  BY <1>1, CountInductive, PTL

(* The counter is the number of requests in flight: none of the two writes *)
(* at either end of a handler, however interleaved, loses or leaks one     *)
(* (begin_request, the drop of ActivityGuard).                             *)
THEOREM CounterExact == Spec => []InFlightIsCounted
<1>1. CountInv => InFlightIsCounted
  BY DEF CountInv
<1> QED
  BY <1>1, CountInductive, PTL

-----------------------------------------------------------------------------
(* How the stamp relates to the requests.  A handler that runs stamped when *)
(* it began, and the stamp is no older by the clock unless the clock was    *)
(* set forward; neither is the stamp of the last drop, once that drop is    *)
(* over, which it is before time passes; with nothing in flight the stamp   *)
(* is as old as the last drop, but for how far the clock was set back.      *)
Stamps ==
  /\ \A r \in Requests :
       req[r].at \in {"handling", "uncounted"} => last_activity <= req[r].age \/ set_ahead
  /\ (\A r \in Requests : req[r].at # "uncounted")
       => ended = Grace \/ last_activity <= ended \/ set_ahead
  /\ \A r \in Requests : req[r].at = "uncounted" => ended = 0
  /\ InFlight = {} => ended <= last_activity + set_back

(* Every step keeps Stamps. *)
LEMMA StampsInductive == Spec => []Stamps
<1> USE MetricsAssumption
<1>1. Init => Stamps
  <2> SUFFICES ASSUME Init PROVE Stamps
    OBVIOUS
  <2>1. \A r \in Requests : req[r].at = "none"
    BY DEF Init, NoRequest
  <2> QED
    BY <2>1 DEF Init, Stamps, Oldest
<1>2. CountInv /\ Stamps /\ [Next]_vars => Stamps'
  <2> SUFFICES ASSUME CountInv, Stamps, [Next]_vars PROVE Stamps'
    OBVIOUS
  <2>0. /\ req \in [Requests -> RequestState]
        /\ last_activity \in -MaxBack .. Oldest /\ ended \in 0 .. Grace
        /\ set_back \in 0 .. MaxBack
        /\ 0 <= last_activity + set_back
    BY DEF CountInv, TypeOK, RequestState, AheadIfSetBack
  <2>a. \A r \in Requests : req[r].age \in Nat
    BY <2>0 DEF RequestState
  <2>1. ASSUME NEW r \in Requests, BeginCount(r) PROVE Stamps'
    <3>1. /\ UNCHANGED <<last_activity, ended, set_back, set_ahead>>
          /\ req[r].at = "none" /\ req'[r].at = "counted"
          /\ \A q \in Requests \ {r} : req'[q] = req[q]
      BY <2>0, <2>1, GotoTyped DEF BeginCount
    <3>2. InFlight' # {}
      BY <3>1 DEF InFlight, Alive
    <3>3. \A q \in Requests :
            req'[q].at \in {"handling", "uncounted"} => req'[q] = req[q]
      BY <3>1
    <3>4. \A q \in Requests : req[q].at = "uncounted" => req'[q].at = "uncounted"
      BY <3>1
    <3> QED
      BY <3>1, <3>2, <3>3, <3>4 DEF Stamps
  <2>2. ASSUME NEW r \in Requests, BeginStamp(r) PROVE Stamps'
    <3>1. /\ last_activity' = 0 /\ ended' = ended
          /\ req' \in [Requests -> RequestState]
          /\ req'[r].at = "handling"
          /\ \A q \in Requests \ {r} : req'[q] = req[q]
      BY <2>0, <2>2, GotoTyped DEF BeginStamp, Stamp
    <3>2. InFlight' # {}
      BY <3>1 DEF InFlight, Alive
    <3>3. \A q \in Requests : 0 <= req'[q].age
      BY <3>1 DEF RequestState
    <3>4. \A q \in Requests : req'[q].at = "uncounted" => req[q].at = "uncounted"
      BY <3>1
    <3> QED
      BY <2>0, <3>1, <3>2, <3>3, <3>4 DEF Stamps
  <2>3. ASSUME NEW r \in Requests, NEW body \in BOOLEAN, DropCount(r, body)
        PROVE  Stamps'
    <3>1. /\ UNCHANGED <<last_activity, set_back, set_ahead>> /\ ended' = 0
          /\ req[r].at = "handling"
          /\ req'[r].at = "uncounted" /\ req'[r].age = req[r].age
          /\ \A q \in Requests \ {r} : req'[q] = req[q]
      BY <2>0, <2>3 DEF DropCount, RequestState
    <3>2. \A q \in Requests :
            req'[q].at \in {"handling", "uncounted"}
              => last_activity <= req'[q].age \/ set_ahead
      BY <3>1 DEF Stamps
    <3> QED
      BY <2>0, <3>1, <3>2 DEF Stamps
  <2>4. ASSUME NEW r \in Requests, DropStamp(r) PROVE Stamps'
    <3>1. /\ last_activity' = 0 /\ set_back' = 0 /\ ended' = ended /\ ended = 0
          /\ req' \in [Requests -> RequestState]
      BY <2>0, <2>4, GotoTyped DEF DropStamp, Stamp, Stamps
    <3>2. \A q \in Requests : 0 <= req'[q].age
      BY <3>1 DEF RequestState
    <3> QED
      BY <3>1, <3>2 DEF Stamps
  <2>5. ASSUME NEW r \in Requests, EndBody(r) PROVE Stamps'
    <3>1. /\ UNCHANGED <<last_activity, ended, set_back, set_ahead>>
          /\ req[r].at = "streaming" /\ req'[r].at = "none"
          /\ \A q \in Requests \ {r} : req'[q] = req[q]
      BY <2>0, <2>5 DEF EndBody, NoRequest
    <3>2. InFlight' = InFlight
      BY <3>1, SameInFlight DEF Alive
    <3>3. \A q \in Requests :
            req'[q].at \in {"handling", "uncounted"} => req'[q] = req[q]
      BY <3>1
    <3>4. \A q \in Requests : req[q].at = "uncounted" => req'[q].at = "uncounted"
      BY <3>1
    <3> QED
      BY <3>1, <3>2, <3>3, <3>4 DEF Stamps
  <2>6. CASE Tick
    <3>1. \A r \in Requests : /\ req[r].at # "uncounted"
                              /\ req'[r].at = req[r].at
                              /\ req'[r].at = "handling" => req'[r].age = req[r].age + 1
      BY <2>6, TickAges DEF CountInv, Tick, SomethingDue
    <3>2. InFlight' = InFlight
      BY <3>1, SameInFlight
    <3>3. /\ last_activity' = AtMost(last_activity + 1, Oldest)
          /\ ended' = AtMost(ended + 1, Grace)
          /\ UNCHANGED <<set_back, set_ahead>>
      BY <2>6 DEF Tick
    <3>4. /\ last_activity' \in Int /\ last_activity' <= last_activity + 1
          /\ last_activity' = Oldest \/ last_activity' = last_activity + 1
      BY <2>0, <3>3 DEF AtMost, Oldest
    <3>5. /\ ended' \in 0 .. Grace /\ ended' <= ended + 1
          /\ ended' = Grace \/ ended' = ended + 1
      BY <2>0, <3>3 DEF AtMost
    <3>6. ended = Grace => ended' = Grace
      BY <2>0, <3>3 DEF AtMost
    <3>7. ended = Grace \/ last_activity <= ended \/ set_ahead
      BY <3>1 DEF Stamps
    <3>8. ended' = Grace \/ last_activity' <= ended' \/ set_ahead'
      BY <2>0, <3>3, <3>4, <3>5, <3>6, <3>7
    <3>9. ended <= last_activity + set_back => ended' <= last_activity' + set_back'
      BY <2>0, <3>3, <3>4, <3>5 DEF Oldest
    <3>10. \A r \in Requests :
             req'[r].at \in {"handling", "uncounted"}
               => last_activity' <= req'[r].age \/ set_ahead'
      <4> SUFFICES ASSUME NEW r \in Requests, req'[r].at \in {"handling", "uncounted"},
                          ~ set_ahead
                   PROVE  last_activity' <= req'[r].age
        BY <3>3
      <4>1. req[r].at = "handling" /\ req'[r].age = req[r].age + 1
        BY <3>1
      <4>2. last_activity <= req[r].age
        BY <4>1 DEF Stamps
      <4> QED
        BY <2>0, <2>a, <3>4, <4>1, <4>2
    <3> QED
      BY <3>1, <3>2, <3>8, <3>9, <3>10 DEF Stamps
  <2>7. CASE UNCHANGED <<req, last_activity, ended, set_back, set_ahead>>
    <3>1. InFlight' = InFlight
      BY <2>7, SameInFlight
    <3> QED
      BY <2>7, <3>1 DEF Stamps
  <2>8. ASSUME NEW by \in 1 .. MaxBack, ClockSetBack(by) PROVE Stamps'
    <3>1. /\ UNCHANGED <<req, ended, set_ahead>>
          /\ last_activity' = last_activity - by /\ set_back' = set_back + by
      BY <2>8 DEF ClockSetBack
    <3>2. InFlight' = InFlight
      BY <3>1, SameInFlight
    <3>3. /\ last_activity' <= last_activity
          /\ last_activity' + set_back' = last_activity + set_back
      BY <2>0, <3>1
    <3>4. \A n \in Int : last_activity <= n => last_activity' <= n
      BY <2>0, <3>1, <3>3
    <3>5. \A r \in Requests : req[r].age \in Int
      BY <2>a
    <3> QED
      BY <2>0, <3>1, <3>2, <3>3, <3>4, <3>5 DEF Stamps
  <2>9. ASSUME NEW by \in 1 .. Oldest + MaxBack, ClockSetForward(by) PROVE Stamps'
    <3>1. /\ UNCHANGED <<req, ended, set_back>> /\ set_ahead'
          /\ last_activity' = AtMost(last_activity + by, Oldest)
      BY <2>9 DEF ClockSetForward
    <3>2. InFlight' = InFlight
      BY <3>1, SameInFlight
    <3>3. last_activity' \in Int /\ last_activity <= last_activity'
      BY <2>0, <3>1 DEF AtMost, Oldest
    <3>4. ended <= last_activity + set_back => ended' <= last_activity' + set_back'
      BY <2>0, <3>1, <3>3
    <3> QED
      BY <3>1, <3>2, <3>4 DEF Stamps
  <2> QED
    BY <2>1, <2>2, <2>3, <2>4, <2>5, <2>6, <2>7, <2>8, <2>9
    DEF Next, LoadActive, LoadLast, WakeUp, WaitAgain, vars
<1> QED
  BY <1>1, <1>2, CountInductive, PTL DEF Spec

(* When is_busy reads no request and an old stamp, the proxy is quiet, a   *)
(* guard is half dropped or the clock was set forward.                     *)
LEMMA OldStamp ==
  ASSUME CountInv, Stamps, active_requests = 0, Grace <= last_activity
  PROVE  Seen # {}
<1>1. InFlight = {}
  BY InFlightFinite, FS_EmptySet DEF CountInv, InFlightIsCounted
<1>2. /\ ended \in 0 .. Grace /\ req \in [Requests -> RequestState]
      /\ last_activity \in Int
  BY MetricsAssumption DEF CountInv, TypeOK, RequestState, Oldest
<1>3. CASE ended = Grace
  BY <1>1, <1>3 DEF IsQuiet, Seen
<1>4. CASE set_ahead
  BY <1>4 DEF Seen
<1>5. CASE ended # Grace /\ ~ set_ahead
  <2>1. PICK r \in Requests : req[r].at = "uncounted"
    BY <1>2, <1>5, MetricsAssumption DEF Stamps
  <2>2. last_activity <= req[r].age
    BY <1>5, <2>1 DEF Stamps
  <2>3. req[r].age \in Nat
    BY <1>2 DEF RequestState
  <2>4. req[r].age >= Grace
    BY <1>2, <2>2, <2>3, MetricsAssumption
  <2>5. DropsLongHandler
    BY <2>1, <2>4 DEF DropsLongHandler
  <2> QED
    BY <2>5 DEF Seen
<1> QED
  BY <1>3, <1>4, <1>5

(* Between the two loads of is_busy: what the first one saw still decides. *)
BetweenLoads ==
  wait.at = "load_last" => seen # {} \/ last_activity < Grace \/ set_ahead

(* is_busy says idle only if, at some moment of the call, nothing was in   *)
(* flight and nothing had finished within Grace, or a guard was half       *)
(* dropped after a long handler, or the clock had been set forward: the    *)
(* two loads may race every write, and the clock be set between them.      *)
THEOREM IdleMeansQuiet == Spec => []IdleOnlyIfQuiet
<1> USE MetricsAssumption
<1> DEFINE IdleInv == BetweenLoads /\ IdleOnlyIfQuiet
<1>1. Init => IdleInv
  BY DEF Init, BetweenLoads, IdleOnlyIfQuiet
<1>2. CountInv /\ Stamps /\ IdleInv /\ [Next]_vars => IdleInv'
  <2> SUFFICES ASSUME CountInv, Stamps, IdleInv, [Next]_vars PROVE IdleInv'
    OBVIOUS
  <2>0. last_activity \in Int /\ wait \in WaitState /\ set_ahead \in BOOLEAN
    BY DEF CountInv, TypeOK, WaitState, Oldest
  <2>1. CASE LoadActive
    <3>1. CASE active_requests > 0
      BY <2>1, <3>1 DEF LoadActive, BetweenLoads, IdleOnlyIfQuiet
    <3>2. CASE active_requests = 0
      <4>1. wait'.at = "load_last" /\ seen' = Seen /\ last_activity' = last_activity
        BY <2>1, <3>2 DEF LoadActive
      <4>2. Seen # {} \/ last_activity < Grace
        BY <2>0, <3>2, OldStamp
      <4> QED
        BY <4>1, <4>2 DEF BetweenLoads, IdleOnlyIfQuiet
    <3>3. active_requests \in Nat
      BY FS_CardinalityType DEF CountInv, TypeOK
    <3> QED
      BY <3>1, <3>2, <3>3
  <2>2. CASE LoadLast
    <3>1. wait.at = "load_last" /\ seen' = seen \cup Seen
      BY <2>2 DEF LoadLast
    <3>2. set_ahead => seen' # {}
      BY <3>1 DEF Seen
    <3>3. last_activity < Grace => wait'.at = "sleep"
      BY <2>0, <2>2 DEF LoadLast, SinceActivity
    <3>4. wait'.at \in {"sleep", "pass"}
      BY <2>2 DEF LoadLast
    <3> QED
      BY <3>1, <3>2, <3>3, <3>4 DEF BetweenLoads, IdleOnlyIfQuiet
  <2>3. CASE WakeUp \/ WaitAgain
    BY <2>3 DEF WakeUp, WaitAgain, BetweenLoads, IdleOnlyIfQuiet
  <2>4. CASE Tick
    <3>1. wait.at # "load_last" /\ seen' = seen /\ wait'.at = wait.at
      BY <2>0, <2>4 DEF Tick, SomethingDue, WaitState
    <3> QED
      BY <3>1 DEF BetweenLoads, IdleOnlyIfQuiet
  <2>5. ASSUME UNCHANGED <<wait, seen>>,
               last_activity' < Grace \/ set_ahead' \/
                 (last_activity' <= last_activity /\ last_activity' \in Int
                    /\ set_ahead' = set_ahead)
        PROVE  IdleInv'
    BY <2>0, <2>5 DEF BetweenLoads, IdleOnlyIfQuiet
  <2>6. CASE UNCHANGED <<wait, seen, last_activity, set_ahead>>
    BY <2>0, <2>5, <2>6
  <2>7. ASSUME NEW r \in Requests, BeginStamp(r) \/ DropStamp(r) PROVE IdleInv'
    BY <2>5, <2>7 DEF BeginStamp, DropStamp, Stamp
  <2>8. ASSUME NEW by \in 1 .. MaxBack, ClockSetBack(by) PROVE IdleInv'
    <3>1. /\ UNCHANGED <<wait, seen, set_ahead>>
          /\ last_activity' = last_activity - by
      BY <2>8 DEF ClockSetBack
    <3> QED
      BY <2>0, <2>5, <3>1
  <2>9. ASSUME NEW by \in 1 .. Oldest + MaxBack, ClockSetForward(by) PROVE IdleInv'
    BY <2>5, <2>9 DEF ClockSetForward
  <2> QED
    BY <2>1, <2>2, <2>3, <2>4, <2>6, <2>7, <2>8, <2>9
    DEF Next, BeginCount, DropCount, EndBody, vars
<1>3. IdleInv => IdleOnlyIfQuiet
  OBVIOUS
<1> QED
  BY <1>1, <1>2, <1>3, CountInductive, StampsInductive, PTL DEF Spec

-----------------------------------------------------------------------------
(* How old the stamp must be by the clock when the proxy has been quiet,   *)
(* were it not for how far the clock was set back.                         *)
QuietAges ==
  IsQuiet => \/ Grace + quiet_for <= last_activity + set_back
             \/ Oldest <= last_activity + set_back

(* A sleep begins while the proxy is not quiet, or has been quiet for less *)
(* than the clock was set back: by the end of the sleep it has been quiet  *)
(* for no longer than the sleep and the set-back together.                 *)
QuietInSleep == wait.at = "sleep" /\ IsQuiet => quiet_for <= wait.slept + set_back

(* wait_until_idle never sleeps through a lull longer than BusyRetry, but  *)
(* for as long as the clock was set back since the last stamp.             *)
THEOREM WaitInTime == Spec => []WaitEndsInTime
<1> USE MetricsAssumption
<1> DEFINE WaitInv == QuietAges /\ QuietInSleep /\ WaitEndsInTime
<1>1. Init => WaitInv
  BY DEF Init, QuietAges, QuietInSleep, WaitEndsInTime, Oldest
<1>2. CountInv /\ Stamps /\ Stamps' /\ WaitInv /\ [Next]_vars => WaitInv'
  <2> SUFFICES ASSUME CountInv, Stamps, Stamps', WaitInv, [Next]_vars PROVE WaitInv'
    OBVIOUS
  <2>0. /\ last_activity \in -MaxBack .. Oldest /\ ended \in 0 .. Grace
        /\ wait \in WaitState /\ quiet_for \in 0 .. BusyRetry + MaxBack + 1
        /\ set_back \in 0 .. MaxBack
        /\ req \in [Requests -> RequestState]
    BY DEF CountInv, TypeOK, WaitState, RequestState
  <2>a. wait.slept \in 0 .. BusyRetry
    BY <2>0 DEF WaitState
  <2>i. /\ last_activity \in Int /\ set_back \in Int /\ quiet_for \in Int
        /\ Grace \in Int /\ MaxBack \in Int /\ Oldest = Grace + MaxBack
        /\ 0 <= set_back
    BY <2>0 DEF Oldest
  <2>b. ASSUME UNCHANGED <<wait, quiet_for, last_activity, set_back>>,
               IsQuiet' => IsQuiet
        PROVE  WaitInv'
    BY <2>b DEF QuietAges, QuietInSleep, WaitEndsInTime
  <2>c. ASSUME ~ IsQuiet' PROVE WaitInv'
    BY <2>c DEF QuietAges, QuietInSleep, WaitEndsInTime
  <2>1. ASSUME NEW r \in Requests, BeginCount(r) \/ BeginStamp(r) PROVE WaitInv'
    <3>1. r \in InFlight'
      BY <2>0, <2>1, GotoTyped DEF BeginCount, BeginStamp, InFlight, Alive
    <3> QED
      BY <2>c, <3>1 DEF IsQuiet
  <2>2. ASSUME NEW r \in Requests, NEW body \in BOOLEAN, DropCount(r, body)
        PROVE  WaitInv'
    BY <2>c, <2>2 DEF DropCount, IsQuiet
  <2>3. ASSUME NEW r \in Requests, DropStamp(r) PROVE WaitInv'
    <3>1. ended' = 0
      BY <2>3 DEF DropStamp, Stamps
    <3> QED
      BY <2>c, <3>1 DEF IsQuiet
  <2>4. ASSUME NEW r \in Requests, EndBody(r) PROVE WaitInv'
    <3>1. InFlight' = InFlight
      BY <2>0, <2>4, SameInFlight DEF EndBody, NoRequest, RequestState, Alive
    <3> QED
      BY <2>b, <2>4, <3>1 DEF EndBody, IsQuiet
  <2>5. CASE LoadActive \/ LoadLast
    <3>1. /\ UNCHANGED <<req, ended, quiet_for, last_activity, set_back>>
          /\ wait.at # "pass"
      BY <2>5 DEF LoadActive, LoadLast
    <3>2. IsQuiet' <=> IsQuiet
      BY <3>1, SameInFlight DEF IsQuiet
    <3>3. ASSUME wait'.at = "sleep", IsQuiet
          PROVE  quiet_for <= set_back /\ wait'.slept = 0
      <4>1. CASE LoadActive
        BY <3>3, <4>1, FS_EmptySet DEF LoadActive, IsQuiet, CountInv, InFlightIsCounted
      <4>2. CASE LoadLast
        <5>1. last_activity < Grace /\ wait'.slept = 0
          BY <2>0, <3>3, <4>2 DEF LoadLast, SinceActivity, Oldest
        <5>2. \/ Grace + quiet_for <= last_activity + set_back
              \/ Grace + MaxBack <= last_activity + set_back
          BY <3>3 DEF QuietAges, Oldest
        <5> QED
          BY <2>0, <5>1, <5>2 DEF Oldest
      <4> QED
        BY <2>5, <4>1, <4>2
    <3>4. QuietAges' /\ WaitEndsInTime'
      BY <3>1, <3>2 DEF QuietAges, WaitEndsInTime
    <3>5. QuietInSleep'
      BY <2>0, <3>1, <3>2, <3>3 DEF QuietInSleep
    <3> QED
      BY <3>4, <3>5
  <2>6. CASE WakeUp
    <3>1. UNCHANGED <<req, ended, quiet_for, last_activity, set_back>>
          /\ wait.at = "sleep" /\ wait'.at = "load_active"
      BY <2>6 DEF WakeUp
    <3>2. IsQuiet' <=> IsQuiet
      BY <3>1, SameInFlight DEF IsQuiet
    <3> QED
      BY <3>1, <3>2 DEF QuietAges, QuietInSleep, WaitEndsInTime
  <2>7. CASE WaitAgain
    <3>1. /\ UNCHANGED <<req, ended, last_activity, set_back>>
          /\ quiet_for' = 0 /\ wait'.at = "load_active"
      BY <2>7 DEF WaitAgain
    <3>2. IsQuiet' <=> IsQuiet
      BY <3>1, SameInFlight DEF IsQuiet
    <3>3. QuietAges'
      BY <2>0, <3>1, <3>2 DEF QuietAges, Oldest
    <3> QED
      BY <2>0, <3>1, <3>3 DEF QuietInSleep, WaitEndsInTime
  <2>8. CASE Tick
    <3>1. \A r \in Requests : req'[r].at = req[r].at
      BY <2>8, TickAges DEF CountInv
    <3>2. InFlight' = InFlight
      BY <3>1, SameInFlight
    <3>3. wait.at \in {"sleep", "pass"}
      BY <2>0, <2>8 DEF Tick, SomethingDue, WaitState
    <3>4. /\ last_activity' \in Int /\ set_back' = set_back
          /\ last_activity' = last_activity + 1 \/ last_activity' = Oldest
      BY <2>0, <2>8 DEF Tick, AtMost, Oldest
    <3>5. CASE IsQuiet
      <4>1. quiet_for' \in Nat /\ quiet_for' <= quiet_for + 1
        BY <2>0, <2>8, <3>5 DEF Tick, AtMost
      <4>2. QuietAges'
        <5>1. \/ Grace + quiet_for <= last_activity + set_back
              \/ Grace + MaxBack <= last_activity + set_back
          BY <3>5 DEF QuietAges, Oldest
        <5>2. PICK last \in Int : /\ last_activity' = last
                                  /\ last = last_activity + 1 \/ last = Oldest
          BY <3>4
        <5>3. PICK quiet \in Int : quiet_for' = quiet /\ quiet <= quiet_for + 1
          BY <4>1
        <5>4. \/ Grace + quiet <= last + set_back
              \/ Grace + MaxBack <= last + set_back
          <6>1. CASE last = Oldest
            BY <2>i, <6>1
          <6>2. CASE last = last_activity + 1
            <7>1. Grace + quiet <= Grace + (quiet_for + 1)
              BY <2>i, <5>3
            <7> QED
              BY <2>i, <5>1, <6>2, <7>1
          <6> QED
            BY <5>2, <6>1, <6>2
        <5>5. last_activity' = last /\ quiet_for' = quiet /\ set_back' = set_back
          BY <3>4, <5>2, <5>3
        <5> QED
          BY <5>4, <5>5 DEF QuietAges, Oldest
      <4>3. CASE wait.at = "pass"
        BY <2>8, <4>2, <4>3 DEF Tick, QuietInSleep, WaitEndsInTime
      <4>4. CASE wait.at = "sleep"
        <5> DEFINE slept == wait.slept + 1
        <5>1. wait.slept # BusyRetry
          BY <2>8, <4>4 DEF Tick, SomethingDue
        <5>2. slept \in Nat /\ slept <= BusyRetry
          BY <2>a, <5>1
        <5>3. wait' = [wait EXCEPT !.slept = slept]
          BY <2>8, <4>4 DEF Tick
        <5>4. wait'.slept = slept
          BY <2>0, <5>3 DEF WaitState
        <5>5. quiet_for <= wait.slept + set_back
          BY <3>5, <4>4 DEF QuietInSleep
        <5>6. quiet_for' <= slept + set_back
          BY <2>0, <2>a, <4>1, <5>5
        <5> HIDE DEF slept
        <5>7. quiet_for' <= BusyRetry + set_back
          BY <2>0, <4>1, <5>2, <5>6
        <5> QED
          BY <3>4, <4>2, <5>4, <5>6, <5>7 DEF QuietInSleep, WaitEndsInTime
      <4> QED
        BY <3>3, <4>3, <4>4
    <3>6. CASE ~ IsQuiet
      <4>1. quiet_for' = 0
        BY <2>8, <3>6 DEF Tick
      <4>2. QuietAges'
        <5>1. IsQuiet' => Grace <= last_activity' + set_back'
          BY DEF Stamps, IsQuiet
        <5> QED
          BY <4>1, <5>1 DEF QuietAges
      <4>3. wait.at = "sleep" => wait'.slept \in Nat
        <5> DEFINE slept == wait.slept + 1
        <5>1. wait.at = "sleep" => wait' = [wait EXCEPT !.slept = slept]
          BY <2>8 DEF Tick
        <5>2. slept \in Nat
          BY <2>a
        <5> HIDE DEF slept
        <5> QED
          BY <2>0, <5>1, <5>2 DEF WaitState
      <4>4. wait.at = "pass" => wait' = wait
        BY <2>8 DEF Tick
      <4> QED
        BY <2>0, <3>3, <3>4, <4>1, <4>2, <4>3, <4>4 DEF QuietInSleep, WaitEndsInTime
    <3> QED
      BY <3>5, <3>6
  <2>9. ASSUME NEW last \in Int, NEW back \in Int,
               UNCHANGED <<wait, quiet_for, req, ended>>,
               last_activity' = last, set_back' = back,
               set_back <= back, last_activity + set_back <= last + back
        PROVE  WaitInv'
    <3>1. IsQuiet' <=> IsQuiet
      BY <2>9, SameInFlight DEF IsQuiet
    <3>2. UNCHANGED <<wait, quiet_for>>
      BY <2>9
    <3>3. QuietAges'
      <4>1. IsQuiet => \/ Grace + quiet_for <= last_activity + set_back
                       \/ Grace + MaxBack <= last_activity + set_back
        BY DEF QuietAges, Oldest
      <4>2. IsQuiet => \/ Grace + quiet_for <= last + back
                       \/ Grace + MaxBack <= last + back
        BY <2>i, <2>9, <4>1
      <4> QED
        BY <2>9, <3>1, <3>2, <4>2 DEF QuietAges, Oldest
    <3>4. \A n \in Nat : quiet_for <= n + set_back => quiet_for <= n + back
      BY <2>i, <2>9
    <3>5. QuietInSleep' /\ WaitEndsInTime'
      BY <2>a, <2>9, <3>1, <3>2, <3>4 DEF QuietInSleep, WaitEndsInTime
    <3> QED
      BY <3>3, <3>5
  <2>10. ASSUME NEW by \in 1 .. MaxBack, ClockSetBack(by) PROVE WaitInv'
    <3> DEFINE last == last_activity - by
               back == set_back + by
    <3>1. /\ UNCHANGED <<wait, quiet_for, req, ended>>
          /\ last_activity' = last /\ set_back' = back
      BY <2>10 DEF ClockSetBack
    <3>2. /\ last \in Int /\ back \in Int
          /\ set_back <= back /\ last_activity + set_back <= last + back
      BY <2>i
    <3> HIDE DEF last, back
    <3> QED
      BY <2>9, <3>1, <3>2
  <2>11. ASSUME NEW by \in 1 .. Oldest + MaxBack, ClockSetForward(by) PROVE WaitInv'
    <3> DEFINE last == AtMost(last_activity + by, Oldest)
    <3>1. /\ UNCHANGED <<wait, quiet_for, req, ended, set_back>>
          /\ last_activity' = last
      BY <2>11 DEF ClockSetForward
    <3>2. last \in Int /\ last_activity <= last
      BY <2>0 DEF AtMost, Oldest
    <3> HIDE DEF last
    <3>3. last_activity + set_back <= last + set_back
      BY <2>i, <3>2
    <3> QED
      BY <2>i, <2>9, <3>1, <3>2, <3>3
  <2>12. CASE UNCHANGED vars
    BY <2>i, <2>9, <2>12 DEF vars
  <2> QED
    BY <2>1, <2>2, <2>3, <2>4, <2>5, <2>6, <2>7, <2>8, <2>10, <2>11, <2>12 DEF Next
<1>3. WaitInv => WaitEndsInTime
  OBVIOUS
<1> QED
  BY <1>1, <1>2, <1>3, CountInductive, StampsInductive, PTL DEF Spec
=============================================================================
