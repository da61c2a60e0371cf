-------------------------- MODULE SelectorLocksProofs --------------------------
(***************************************************************************)
(* Theorems about SelectorLocks, for every number of tasks, every list of  *)
(* addresses and every result: the queues of the locks are in order, a     *)
(* snapshot sees one moment, pinning again repairs a half-done pin, and    *)
(* the operations are the single steps of Selector.                        *)
(***************************************************************************)
EXTENDS SelectorLocks, CandidatesProofs

PinCall == [at : {"pin_pinned_ip", "pin_between", "pin_candidates", "abandoned"},
            ip : Ips \cup {None}, alone : BOOLEAN]
ReportCall == [at : {"report"}, ip : Ips, m : MeasureResult]
ReadCall == [at : {"read", "snapshot"}]
SnapshotCall == [at : {"snapshot_copied", "snapshot_pinned_ip"}, seen : Seq(Ips)]

CallState == {Idle} \cup PinCall \cup ReportCall \cup ReadCall \cup SnapshotCall

(* The part of TypeOK that is not about queues.                            *)
Typed ==
  /\ now \in Nat
  /\ pinned_ip \in Ips \cup {None}
  /\ candidates \in CandidateList /\ Listed(candidates)
  /\ settled \in BOOLEAN
  /\ call \in [Tasks -> CallState]

(* Where a call is tells which locals it has.                              *)
LEMMA CallShape ==
  ASSUME NEW c \in CallState
  PROVE  /\ c.at = "idle" <=> c = Idle
         /\ c.at \in {"pin_pinned_ip", "pin_between", "pin_candidates", "abandoned"}
              <=> c \in PinCall
         /\ c.at = "report" <=> c \in ReportCall
         /\ c.at \in {"read", "snapshot"} <=> c \in ReadCall
         /\ c.at \in {"snapshot_copied", "snapshot_pinned_ip"} <=> c \in SnapshotCall
<1>1. CASE c = Idle
  BY <1>1 DEF Idle, PinCall, ReportCall, ReadCall, SnapshotCall
<1>2. CASE c \in PinCall
  BY <1>2 DEF Idle, PinCall, ReportCall, ReadCall, SnapshotCall
<1>3. CASE c \in ReportCall
  BY <1>3 DEF Idle, PinCall, ReportCall, ReadCall, SnapshotCall
<1>4. CASE c \in ReadCall
  BY <1>4 DEF Idle, PinCall, ReportCall, ReadCall, SnapshotCall
<1>5. CASE c \in SnapshotCall
  BY <1>5 DEF Idle, PinCall, ReportCall, ReadCall, SnapshotCall
<1> QED
  BY <1>1, <1>2, <1>3, <1>4, <1>5 DEF CallState

(* The list a pin call writes.                                             *)
LEMMA PinnedList ==
  ASSUME NEW ip \in Ips \cup {None}
  PROVE  /\ ListFor(ip) \in AddressList
         /\ FreshCandidates(ListFor(ip)) \in CandidateList
         /\ Listed(FreshCandidates(ListFor(ip)))
         /\ IpList(FreshCandidates(ListFor(ip))) = ListFor(ip)
<1>1. ListFor(ip) \in AddressList
  BY SelectorLocksAssumption DEF ListFor, AddressList
<1>2. \A i, j \in DOMAIN ListFor(ip) : ListFor(ip)[i] = ListFor(ip)[j] => i = j
  BY SelectorLocksAssumption DEF ListFor
<1> QED
  BY <1>1, <1>2, FreshList, FreshListed

LEMMA TypedInit == Init => Typed
<1> SUFFICES ASSUME Init PROVE Typed
  OBVIOUS
<1> USE SelectorLocksAssumption
<1>1. candidates = FreshCandidates(ListFor(None))
  BY DEF Init, ListFor
<1>2. candidates \in CandidateList /\ Listed(candidates)
  BY <1>1, PinnedList
<1> QED
  BY <1>2 DEF Init, Typed, CallState

LEMMA TypedStep ==
  ASSUME Typed, [Next]_vars
  PROVE  Typed'
<1> USE SelectorLocksAssumption, CandidatesAssumption
<1>1. \A t \in Tasks : call[t] \in CallState
  BY DEF Typed
<1>2. ASSUME NEW c \in CallState, NEW t \in Tasks, call' = [call EXCEPT ![t] = c],
             UNCHANGED <<now, candidates>>, pinned_ip' \in Ips \cup {None},
             settled' \in BOOLEAN
      PROVE  Typed'
  BY <1>2 DEF Typed
<1>3. ASSUME NEW t \in Pinners, NEW ip \in Ips \cup {None}, PinStart(t, ip)
      PROVE  Typed'
  <2>1. ASSUME NEW u \in Tasks PROVE call'[u] \in CallState
    <3>1. CASE u = t
      BY <1>3, <3>1 DEF PinStart, CallState, PinCall
    <3>2. CASE u # t /\ Pinning(u)
      <4>1. call[u] \in PinCall
        BY <1>1, <3>2, CallShape DEF Pinning
      <4>2. call'[u] = [call[u] EXCEPT !.alone = FALSE]
        BY <1>3, <3>2 DEF PinStart
      <4> QED
        BY <4>1, <4>2 DEF CallState, PinCall
    <3>3. CASE u # t /\ ~ Pinning(u)
      BY <1>1, <1>3, <3>3 DEF PinStart
    <3> QED
      BY <3>1, <3>2, <3>3
  <2>2. \E f : call' = [u \in Tasks |-> f[u]]
    <3>1. call' = [u \in Tasks |-> call'[u]]
      BY <1>3 DEF PinStart
    <3> QED
      BY <3>1
  <2> QED
    BY <1>3, <2>1, <2>2 DEF PinStart, Typed
<1>4. ASSUME NEW t \in Reporters, NEW ip \in Ips, NEW m \in MeasureResult,
             ReportStart(t, ip, m)
      PROVE  Typed'
  <2>1. [at |-> "report", ip |-> ip, m |-> m] \in CallState
    BY DEF CallState, ReportCall
  <2> QED
    BY <1>2, <1>4, <2>1 DEF ReportStart, Begin, Tasks, Typed
<1>5. ASSUME NEW t \in Viewers, ReadStart(t) \/ SnapshotStart(t)
      PROVE  Typed'
  <2>1. [at |-> "read"] \in CallState /\ [at |-> "snapshot"] \in CallState
    BY DEF CallState, ReadCall
  <2> QED
    BY <1>2, <1>5, <2>1 DEF ReadStart, SnapshotStart, Begin, Tasks, Typed
<1>6. ASSUME NEW t \in Tasks, PinWritePinnedIp(t)
      PROVE  Typed'
  <2>1. call[t] \in PinCall
    BY <1>1, <1>6, CallShape DEF PinWritePinnedIp
  <2>2. [call[t] EXCEPT !.at = "pin_between"] \in CallState /\ call[t].ip \in Ips \cup {None}
    BY <2>1 DEF CallState, PinCall
  <2>3. call' = [call EXCEPT ![t] = [call[t] EXCEPT !.at = "pin_between"]]
    BY <1>6 DEF PinWritePinnedIp
  <2> QED
    BY <1>2, <1>6, <2>2, <2>3 DEF PinWritePinnedIp
<1>7. ASSUME NEW t \in Tasks, PinWriteCandidates(t)
      PROVE  Typed'
  <2>1. call[t] \in PinCall
    BY <1>1, <1>7, CallShape DEF PinWriteCandidates
  <2>2. call[t].ip \in Ips \cup {None} /\ call[t].alone \in BOOLEAN
    BY <2>1 DEF PinCall
  <2>3. candidates' \in CandidateList /\ Listed(candidates')
    BY <1>7, <2>2, PinnedList DEF PinWriteCandidates
  <2> QED
    BY <1>7, <2>2, <2>3 DEF PinWriteCandidates, Return, Typed, CallState
<1>8. ASSUME NEW t \in Tasks, Report(t)
      PROVE  Typed'
  <2>1. call[t] \in ReportCall
    BY <1>1, <1>8, CallShape DEF Report
  <2>2. call[t].ip \in Ips /\ call[t].m \in MeasureResult
    BY <2>1 DEF ReportCall
  <2>3. candidates' = UpdateResult(candidates, call[t].ip, call[t].m, now)
    BY <1>8 DEF Report
  <2>4. candidates \in CandidateList /\ Listed(candidates) /\ now \in Nat
    BY DEF Typed
  <2>5. candidates' \in CandidateList
    BY <2>2, <2>3, <2>4, UpdateList
  <2>6. Listed(candidates')
    BY <2>2, <2>3, <2>4, OneUpdated
  <2> QED
    BY <1>8, <2>5, <2>6 DEF Report, Return, Typed, CallState
<1>9. ASSUME NEW t \in Tasks, Read(t) \/ SnapshotReadPinnedIp(t)
      PROVE  Typed'
  <2>1. Idle \in CallState
    BY DEF CallState
  <2> QED
    BY <1>2, <1>9, <2>1 DEF Read, SnapshotReadPinnedIp, Return, Typed
<1>10. ASSUME NEW t \in Tasks, SnapshotCopy(t)
       PROVE  Typed'
  <2>1. IpList(candidates) \in Seq(Ips)
    <3>1. /\ candidates \in Seq(CandidateState)
          /\ \A i \in DOMAIN candidates : candidates[i] \in CandidateState
      BY DEF Typed, CandidateList
    <3>2. \A c \in CandidateState : c.ip \in Ips
      BY DEF CandidateState
    <3>3. DOMAIN candidates = 1 .. Len(candidates) /\ Len(candidates) \in Nat
      BY <3>1
    <3> QED
      BY <3>1, <3>2, <3>3 DEF IpList
  <2>2. [at |-> "snapshot_copied", seen |-> IpList(candidates)] \in CallState
    BY <2>1 DEF CallState, SnapshotCall
  <2> QED
    BY <1>2, <1>10, <2>2 DEF SnapshotCopy, Typed
<1>11. ASSUME NEW t \in Tasks, Drop(t)
       PROVE  Typed'
  <2> DEFINE c == IF call[t].at = "pin_candidates"
                  THEN [call[t] EXCEPT !.at = "abandoned"] ELSE Idle
  <2>1. c \in CallState
    <3>1. CASE call[t].at = "pin_candidates"
      <4>1. call[t] \in PinCall
        BY <1>1, <3>1, CallShape
      <4> QED
        BY <3>1, <4>1 DEF CallState, PinCall
    <3>2. CASE call[t].at # "pin_candidates"
      BY <3>2 DEF CallState
    <3> QED
      BY <3>1, <3>2
  <2>2. call' = [call EXCEPT ![t] = c]
    BY <1>11 DEF Drop
  <2> HIDE DEF c
  <2> QED
    BY <1>2, <1>11, <2>1, <2>2 DEF Drop, Typed
<1>12. ASSUME NEW t \in Tasks, PinQueueCandidates(t)
       PROVE  Typed'
  <2>1. call[t] \in PinCall
    BY <1>1, <1>12, CallShape DEF PinQueueCandidates
  <2>2. [call[t] EXCEPT !.at = "pin_candidates"] \in CallState
    BY <2>1 DEF CallState, PinCall
  <2> QED
    BY <1>2, <1>12, <2>2 DEF PinQueueCandidates, Typed
<1>13. ASSUME NEW t \in Tasks, SnapshotQueuePinnedIp(t)
       PROVE  Typed'
  <2>1. call[t] \in SnapshotCall
    BY <1>1, <1>13, CallShape DEF SnapshotQueuePinnedIp
  <2>2. [call[t] EXCEPT !.at = "snapshot_pinned_ip"] \in CallState
    BY <2>1 DEF CallState, SnapshotCall
  <2> QED
    BY <1>2, <1>13, <2>2 DEF SnapshotQueuePinnedIp, Typed
<1>14. CASE Tick \/ ClockSetBack \/ UNCHANGED vars
  BY <1>14 DEF Tick, ClockSetBack, vars, Typed
<1> QED
  BY <1>3, <1>4, <1>5, <1>6, <1>7, <1>8, <1>9, <1>10, <1>11, <1>12, <1>13, <1>14
  DEF Next, Step

LEMMA TypedInductive == Spec => []Typed
  BY TypedInit, TypedStep, PTL DEF Spec

-----------------------------------------------------------------------------
(* What a pin call that runs alone may rely on: nobody else pins, so what  *)
(* it wrote to pinned_ip is there when it writes the list.  Only this      *)
(* makes PinningAgainRepairs inductive: it says nothing of half-done calls. *)
PinState ==
  /\ \A t \in Tasks : Pinning(t) \/ call[t].at = "abandoned" => t \in Pinners
  /\ \A t, u \in Tasks : Pinning(t) /\ call[t].alone /\ Pinning(u) => t = u
  /\ \A t \in Tasks : call[t].at \in {"pin_between", "pin_candidates"} /\ call[t].alone
                        => pinned_ip = call[t].ip
  /\ PinningAgainRepairs

LEMMA PinStateStep ==
  ASSUME Typed, PinState, [Next]_vars
  PROVE  PinState'
<1> USE SelectorLocksAssumption
<1>0. \A t \in Tasks : call[t] \in CallState
  BY DEF Typed
<1>1. ASSUME UNCHANGED <<pinned_ip, settled>>, IpList(candidates') = IpList(candidates),
             NEW t \in Tasks, NEW c, call' = [call EXCEPT ![t] = c],
             \/ c.at \in {"idle", "report", "read", "snapshot", "snapshot_copied",
                          "snapshot_pinned_ip"}
             \/ c.at = "abandoned" /\ t \in Pinners
      PROVE  PinState'
  <2>1. \A u \in Tasks : call'[u] = IF u = t THEN c ELSE call[u]
    BY <1>1 DEF Typed
  <2>2. PinningAgainRepairs'
    BY <1>1 DEF PinState, PinningAgainRepairs, ListFor
  <2>3. ~ Pinning(t)'
    BY <1>1, <2>1 DEF Pinning
  <2>4. \A u \in Tasks : Pinning(u)' => u # t /\ Pinning(u) /\ call'[u] = call[u]
    BY <2>1, <2>3 DEF Pinning
  <2> QED
    BY <1>1, <2>1, <2>2, <2>4 DEF PinState, Pinning
<1>2. ASSUME NEW t \in Pinners, NEW ip \in Ips \cup {None}, PinStart(t, ip)
      PROVE  PinState'
  <2> DEFINE alone == \A v \in Tasks : ~ Pinning(v)
  <2>1. \A u \in Tasks : call'[u] =
          IF u = t THEN [at |-> "pin_pinned_ip", ip |-> ip, alone |-> alone]
          ELSE IF Pinning(u) THEN [call[u] EXCEPT !.alone = FALSE] ELSE call[u]
    BY <1>2 DEF PinStart
  <2>2. \A u \in Tasks : Pinning(u) => call[u] \in PinCall
    BY <1>0, CallShape DEF Pinning
  <2>3. ASSUME NEW u \in Tasks, u # t
        PROVE  /\ call'[u].at = call[u].at
               /\ Pinning(u)' <=> Pinning(u)
               /\ Pinning(u) => call'[u].alone = FALSE
    BY <2>1, <2>2, <2>3 DEF PinCall, Pinning
  <2>4. /\ call'[t].at = "pin_pinned_ip" /\ (call'[t].alone <=> alone) /\ t \in Tasks
        /\ ~ Pinning(t)
    BY <1>2, <2>1 DEF Tasks, PinStart, Pinning, Idle
  <2>5. UNCHANGED <<pinned_ip, candidates, settled>>
    BY <1>2 DEF PinStart
  <2>6. ASSUME NEW v \in Tasks, NEW u \in Tasks, Pinning(v)', call'[v].alone, Pinning(u)'
        PROVE  v = u
    BY <2>3, <2>4, <2>6
  <2>7. \A v \in Tasks : call'[v].at \in {"pin_between", "pin_candidates"} => ~ call'[v].alone
    <3>1. \A v \in Tasks : call[v].at \in {"pin_between", "pin_candidates"} => Pinning(v)
      BY DEF Pinning
    <3> QED
      BY <2>3, <2>4, <3>1
  <2>8. PinningAgainRepairs'
    BY <2>5 DEF PinState, PinningAgainRepairs, ListFor
  <2>9. \A v \in Tasks : Pinning(v)' \/ call'[v].at = "abandoned" => v \in Pinners
    BY <1>2, <2>3, <2>4 DEF PinState
  <2> QED
    BY <2>6, <2>7, <2>8, <2>9 DEF PinState
<1>3. ASSUME NEW t \in Tasks, PinWritePinnedIp(t)
      PROVE  PinState'
  <2>1. call[t] \in PinCall /\ Pinning(t)
    BY <1>0, <1>3, CallShape DEF PinWritePinnedIp, Pinning
  <2>2. /\ \A u \in Tasks : u # t => call'[u] = call[u]
        /\ call'[t].at = "pin_between" /\ call'[t].ip = call[t].ip
        /\ call'[t].alone = call[t].alone
        /\ pinned_ip' = call[t].ip /\ settled' = FALSE
    BY <1>3, <2>1 DEF PinWritePinnedIp, PinCall, Typed
  <2>3. \A u \in Tasks : Pinning(u)' <=> Pinning(u)
    BY <2>1, <2>2 DEF Pinning
  <2>4. \A u \in Tasks : call'[u].at \in {"pin_between", "pin_candidates"} /\ call'[u].alone
                           => u = t
    <3>1. \A u \in Tasks : call'[u].at \in {"pin_between", "pin_candidates"} => Pinning(u)
      BY <2>3 DEF Pinning
    <3> QED
      BY <2>1, <2>2, <3>1 DEF PinState
  <2> QED
    BY <2>1, <2>2, <2>3, <2>4 DEF PinState, PinningAgainRepairs, Pinning
<1>4. ASSUME NEW t \in Tasks, PinWriteCandidates(t)
      PROVE  PinState'
  <2>1. call[t] \in PinCall /\ Pinning(t)
    BY <1>0, <1>4, CallShape DEF PinWriteCandidates, Pinning
  <2>2. /\ \A u \in Tasks : call'[u] = IF u = t THEN Idle ELSE call[u]
        /\ candidates' = FreshCandidates(ListFor(call[t].ip))
        /\ pinned_ip' = pinned_ip /\ settled' = call[t].alone
    BY <1>4 DEF PinWriteCandidates, Return, Typed
  <2>3. IpList(candidates') = ListFor(call[t].ip)
    BY <2>1, <2>2, PinnedList DEF PinCall
  <2>4. call[t].alone => pinned_ip = call[t].ip
    BY <1>4 DEF PinState, PinWriteCandidates
  <2>5. PinningAgainRepairs'
    BY <2>2, <2>3, <2>4 DEF PinningAgainRepairs, ListFor
  <2>6. \A u \in Tasks : Pinning(u)' => u # t /\ Pinning(u) /\ call'[u] = call[u]
    BY <2>2 DEF Pinning, Idle
  <2> QED
    BY <2>2, <2>5, <2>6 DEF PinState, Pinning, Idle
<1>5. ASSUME NEW t \in Tasks, Report(t)
      PROVE  PinState'
  <2>1. call[t] \in ReportCall
    BY <1>0, <1>5, CallShape DEF Report
  <2>2. IpList(candidates') = IpList(candidates)
    BY <1>5, <2>1, UpdateList DEF Report, ReportCall, Typed
  <2> QED
    BY <1>1, <1>5, <2>2 DEF Report, Return, Idle
<1>6. ASSUME NEW t \in Tasks, Drop(t)
      PROVE  PinState'
  <2> DEFINE c == IF call[t].at = "pin_candidates"
                  THEN [call[t] EXCEPT !.at = "abandoned"] ELSE Idle
  <2>1. (c.at = "abandoned" /\ t \in Pinners) \/ c.at = "idle"
    <3>1. CASE call[t].at = "pin_candidates"
      <4>1. call[t] \in PinCall
        BY <1>0, <3>1, CallShape
      <4> QED
        BY <3>1, <4>1 DEF PinCall, PinState, Pinning
    <3>2. CASE call[t].at # "pin_candidates"
      BY <3>2 DEF Idle
    <3> QED
      BY <3>1, <3>2
  <2>2. call' = [call EXCEPT ![t] = c] /\ UNCHANGED <<pinned_ip, candidates, settled>>
    BY <1>6 DEF Drop
  <2> HIDE DEF c
  <2> QED
    BY <1>1, <2>1, <2>2
<1>7. ASSUME NEW t \in Tasks, Read(t) \/ SnapshotCopy(t) \/ SnapshotReadPinnedIp(t)
      PROVE  PinState'
  <2>1. UNCHANGED <<pinned_ip, settled>> /\ IpList(candidates') = IpList(candidates)
    BY <1>7 DEF Read, SnapshotCopy, SnapshotReadPinnedIp
  <2>2. CASE Read(t) \/ SnapshotReadPinnedIp(t)
    BY <1>1, <2>1, <2>2 DEF Read, SnapshotReadPinnedIp, Return, Idle
  <2>3. CASE SnapshotCopy(t)
    <3> DEFINE c == [at |-> "snapshot_copied", seen |-> IpList(candidates)]
    <3>1. call' = [call EXCEPT ![t] = c] /\ c.at = "snapshot_copied"
      BY <2>3 DEF SnapshotCopy
    <3> HIDE DEF c
    <3> QED
      BY <1>1, <2>1, <3>1
  <2> QED
    BY <1>7, <2>2, <2>3
<1>8. ASSUME NEW t \in Tasks, NEW c, NEW l, NEW mode, Begin(t, c, l, mode),
             c.at \in {"report", "read", "snapshot"},
             UNCHANGED <<pinned_ip, candidates, settled>>
      PROVE  PinState'
  BY <1>1, <1>8 DEF Begin
<1>9. CASE \/ \E t \in Reporters, ip \in Ips, m \in MeasureResult : ReportStart(t, ip, m)
           \/ \E t \in Viewers : ReadStart(t) \/ SnapshotStart(t)
  BY <1>8, <1>9 DEF ReportStart, ReadStart, SnapshotStart, Tasks
<1>10. CASE Tick \/ ClockSetBack \/ UNCHANGED vars
  BY <1>10 DEF Tick, ClockSetBack, vars, PinState, PinningAgainRepairs, ListFor, Pinning
<1>11. ASSUME NEW t \in Tasks, PinQueueCandidates(t)
       PROVE  PinState'
  <2>1. call[t] \in PinCall /\ Pinning(t)
    BY <1>0, <1>11, CallShape DEF PinQueueCandidates, Pinning
  <2>2. /\ \A u \in Tasks : u # t => call'[u] = call[u]
        /\ call[t].at = "pin_between"
        /\ call'[t].at = "pin_candidates" /\ call'[t].ip = call[t].ip
        /\ call'[t].alone = call[t].alone
        /\ UNCHANGED <<pinned_ip, candidates, settled>>
    BY <1>11, <2>1 DEF PinQueueCandidates, PinCall, Typed
  <2>3. \A u \in Tasks : /\ Pinning(u)' <=> Pinning(u)
                         /\ call'[u].alone = call[u].alone /\ call'[u].ip = call[u].ip
                         /\ call'[u].at = "abandoned" <=> call[u].at = "abandoned"
                         /\ call'[u].at \in {"pin_between", "pin_candidates"}
                              <=> call[u].at \in {"pin_between", "pin_candidates"}
    BY <2>1, <2>2 DEF Pinning
  <2>4. PinningAgainRepairs'
    BY <2>2 DEF PinState, PinningAgainRepairs, ListFor
  <2> QED
    BY <2>2, <2>3, <2>4 DEF PinState
<1>12. ASSUME NEW t \in Tasks, SnapshotQueuePinnedIp(t)
       PROVE  PinState'
  <2> DEFINE c == [call[t] EXCEPT !.at = "snapshot_pinned_ip"]
  <2>1. call[t] \in SnapshotCall
    BY <1>0, <1>12, CallShape DEF SnapshotQueuePinnedIp
  <2>2. c.at = "snapshot_pinned_ip"
    BY <2>1 DEF SnapshotCall
  <2>3. call' = [call EXCEPT ![t] = c] /\ UNCHANGED <<pinned_ip, candidates, settled>>
    BY <1>12 DEF SnapshotQueuePinnedIp
  <2> HIDE DEF c
  <2> QED
    BY <1>1, <2>2, <2>3
<1> QED
  BY <1>2, <1>3, <1>4, <1>5, <1>6, <1>7, <1>9, <1>10, <1>11, <1>12 DEF Next, Step

LEMMA PinStateInductive == Spec => []PinState
<1>1. Init => PinState
  <2> SUFFICES ASSUME Init PROVE PinState
    OBVIOUS
  <2>1. IpList(candidates) = ListFor(pinned_ip)
    BY PinnedList DEF Init, ListFor
  <2> QED
    BY <2>1 DEF Init, PinState, PinningAgainRepairs, Idle, Pinning
<1> QED
  BY <1>1, PinStateStep, TypedInductive, PTL DEF Spec

(* A pin call that ran alone and to its end leaves pinned_ip and the list  *)
(* in agreement, whatever calls were dropped half-way before it, until     *)
(* the next one writes (set_pinned_ip).                                    *)
THEOREM PinningRepairs == Spec => []PinningAgainRepairs
<1>1. PinState => PinningAgainRepairs
  BY DEF PinState
<1> QED
  BY <1>1, PinStateInductive, PTL

-----------------------------------------------------------------------------
(* A snapshot that has copied the list keeps every writer of it out, so    *)
(* the list is still the group's when it reads pinned_ip (snapshot).       *)
THEOREM SnapshotIsOneMoment == Spec => []SnapshotSeesOneMoment
<1> DEFINE Copied == \A t \in Tasks :
             SnapshotHasCopied(t) => call[t].seen = IpList(candidates)
<1>1. Init => Copied
  BY DEF Init, Idle, SnapshotHasCopied
<1>2. Typed /\ Copied /\ [Next]_vars => Copied'
  <2> SUFFICES ASSUME Typed, Copied, [Next]_vars, NEW t \in Tasks,
                      SnapshotHasCopied(t)'
               PROVE  call'[t].seen = IpList(candidates')
    OBVIOUS
  <2>1. ASSUME call'[t] = call[t], candidates' = candidates
        PROVE  call'[t].seen = IpList(candidates')
    BY <2>1 DEF SnapshotHasCopied
  <2>2. ASSUME NEW u \in Tasks, PinWriteCandidates(u) \/ Report(u)
        PROVE  call'[t].seen = IpList(candidates')
    <3>1. HeldModes("candidates") = {}
      BY <2>2 DEF PinWriteCandidates, Report, Granted
    <3>2. ~ SnapshotHasCopied(t)
      BY <3>1 DEF HeldModes, Holds
    <3>3. call'[t] = IF t = u THEN Idle ELSE call[t]
      BY <2>2 DEF PinWriteCandidates, Report, Return, Typed
    <3> QED
      BY <3>2, <3>3 DEF Idle, SnapshotHasCopied
  <2>3. ASSUME NEW u \in Tasks, SnapshotCopy(u)
        PROVE  call'[t].seen = IpList(candidates')
    BY <2>1, <2>3 DEF SnapshotCopy, Typed
  <2>4. ASSUME NEW u \in Pinners, NEW ip \in Ips \cup {None}, PinStart(u, ip)
        PROVE  call'[t].seen = IpList(candidates')
    <3>1. ~ Pinning(t) /\ t # u
      <4>1. Pinning(t) => call[t] \in PinCall
        BY CallShape DEF Typed, Pinning
      <4> QED
        BY <2>4, <4>1 DEF PinStart, Pinning, PinCall, SnapshotHasCopied
    <3> QED
      BY <2>1, <2>4, <3>1 DEF PinStart
  <2>5. ASSUME NEW u \in Tasks,
               \/ PinWritePinnedIp(u) \/ PinQueueCandidates(u)
               \/ Read(u) \/ SnapshotReadPinnedIp(u) \/ Drop(u)
        PROVE  call'[t].seen = IpList(candidates')
    <3>1. candidates' = candidates /\ (t # u => call'[t] = call[t])
      BY <2>5
      DEF PinWritePinnedIp, PinQueueCandidates, Read, SnapshotReadPinnedIp, Drop, Return, Typed
    <3>2. ~ SnapshotHasCopied(u)'
      <4>1. Pinning(u) => call[u] \in PinCall
        BY CallShape DEF Typed, Pinning
      <4> QED
        BY <2>5, <4>1
        DEF PinWritePinnedIp, PinQueueCandidates, Read, SnapshotReadPinnedIp, Drop, Return,
            Typed, Idle, PinCall, Pinning, SnapshotHasCopied
    <3> QED
      BY <2>1, <3>1, <3>2
  <2>6. ASSUME NEW u \in Tasks, NEW c, NEW l, NEW mode, Begin(u, c, l, mode),
               c.at \in {"report", "read", "snapshot"}, UNCHANGED candidates
        PROVE  call'[t].seen = IpList(candidates')
    BY <2>1, <2>6 DEF Begin, Typed, SnapshotHasCopied
  <2>7. CASE \/ \E u \in Reporters, ip \in Ips, m \in MeasureResult : ReportStart(u, ip, m)
             \/ \E u \in Viewers : ReadStart(u) \/ SnapshotStart(u)
    <3>1. ASSUME NEW u \in Reporters, NEW ip \in Ips, NEW m \in MeasureResult,
                 ReportStart(u, ip, m)
          PROVE  call'[t].seen = IpList(candidates')
      <4>1. u \in Tasks /\ [at |-> "report", ip |-> ip, m |-> m].at = "report"
        BY DEF Tasks
      <4> QED
        BY <2>6, <3>1, <4>1 DEF ReportStart
    <3>2. ASSUME NEW u \in Viewers, ReadStart(u) \/ SnapshotStart(u)
          PROVE  call'[t].seen = IpList(candidates')
      <4>1. /\ u \in Tasks /\ [at |-> "read"].at = "read"
            /\ [at |-> "snapshot"].at = "snapshot"
        BY DEF Tasks
      <4> QED
        BY <2>6, <3>2, <4>1 DEF ReadStart, SnapshotStart
    <3> QED
      BY <2>7, <3>1, <3>2
  <2>8. CASE Tick \/ ClockSetBack \/ UNCHANGED vars
    BY <2>1, <2>8 DEF Tick, ClockSetBack, vars
  <2>9. ASSUME NEW u \in Tasks, SnapshotQueuePinnedIp(u)
        PROVE  call'[t].seen = IpList(candidates')
    <3>1. call[u] \in SnapshotCall
      BY <2>9, CallShape DEF Typed, SnapshotQueuePinnedIp
    <3>2. call'[u].seen = call[u].seen /\ SnapshotHasCopied(u) /\ candidates' = candidates
      BY <2>9, <3>1 DEF SnapshotQueuePinnedIp, SnapshotHasCopied, SnapshotCall, Typed
    <3> QED
      BY <2>1, <2>9, <3>2 DEF SnapshotQueuePinnedIp, Typed
  <2> QED
    BY <2>2, <2>3, <2>4, <2>5, <2>7, <2>8, <2>9 DEF Next, Step
<1>3. Copied => SnapshotSeesOneMoment
  BY DEF SnapshotSeesOneMoment, Tasks
<1> HIDE DEF Copied
<1> QED
  BY <1>1, <1>2, <1>3, TypedInductive, PTL DEF Spec

-----------------------------------------------------------------------------
(* The queue of a lock is right for a set of waiters: each of them is in   *)
(* it, and no task twice.                                                  *)
Waiter == [by : Tasks, mode : {"read", "write"}]

Lined(q, waiters) ==
  /\ q \in Seq(Waiter)
  /\ \A i, j \in DOMAIN q : q[i].by = q[j].by => i = j
  /\ \A w \in Waiter : w \in waiters <=> \E i \in DOMAIN q : q[i] = w

LEMMA Joins ==
  ASSUME NEW q, NEW waiters, Lined(q, waiters), NEW w \in Waiter,
         \A v \in waiters \cap Waiter : v.by # w.by
  PROVE  Lined(Append(q, w), waiters \cup {w})
<1> DEFINE new == Append(q, w)
<1>1. q \in Seq(Waiter) /\ \A i \in DOMAIN q : q[i] \in Waiter
  BY DEF Lined
<1>2. /\ new \in Seq(Waiter) /\ DOMAIN new = DOMAIN q \cup {Len(q) + 1}
      /\ \A i \in DOMAIN q : new[i] = q[i]
      /\ new[Len(q) + 1] = w
  BY <1>1
<1>3. \A i \in DOMAIN q : q[i].by # w.by
  BY <1>1 DEF Lined
<1> HIDE DEF new
<1>4. \A i, j \in DOMAIN new : new[i].by = new[j].by => i = j
  BY <1>2, <1>3 DEF Lined
<1>5. \A v \in Waiter : v \in waiters \cup {w} <=> \E i \in DOMAIN new : new[i] = v
  BY <1>2 DEF Lined
<1>6. Lined(new, waiters \cup {w})
  BY <1>2, <1>4, <1>5 DEF Lined
<1> QED
  BY <1>6 DEF new

LEMMA Leaves ==
  ASSUME NEW q, NEW waiters, Lined(q, waiters), NEW k \in DOMAIN q, NEW new,
         new \in Seq(Waiter), DOMAIN new = 1 .. Len(q) - 1,
         \A i \in DOMAIN new : new[i] = q[IF i < k THEN i ELSE i + 1]
  PROVE  Lined(new, waiters \ {q[k]})
<1>1. /\ q \in Seq(Waiter) /\ DOMAIN q = 1 .. Len(q) /\ Len(q) \in Nat /\ k \in 1 .. Len(q)
      /\ \A i \in DOMAIN q : q[i] \in Waiter
  BY DEF Lined
<1>2. \A i \in DOMAIN new : (IF i < k THEN i ELSE i + 1) \in DOMAIN q \ {k}
  BY <1>1
<1>3. \A i, j \in DOMAIN new : new[i].by = new[j].by => i = j
  <2> SUFFICES ASSUME NEW i \in DOMAIN new, NEW j \in DOMAIN new, new[i].by = new[j].by
               PROVE  i = j
    OBVIOUS
  <2>1. (IF i < k THEN i ELSE i + 1) = (IF j < k THEN j ELSE j + 1)
    BY <1>2 DEF Lined
  <2> QED
    BY <1>1, <2>1
<1>4. ASSUME NEW v \in Waiter, v \in waiters, v # q[k]
      PROVE  \E i \in DOMAIN new : new[i] = v
  <2>1. PICK j \in DOMAIN q : q[j] = v
    BY <1>4 DEF Lined
  <2>2. CASE j < k
    BY <1>1, <2>1, <2>2
  <2>3. CASE j > k
    <3>1. j - 1 \in DOMAIN new /\ ~ (j - 1 < k) /\ (j - 1) + 1 = j
      BY <1>1, <2>1, <2>3
    <3> QED
      BY <2>1, <3>1
  <2> QED
    BY <1>1, <1>4, <2>1, <2>2, <2>3
<1>5. ASSUME NEW i \in DOMAIN new
      PROVE  new[i] \in waiters /\ new[i] # q[k]
  <2> DEFINE j == IF i < k THEN i ELSE i + 1
  <2>1. j \in DOMAIN q /\ j # k /\ new[i] = q[j]
    BY <1>2
  <2> HIDE DEF j
  <2> QED
    BY <1>1, <2>1 DEF Lined
<1> QED
  BY <1>3, <1>4, <1>5 DEF Lined

(* The first of a queue leaves it when its lock is granted.                *)
LEMMA HeadLeaves ==
  ASSUME NEW q, NEW waiters, Lined(q, waiters), q # << >>
  PROVE  Lined(Tail(q), waiters \ {Head(q)})
<1>1. q \in Seq(Waiter)
  BY DEF Lined
<1>2. /\ Tail(q) \in Seq(Waiter) /\ DOMAIN Tail(q) = 1 .. Len(q) - 1 /\ 1 \in DOMAIN q
      /\ q[1] = Head(q)
  BY <1>1
<1>3. \A i \in DOMAIN Tail(q) : Tail(q)[i] = q[IF i < 1 THEN i ELSE i + 1]
  BY <1>1, <1>2
<1> QED
  BY <1>2, <1>3, Leaves

(* A task leaves the queue it is in when its future is dropped.            *)
LEMMA DropLeaves ==
  ASSUME NEW q, NEW waiters, Lined(q, waiters), NEW t
  PROVE  Lined(Without(q, t), {w \in waiters : w.by # t})
<1>1. q \in Seq(Waiter) /\ \A i \in DOMAIN q : q[i] \in Waiter
  BY DEF Lined
<1>2. CASE \E i \in DOMAIN q : q[i].by = t
  <2> DEFINE k == CHOOSE i \in DOMAIN q : q[i].by = t
             a == SubSeq(q, 1, k - 1)
             b == SubSeq(q, k + 1, Len(q))
  <2>1. k \in DOMAIN q /\ q[k].by = t
    BY <1>2
  <2>2. Without(q, t) = a \o b
    BY <1>2 DEF Without, RemoveAt
  <2> HIDE DEF k
  <2>3. k \in 1 .. Len(q) /\ Len(q) \in Nat
    BY <1>1, <2>1
  <2>4. a \in Seq(Waiter) /\ Len(a) = k - 1 /\ \A i \in 1 .. k - 1 : a[i] = q[i]
    BY <1>1, <2>3
  <2>5. b \in Seq(Waiter) /\ Len(b) = Len(q) - k /\ \A i \in 1 .. Len(q) - k : b[i] = q[k + i]
    BY <1>1, <2>3
  <2> HIDE DEF a, b
  <2>6. a \o b \in Seq(Waiter) /\ DOMAIN (a \o b) = 1 .. Len(q) - 1
    BY <2>3, <2>4, <2>5
  <2>7. \A i \in 1 .. Len(q) - 1 : (a \o b)[i] = q[IF i < k THEN i ELSE i + 1]
    BY <2>3, <2>4, <2>5
  <2>8. Lined(a \o b, waiters \ {q[k]})
    BY <2>1, <2>6, <2>7, Leaves
  <2>9. \A w \in Waiter : w \in waiters => (w.by # t <=> w # q[k])
    <3>1. ASSUME NEW w \in Waiter, w \in waiters, w.by = t PROVE w = q[k]
      <4>1. PICK i \in DOMAIN q : q[i] = w
        BY <3>1 DEF Lined
      <4> QED
        BY <2>1, <3>1, <4>1 DEF Lined
    <3> QED
      BY <2>1, <3>1
  <2> QED
    BY <2>2, <2>8, <2>9 DEF Lined
<1>3. CASE ~ \E i \in DOMAIN q : q[i].by = t
  <2>1. Without(q, t) = q
    BY <1>3 DEF Without
  <2>2. \A w \in Waiter : w \in waiters => w.by # t
    BY <1>3 DEF Lined
  <2> QED
    BY <2>1, <2>2 DEF Lined
<1> QED
  BY <1>2, <1>3

-----------------------------------------------------------------------------
Modes == {"read", "write"}

(* Who waits for a lock, if each task awaits what f says.                  *)
WaitersFor(l, f) == {w \in Waiter : <<l, w.mode>> \in f[w.by]}

AwaitedBy == [t \in Tasks |-> Awaits(call[t])]

QueuesInLine ==
  /\ queue \in [Locks -> Seq(Waiter)]
  /\ \A l \in Locks : Lined(queue[l], WaitersFor(l, AwaitedBy))

LEMMA AwaitsAt ==
  ASSUME NEW c
  PROVE  /\ c.at = "pin_pinned_ip" => Awaits(c) = {<<"pinned_ip", "write">>}
         /\ c.at \in {"pin_candidates", "report"} => Awaits(c) = {<<"candidates", "write">>}
         /\ c.at \in {"snapshot", "read"} => Awaits(c) = {<<"candidates", "read">>}
         /\ c.at = "snapshot_pinned_ip" => Awaits(c) = {<<"pinned_ip", "read">>}
         /\ c.at \in {"idle", "abandoned", "pin_between", "snapshot_copied"} => Awaits(c) = {}
  BY DEF Awaits

(* What happens to one queue when one task goes from one await to another: *)
(* nothing, or the task joins it, or leaves it at its head, or is dropped. *)
Stays(l, t, f, g, q, r) ==
  r = q /\ \A mode \in Modes : <<l, mode>> \in g[t] <=> <<l, mode>> \in f[t]

JoinsAs(l, t, f, g, q, r, mode) ==
  /\ r = Append(q, Wait(t, mode))
  /\ \A k \in Modes : <<l, k>> \notin f[t] /\ (<<l, k>> \in g[t] <=> k = mode)

IsServed(l, t, f, g, q, r, mode) ==
  /\ q # << >> /\ Head(q) = Wait(t, mode) /\ r = Tail(q)
  /\ \A k \in Modes : <<l, k>> \notin g[t] /\ (<<l, k>> \in f[t] <=> k = mode)

IsDropped(l, t, f, g, q, r) == r = Without(q, t) /\ g[t] = {}

LEMMA LineStep ==
  ASSUME NEW l, NEW t \in Tasks, NEW f, NEW g, \A u \in Tasks : u # t => g[u] = f[u],
         NEW q, NEW r, Lined(q, WaitersFor(l, f)),
         \/ Stays(l, t, f, g, q, r)
         \/ \E mode \in Modes : JoinsAs(l, t, f, g, q, r, mode)
         \/ \E mode \in Modes : IsServed(l, t, f, g, q, r, mode)
         \/ IsDropped(l, t, f, g, q, r)
  PROVE  Lined(r, WaitersFor(l, g))
<1> DEFINE old == WaitersFor(l, f)
           new == WaitersFor(l, g)
<1>0. \A w \in Waiter : /\ w.by \in Tasks /\ w.mode \in Modes
                        /\ w = Wait(w.by, w.mode)
                        /\ w \in old <=> <<l, w.mode>> \in f[w.by]
                        /\ w \in new <=> <<l, w.mode>> \in g[w.by]
  BY DEF Waiter, Modes, Wait, WaitersFor
<1>1. CASE Stays(l, t, f, g, q, r)
  <2>1. \A w \in Waiter : w \in new <=> w \in old
    BY <1>0, <1>1 DEF Stays
  <2> HIDE DEF old, new
  <2> QED
    BY <1>1, <2>1 DEF Stays, Lined, old, new
<1>2. ASSUME NEW mode \in Modes, JoinsAs(l, t, f, g, q, r, mode)
      PROVE  Lined(r, new)
  <2>1. Wait(t, mode) \in Waiter /\ Wait(t, mode).by = t
    BY DEF Wait, Waiter, Modes
  <2>2. \A w \in old \cap Waiter : w.by # Wait(t, mode).by
    BY <1>0, <1>2, <2>1 DEF JoinsAs
  <2>3. ASSUME NEW w \in Waiter PROVE w \in new <=> w \in old \cup {Wait(t, mode)}
    <3>1. CASE w.by = t
      <4>1. <<l, w.mode>> \in g[t] <=> w.mode = mode
        BY <1>0, <1>2 DEF JoinsAs
      <4>2. w.mode = mode <=> w = Wait(t, mode)
        BY <1>0, <2>1, <3>1 DEF Wait
      <4>3. w \notin old
        BY <1>0, <1>2, <3>1 DEF JoinsAs
      <4> QED
        BY <1>0, <3>1, <4>1, <4>2, <4>3
    <3>2. CASE w.by # t
      BY <1>0, <2>1, <3>2
    <3> QED
      BY <3>1, <3>2
  <2> HIDE DEF old, new
  <2>4. Lined(q, old)
    BY DEF old
  <2>5. Lined(r, old \cup {Wait(t, mode)})
    BY <1>2, <2>1, <2>2, <2>4, Joins DEF JoinsAs
  <2> QED
    BY <2>3, <2>5 DEF Lined
<1>3. ASSUME NEW mode \in Modes, IsServed(l, t, f, g, q, r, mode)
      PROVE  Lined(r, new)
  <2>1. Wait(t, mode) \in Waiter /\ Wait(t, mode).by = t /\ Wait(t, mode).mode = mode
    BY DEF Wait, Waiter, Modes
  <2>2. \A w \in Waiter : w \in new <=> w \in old \ {Wait(t, mode)}
    BY <1>0, <1>3, <2>1 DEF IsServed
  <2> HIDE DEF old, new
  <2>3. Lined(q, old)
    BY DEF old
  <2>4. Lined(r, old \ {Wait(t, mode)})
    BY <1>3, <2>3, HeadLeaves DEF IsServed
  <2> QED
    BY <2>2, <2>4 DEF Lined
<1>4. CASE IsDropped(l, t, f, g, q, r)
  <2>1. \A w \in Waiter : w \in new <=> w \in {v \in old : v.by # t}
    BY <1>0, <1>4 DEF IsDropped
  <2> HIDE DEF old, new
  <2>2. Lined(q, old)
    BY DEF old
  <2>3. Lined(r, {v \in old : v.by # t})
    BY <1>4, <2>2, DropLeaves DEF IsDropped
  <2> QED
    BY <2>1, <2>3 DEF Lined, new
<1> QED
  BY <1>1, <1>2, <1>3, <1>4

LEMMA QueueStep ==
  ASSUME Typed, QueuesInLine, [Next]_vars
  PROVE  QueuesInLine'
<1> DEFINE f == AwaitedBy
           g == AwaitedBy'
<1>0. /\ queue \in [Locks -> Seq(Waiter)]
      /\ \A l \in Locks : Lined(queue[l], WaitersFor(l, f))
      /\ \A u \in Tasks : call[u] \in CallState /\ f[u] = Awaits(call[u])
      /\ \A u \in Tasks : g[u] = Awaits(call'[u])
      /\ "pinned_ip" \in Locks /\ "candidates" \in Locks /\ "read" \in Modes /\ "write" \in Modes
      /\ \A l \in Locks : l = "pinned_ip" \/ l = "candidates"
      /\ \A l \in Locks : DOMAIN queue = Locks
  BY DEF QueuesInLine, Typed, AwaitedBy, Locks, Modes
<1> DEFINE Moves(t, l) == \/ Stays(l, t, f, g, queue[l], queue'[l])
                          \/ \E m \in Modes : JoinsAs(l, t, f, g, queue[l], queue'[l], m)
                          \/ \E m \in Modes : IsServed(l, t, f, g, queue[l], queue'[l], m)
                          \/ IsDropped(l, t, f, g, queue[l], queue'[l])
<1> HIDE DEF f, g
<1>1. ASSUME NEW t \in Tasks, \A u \in Tasks : u # t => call'[u].at = call[u].at,
             Moves(t, "pinned_ip"), Moves(t, "candidates"),
             \E h : queue' = [l \in Locks |-> h[l]]
      PROVE  QueuesInLine'
  <2>1. \A u \in Tasks : u # t => g[u] = f[u]
    <3>1. \A u \in Tasks : call'[u].at = call[u].at => Awaits(call'[u]) = Awaits(call[u])
      BY DEF Awaits
    <3> QED
      BY <1>0, <1>1, <3>1
  <2>2. ASSUME NEW l \in Locks PROVE Lined(queue'[l], WaitersFor(l, g))
    <3>1. Moves(t, l)
      BY <1>0, <1>1
    <3>2. Lined(queue[l], WaitersFor(l, f))
      BY <1>0
    <3> QED
      BY <2>1, <3>1, <3>2, LineStep
  <2>3. \A l \in Locks : queue'[l] \in Seq(Waiter)
    BY <2>2 DEF Lined
  <2> QED
    BY <1>1, <2>2, <2>3 DEF QueuesInLine, g
<1>2. ASSUME NEW t \in Pinners, NEW ip \in Ips \cup {None}, PinStart(t, ip)
      PROVE  QueuesInLine'
  <2>1. t \in Tasks
    BY DEF Tasks
  <2>2. call[t].at = "idle" /\ call'[t].at = "pin_pinned_ip"
    BY <1>2, <2>1 DEF PinStart, Idle
  <2>3. ASSUME NEW u \in Tasks, u # t PROVE call'[u].at = call[u].at
    <3>1. Pinning(u) => call[u] \in PinCall
      BY <1>0, CallShape DEF Pinning
    <3> QED
      BY <1>2, <2>3, <3>1 DEF PinStart, PinCall
  <2>4. f[t] = {} /\ g[t] = {<<"pinned_ip", "write">>}
    BY <1>0, <2>1, <2>2, AwaitsAt
  <2>5. /\ queue'["pinned_ip"] = Append(queue["pinned_ip"], Wait(t, "write"))
        /\ queue'["candidates"] = queue["candidates"]
        /\ queue' = [l \in Locks |-> queue'[l]]
    BY <1>0, <1>2 DEF PinStart, Queued
  <2> QED
    BY <1>0, <1>1, <2>1, <2>3, <2>4, <2>5 DEF Stays, JoinsAs, Modes
<1>3. ASSUME NEW t \in Tasks, NEW c, NEW mode \in Modes, Begin(t, c, "candidates", mode),
             Awaits(c) = {<<"candidates", mode>>}
      PROVE  QueuesInLine'
  <2>1. call'[t] = c /\ call[t].at = "idle" /\ \A u \in Tasks : u # t => call'[u] = call[u]
    BY <1>3 DEF Begin, Idle, Typed
  <2>2. f[t] = {} /\ g[t] = {<<"candidates", mode>>}
    BY <1>0, <1>3, <2>1, AwaitsAt
  <2>3. /\ queue'["candidates"] = Append(queue["candidates"], Wait(t, mode))
        /\ queue'["pinned_ip"] = queue["pinned_ip"]
        /\ queue' = [l \in Locks |-> queue'[l]]
    BY <1>0, <1>3 DEF Begin, Queued
  <2>4. Moves(t, "candidates")
    BY <2>2, <2>3 DEF JoinsAs
  <2>5. Moves(t, "pinned_ip")
    BY <2>2, <2>3 DEF Stays
  <2> QED
    BY <1>1, <2>1, <2>3, <2>4, <2>5
<1>4. CASE \E t \in Reporters, ip \in Ips, m \in MeasureResult : ReportStart(t, ip, m)
  <2>1. PICK t \in Reporters, ip \in Ips, m \in MeasureResult : ReportStart(t, ip, m)
    BY <1>4
  <2>2. t \in Tasks /\ "write" \in Modes
    BY DEF Tasks, Modes
  <2>3. Awaits([at |-> "report", ip |-> ip, m |-> m]) = {<<"candidates", "write">>}
    BY AwaitsAt
  <2>4. Begin(t, [at |-> "report", ip |-> ip, m |-> m], "candidates", "write")
    BY <2>1 DEF ReportStart
  <2> QED
    BY <1>3, <2>2, <2>3, <2>4
<1>5. CASE \E t \in Viewers : ReadStart(t) \/ SnapshotStart(t)
  <2>1. PICK t \in Viewers : ReadStart(t) \/ SnapshotStart(t)
    BY <1>5
  <2>2. t \in Tasks /\ "read" \in Modes
    BY DEF Tasks, Modes
  <2>3. \A at \in {"read", "snapshot"} : Awaits([at |-> at]) = {<<"candidates", "read">>}
    BY AwaitsAt
  <2>4. \E at \in {"read", "snapshot"} : Begin(t, [at |-> at], "candidates", "read")
    BY <2>1 DEF ReadStart, SnapshotStart
  <2> QED
    BY <1>3, <2>2, <2>3, <2>4
<1>6. ASSUME NEW t \in Tasks, NEW l \in Locks, NEW mode \in Modes,
             Awaits(call[t]) = {}, Awaits(call'[t]) = {<<l, mode>>},
             \A u \in Tasks : u # t => call'[u] = call[u], queue' = Queued(t, l, mode)
      PROVE  QueuesInLine'
  <2>1. f[t] = {} /\ g[t] = {<<l, mode>>}
    BY <1>0, <1>6
  <2>2. /\ queue'[l] = Append(queue[l], Wait(t, mode))
        /\ \A k \in Locks : k # l => queue'[k] = queue[k]
        /\ queue' = [k \in Locks |-> queue'[k]]
    BY <1>0, <1>6 DEF Queued
  <2>3. Moves(t, l)
    BY <2>1, <2>2 DEF JoinsAs
  <2>4. \A k \in Locks : k # l => Moves(t, k)
    BY <2>1, <2>2 DEF Stays
  <2>5. Moves(t, "pinned_ip") /\ Moves(t, "candidates")
    BY <1>0, <2>3, <2>4
  <2>6. \A u \in Tasks : u # t => call'[u].at = call[u].at
    BY <1>6
  <2> QED
    BY <1>1, <2>2, <2>5, <2>6
<1>7. ASSUME NEW t \in Tasks, PinQueueCandidates(t) \/ SnapshotQueuePinnedIp(t)
      PROVE  QueuesInLine'
  <2>1. /\ call[t].at \in {"pin_between", "snapshot_copied"}
        /\ \A u \in Tasks : u # t => call'[u] = call[u]
    BY <1>7 DEF PinQueueCandidates, SnapshotQueuePinnedIp, Typed
  <2>2. Awaits(call[t]) = {}
    BY <2>1, AwaitsAt
  <2>3. CASE PinQueueCandidates(t)
    <3>1. call[t] \in PinCall
      BY <1>0, <2>3, CallShape DEF PinQueueCandidates
    <3>2. call'[t].at = "pin_candidates"
      BY <2>3, <3>1 DEF PinQueueCandidates, Typed, PinCall
    <3>3. Awaits(call'[t]) = {<<"candidates", "write">>}
      BY <3>2, AwaitsAt
    <3> QED
      BY <1>0, <1>6, <2>1, <2>2, <2>3, <3>3 DEF PinQueueCandidates
  <2>4. CASE SnapshotQueuePinnedIp(t)
    <3>1. call[t] \in SnapshotCall
      BY <1>0, <2>4, CallShape DEF SnapshotQueuePinnedIp
    <3>2. call'[t].at = "snapshot_pinned_ip"
      BY <2>4, <3>1 DEF SnapshotQueuePinnedIp, Typed, SnapshotCall
    <3>3. Awaits(call'[t]) = {<<"pinned_ip", "read">>}
      BY <3>2, AwaitsAt
    <3> QED
      BY <1>0, <1>6, <2>1, <2>2, <2>4, <3>3 DEF SnapshotQueuePinnedIp
  <2> QED
    BY <1>7, <2>3, <2>4
<1>8. ASSUME NEW t \in Tasks, NEW l \in Locks, NEW mode \in Modes,
             Awaits(call[t]) = {<<l, mode>>}, Awaits(call'[t]) = {}, Granted(t, l, mode),
             \A u \in Tasks : u # t => call'[u] = call[u],
             queue' = [queue EXCEPT ![l] = Tail(@)]
      PROVE  QueuesInLine'
  <2>2. f[t] = {<<l, mode>>} /\ g[t] = {}
    BY <1>0, <1>8
  <2>3. /\ queue'[l] = Tail(queue[l]) /\ \A k \in Locks : k # l => queue'[k] = queue[k]
        /\ queue[l] # << >> /\ Head(queue[l]) = Wait(t, mode)
        /\ queue' = [k \in Locks |-> queue'[k]]
    BY <1>0, <1>8 DEF Granted
  <2>4. Moves(t, l)
    BY <2>2, <2>3 DEF IsServed
  <2>5. \A k \in Locks : k # l => Moves(t, k)
    BY <2>2, <2>3 DEF Stays
  <2>6. Moves(t, "pinned_ip") /\ Moves(t, "candidates")
    BY <1>0, <2>4, <2>5
  <2>7. \A u \in Tasks : u # t => call'[u].at = call[u].at
    BY <1>8
  <2> QED
    BY <1>1, <2>3, <2>6, <2>7
<1>9. ASSUME NEW t \in Tasks,
             \/ PinWritePinnedIp(t) \/ PinWriteCandidates(t) \/ Report(t)
             \/ Read(t) \/ SnapshotCopy(t) \/ SnapshotReadPinnedIp(t)
      PROVE  QueuesInLine'
  <2>1. \A u \in Tasks : u # t => call'[u] = call[u]
    BY <1>9 DEF PinWritePinnedIp, PinWriteCandidates, Report, Read, SnapshotCopy,
                SnapshotReadPinnedIp, Return, Typed
  <2>2. call'[t].at \in {"idle", "pin_between", "snapshot_copied"}
    <3>1. CASE PinWritePinnedIp(t)
      <4>1. call[t] \in PinCall
        BY <1>0, <3>1, CallShape DEF PinWritePinnedIp
      <4> QED
        BY <3>1, <4>1 DEF PinWritePinnedIp, Typed, PinCall
    <3>2. CASE SnapshotCopy(t)
      BY <3>2 DEF SnapshotCopy, Typed
    <3>3. CASE PinWriteCandidates(t) \/ Report(t) \/ Read(t) \/ SnapshotReadPinnedIp(t)
      BY <3>3
      DEF PinWriteCandidates, Report, Read, SnapshotReadPinnedIp, Return, Idle, Typed
    <3> QED
      BY <1>9, <3>1, <3>2, <3>3
  <2>3. Awaits(call'[t]) = {}
    BY <2>2, AwaitsAt
  <2>4. CASE PinWriteCandidates(t) \/ Report(t)
    <3>1. Awaits(call[t]) = {<<"candidates", "write">>}
      BY <2>4, AwaitsAt DEF PinWriteCandidates, Report
    <3> QED
      BY <1>0, <1>8, <2>1, <2>3, <2>4, <3>1 DEF PinWriteCandidates, Report
  <2>5. CASE Read(t) \/ SnapshotCopy(t)
    <3>1. Awaits(call[t]) = {<<"candidates", "read">>}
      BY <2>5, AwaitsAt DEF Read, SnapshotCopy
    <3> QED
      BY <1>0, <1>8, <2>1, <2>3, <2>5, <3>1 DEF Read, SnapshotCopy
  <2>6. CASE SnapshotReadPinnedIp(t)
    <3>1. Awaits(call[t]) = {<<"pinned_ip", "read">>}
      BY <2>6, AwaitsAt DEF SnapshotReadPinnedIp
    <3> QED
      BY <1>0, <1>8, <2>1, <2>3, <2>6, <3>1 DEF SnapshotReadPinnedIp
  <2>7. CASE PinWritePinnedIp(t)
    <3>1. Awaits(call[t]) = {<<"pinned_ip", "write">>}
      BY <2>7, AwaitsAt DEF PinWritePinnedIp
    <3> QED
      BY <1>0, <1>8, <2>1, <2>3, <2>7, <3>1 DEF PinWritePinnedIp
  <2> QED
    BY <1>9, <2>4, <2>5, <2>6, <2>7
<1>10. ASSUME NEW t \in Tasks, Drop(t)
       PROVE  QueuesInLine'
  <2>1. call'[t].at \in {"abandoned", "idle"} /\ \A u \in Tasks : u # t => call'[u] = call[u]
    <3>1. call[t].at = "pin_candidates" => call[t] \in PinCall
      BY <1>0, CallShape
    <3> QED
      BY <1>10, <3>1 DEF Drop, Typed, Idle, PinCall
  <2>2. g[t] = {}
    BY <1>0, <2>1, AwaitsAt
  <2>3. queue' = [l \in Locks |-> Without(queue[l], t)]
    BY <1>10 DEF Drop
  <2>4. \A l \in Locks : Moves(t, l)
    BY <2>2, <2>3 DEF IsDropped
  <2>5. \E h : queue' = [l \in Locks |-> h[l]]
    <3>1. queue' = [l \in Locks |-> queue'[l]]
      BY <2>3
    <3> QED
      BY <3>1
  <2> QED
    BY <1>0, <1>1, <2>1, <2>4, <2>5
<1>11. CASE UNCHANGED <<call, queue>>
  BY <1>11 DEF QueuesInLine, AwaitedBy, Awaits
<1> QED
  BY <1>2, <1>4, <1>5, <1>7, <1>9, <1>10, <1>11
  DEF Next, Step, Tick, ClockSetBack, vars

(* Who waits for a lock is in its queue, once, as what it waits for, in    *)
(* whatever order calls come, are served and are dropped; and every call   *)
(* has the locals of the await it is at.                                   *)
THEOREM LocksTyped == Spec => []TypeOK
<1>1. Init => QueuesInLine
  <2> SUFFICES ASSUME Init PROVE QueuesInLine
    OBVIOUS
  <2>1. \A t \in Tasks : Awaits(call[t]) = {}
    BY AwaitsAt DEF Init, Idle
  <2>2. \A l \in Locks : WaitersFor(l, AwaitedBy) = {}
    BY <2>1 DEF WaitersFor, AwaitedBy, Waiter
  <2>3. Lined(<< >>, {})
    BY DEF Lined
  <2> QED
    BY <2>2, <2>3 DEF Init, QueuesInLine, Lined
<1>2. Typed /\ QueuesInLine => TypeOK
  <2> SUFFICES ASSUME Typed, QueuesInLine PROVE TypeOK
    OBVIOUS
  <2>1. ASSUME NEW l \in Locks, NEW t \in Tasks, NEW mode \in {"read", "write"}
        PROVE  <<l, mode>> \in Awaits(call[t])
                 <=> \E i \in DOMAIN queue[l] : queue[l][i] = Wait(t, mode)
    <3>1. Wait(t, mode) \in Waiter /\ Wait(t, mode).by = t /\ Wait(t, mode).mode = mode
      BY DEF Wait, Waiter
    <3>2. Wait(t, mode) \in WaitersFor(l, AwaitedBy) <=> <<l, mode>> \in Awaits(call[t])
      BY <3>1 DEF WaitersFor, AwaitedBy
    <3> QED
      BY <3>1, <3>2 DEF QueuesInLine, Lined
  <2>2. \A l \in Locks : \A i, j \in DOMAIN queue[l] : queue[l][i].by = queue[l][j].by => i = j
    BY DEF QueuesInLine, Lined
  <2> QED
    BY <2>1, <2>2
    DEF Typed, QueuesInLine, TypeOK, CandidateList, CallState, PinCall, ReportCall,
      ReadCall, SnapshotCall, Waiter
<1> QED
  BY <1>1, <1>2, QueueStep, TypedInductive, PTL DEF Spec

-----------------------------------------------------------------------------
(* What Selector sees of a call and of a list: the two mappings of         *)
(* SelectorLocks, of a value.                                              *)
PinAt(c) ==
  IF c.at \in {"pin_pinned_ip", "pin_between", "pin_candidates", "abandoned"}
  THEN [at |-> IF c.at = "pin_pinned_ip" THEN "pinned_ip" ELSE "candidates",
        group |-> Group, ip |-> c.ip]
  ELSE [at |-> "idle", group |-> None, ip |-> None]

Told(c) ==
  [failed |-> c.last_fail_ts,
   last |-> IF c.fails > 0 THEN "fail"
            ELSE IF c.latency_ms # None THEN "ok" ELSE "none"]

ToldOf(cands, ip) ==
  IF \E i \in DOMAIN cands : cands[i].ip = ip
  THEN Told(cands[CHOOSE i \in DOMAIN cands : cands[i].ip = ip])
  ELSE [failed |-> 0, last |-> "none"]

LEMMA ToldOfListed ==
  ASSUME NEW cands, Listed(cands), NEW i \in DOMAIN cands
  PROVE  ToldOf(cands, cands[i].ip) = Told(cands[i])
<1> DEFINE k == CHOOSE j \in DOMAIN cands : cands[j].ip = cands[i].ip
<1>1. k \in DOMAIN cands /\ cands[k].ip = cands[i].ip
  OBVIOUS
<1>2. k = i
  BY <1>1 DEF Listed
<1> QED
  BY <1>2 DEF ToldOf

(* A new list tells of nothing reported.                                   *)
LEMMA ToldFresh ==
  ASSUME NEW at \in Ips \cup {None}, NEW ip
  PROVE  ToldOf(FreshCandidates(ListFor(at)), ip) = [failed |-> 0, last |-> "none"]
<1> DEFINE cands == FreshCandidates(ListFor(at))
<1>1. \A i \in DOMAIN cands : cands[i] = Fresh(ListFor(at)[i])
  BY DEF FreshCandidates
<1>2. Listed(cands)
  BY PinnedList
<1> HIDE DEF cands
<1>3. CASE \E i \in DOMAIN cands : cands[i].ip = ip
  <2>1. PICK i \in DOMAIN cands : cands[i].ip = ip
    BY <1>3
  <2>2. ToldOf(cands, ip) = Told(cands[i])
    BY <1>2, <2>1, ToldOfListed
  <2> QED
    BY <1>1, <2>2 DEF Told, Fresh, cands
<1>4. CASE ~ \E i \in DOMAIN cands : cands[i].ip = ip
  BY <1>4 DEF ToldOf, cands
<1> QED
  BY <1>3, <1>4

(* A candidate that took a result tells of it, and the others of what they *)
(* told before.                                                            *)
LEMMA ToldResult ==
  ASSUME NEW c \in CandidateState, NEW m \in MeasureResult, NEW t \in Nat
  PROVE  Told(WithResult(c, m, t)) =
           [failed |-> IF m.success THEN c.last_fail_ts ELSE t,
            last |-> IF m.success THEN "ok" ELSE "fail"]
<1> DEFINE new == WithResult(c, m, t)
<1>1. /\ new.last_fail_ts = IF m.success THEN c.last_fail_ts ELSE t
      /\ new.fails > 0 <=> ~ m.success
  BY ResultTyped
<1>2. m.success => m.latency_ms # None
  <2>1. CASE m = NoResponse
    BY <2>1 DEF NoResponse
  <2>2. CASE m \in [latency_ms : Latencies, speed_kbps : {None}, success : {FALSE}]
    BY <2>2
  <2>3. CASE m \in [latency_ms : Latencies, speed_kbps : Speeds \cap {0}, success : {FALSE}]
    BY <2>3
  <2>4. CASE m \in [latency_ms : Latencies, speed_kbps : Speeds, success : {TRUE}]
    BY <2>4, CandidatesAssumption
  <2> QED
    BY <2>1, <2>2, <2>3, <2>4 DEF MeasureResult
<1>3. m.success => new.latency_ms = m.latency_ms
  BY <1>2 DEF WithResult, CandidateState
<1> HIDE DEF new
<1>4. CASE m.success
  BY <1>1, <1>2, <1>3, <1>4 DEF Told, new
<1>5. CASE ~ m.success
  BY <1>1, <1>5 DEF Told, new
<1> QED
  BY <1>4, <1>5

LEMMA ToldUpdate ==
  ASSUME NEW cands \in CandidateList, NEW ip \in Ips, NEW m \in MeasureResult,
         NEW t \in Nat, Listed(cands), NEW new, new = UpdateResult(cands, ip, m, t),
         NEW a \in Ips
  PROVE  ToldOf(new, a) =
           IF a = ip /\ \E i \in DOMAIN cands : cands[i].ip = ip
           THEN [failed |-> IF m.success THEN ToldOf(cands, ip).failed ELSE t,
                 last |-> IF m.success THEN "ok" ELSE "fail"]
           ELSE ToldOf(cands, a)
<1>1. /\ DOMAIN new = DOMAIN cands /\ Listed(new)
      /\ \A i \in DOMAIN cands :
           /\ new[i] = IF cands[i].ip = ip THEN WithResult(cands[i], m, t) ELSE cands[i]
           /\ new[i].ip = cands[i].ip
           /\ cands[i] \in CandidateState
  BY OneUpdated
<1>2. CASE \E i \in DOMAIN cands : cands[i].ip = a
  <2>1. PICK i \in DOMAIN cands : cands[i].ip = a
    BY <1>2
  <2>2. ToldOf(cands, a) = Told(cands[i]) /\ ToldOf(new, a) = Told(new[i])
    BY <1>1, <2>1, ToldOfListed
  <2>3. CASE a = ip
    <3>1. Told(new[i]) = [failed |-> IF m.success THEN cands[i].last_fail_ts ELSE t,
                          last |-> IF m.success THEN "ok" ELSE "fail"]
      BY <1>1, <2>1, <2>3, ToldResult
    <3>2. ToldOf(cands, ip).failed = cands[i].last_fail_ts
      BY <2>2, <2>3 DEF Told
    <3> QED
      BY <1>2, <2>2, <2>3, <3>1, <3>2
  <2>4. CASE a # ip
    BY <1>1, <2>1, <2>2, <2>4
  <2> QED
    BY <2>3, <2>4
<1>3. CASE ~ \E i \in DOMAIN cands : cands[i].ip = a
  <2>1. ~ \E i \in DOMAIN new : new[i].ip = a
    BY <1>1, <1>3
  <2> QED
    BY <1>3, <2>1 DEF ToldOf
<1> QED
  BY <1>2, <1>3

-----------------------------------------------------------------------------
(* Every step between two awaits is a step of Selector, or one it does not *)
(* see.                                                                    *)
LEMMA AtomicStep ==
  ASSUME Typed, PinState, [Next]_vars
  PROVE  [Ops!Next]_(Ops!vars)
<1> USE SelectorLocksAssumption
<1> DEFINE P == [t \in Pinners |-> PinOf(t)]
           Q == [g \in {Group} |-> pinned_ip]
           C == [g \in {Group} |-> candidates]
           R == [g \in {Group} |-> [ip \in Ips |-> ReportedOf(ip)]]
           Unseen == /\ now' = now /\ P' = P /\ Q' = Q /\ C' = C /\ R' = R
<1>1. /\ P = [t \in Pinners |-> PinAt(call[t])]
      /\ P' = [t \in Pinners |-> PinAt(call'[t])]
      /\ R = [g \in {Group} |-> [ip \in Ips |-> ToldOf(candidates, ip)]]
      /\ R' = [g \in {Group} |-> [ip \in Ips |-> ToldOf(candidates', ip)]]
  BY DEF PinOf, PinAt, Pinning, ReportedOf, ToldOf, Told
<1>2. /\ pinned_ip' = pinned_ip => Q' = Q
      /\ candidates' = candidates => C' = C /\ R' = R
  BY <1>1
<1>3. Unseen => UNCHANGED Ops!vars
  BY DEF Ops!vars
<1>4. \A u \in Tasks : call[u] \in CallState
  BY DEF Typed
<1>5. \A ip \in Ips \cup {None} :
        /\ Ops!ListFor(Group, ip) = ListFor(ip)
        /\ Ops!FreshCandidates(ListFor(ip)) = FreshCandidates(ListFor(ip))
  BY DEF Ops!ListFor, ListFor, Ops!FreshCandidates, FreshCandidates, Ops!Fresh, Fresh
<1>6. Pinners \subseteq Tasks /\ PinAt(Idle) = Ops!PinIdle
  BY DEF Tasks, PinAt, Idle, Ops!PinIdle
<1>7. ASSUME NEW t \in Tasks, NEW c, call' = [call EXCEPT ![t] = c], PinAt(c) = PinAt(call[t]),
             UNCHANGED <<now, pinned_ip, candidates>>
      PROVE  Unseen
  <2>1. \A u \in Pinners : PinAt(call'[u]) = PinAt(call[u])
    BY <1>6, <1>7 DEF Typed
  <2> QED
    BY <1>1, <1>2, <1>7, <2>1
<1> HIDE DEF P, Q, C, R, Unseen
<1>8. ASSUME NEW t \in Pinners, NEW ip \in Ips \cup {None}, PinStart(t, ip)
      PROVE  Ops!PinStart(t, Group, ip)
  <2>1. call[t] = Idle /\ call'[t].at = "pin_pinned_ip" /\ call'[t].ip = ip
    BY <1>6, <1>8 DEF PinStart
  <2>2. ASSUME NEW u \in Pinners, u # t PROVE PinAt(call'[u]) = PinAt(call[u])
    <3>1. CASE Pinning(u)
      <4>1. call[u] \in PinCall
        BY <1>4, <1>6, <3>1, CallShape DEF Pinning
      <4>2. call'[u] = [call[u] EXCEPT !.alone = FALSE]
        BY <1>6, <1>8, <2>2, <3>1 DEF PinStart
      <4> QED
        BY <4>1, <4>2 DEF PinAt, PinCall
    <3>2. CASE ~ Pinning(u)
      BY <1>6, <1>8, <2>2, <3>2 DEF PinStart
    <3> QED
      BY <3>1, <3>2
  <2>3. P[t] = Ops!PinIdle
    BY <1>1, <1>6, <2>1
  <2>4. P' = [P EXCEPT ![t] = [at |-> "pinned_ip", group |-> Group, ip |-> ip]]
    <3>1. PinAt(call'[t]) = [at |-> "pinned_ip", group |-> Group, ip |-> ip]
      BY <2>1 DEF PinAt
    <3> QED
      BY <1>1, <2>2, <3>1
  <2>5. now' = now /\ Q' = Q /\ C' = C /\ R' = R /\ ListFor(ip) # << >>
    BY <1>2, <1>8 DEF PinStart
  <2> QED
    BY <1>5, <2>3, <2>4, <2>5 DEF Ops!PinStart, P, Q, C, R
<1>9. ASSUME NEW t \in Tasks, PinWritePinnedIp(t)
      PROVE  t \in Pinners /\ Ops!PinWritePinnedIp(t)
  <2>1. call[t] \in PinCall /\ call[t].at = "pin_pinned_ip" /\ t \in Pinners
    BY <1>4, <1>9, CallShape DEF PinWritePinnedIp, PinState, Pinning
  <2>2. P[t] = [at |-> "pinned_ip", group |-> Group, ip |-> call[t].ip]
    BY <1>1, <2>1 DEF PinAt
  <2>3. P' = [P EXCEPT ![t].at = "candidates"]
    <3>1. PinAt(call'[t]) = [at |-> "candidates", group |-> Group, ip |-> call[t].ip]
      BY <1>9, <2>1 DEF PinWritePinnedIp, Typed, PinAt, PinCall
    <3>2. \A u \in Pinners : u # t => PinAt(call'[u]) = PinAt(call[u])
      BY <1>6, <1>9 DEF PinWritePinnedIp, Typed
    <3>3. [P[t] EXCEPT !.at = "candidates"]
            = [at |-> "candidates", group |-> Group, ip |-> call[t].ip]
      BY <2>2
    <3>4. P' = [P EXCEPT ![t] = [at |-> "candidates", group |-> Group, ip |-> call[t].ip]]
      BY <1>1, <3>1, <3>2
    <3> QED
      BY <3>3, <3>4
  <2>4. Q' = [Q EXCEPT ![Group] = call[t].ip] /\ C' = C /\ R' = R /\ now' = now
    BY <1>2, <1>9 DEF PinWritePinnedIp, Q
  <2>5. P[t].at = "pinned_ip" /\ Q' = [Q EXCEPT ![P[t].group] = P[t].ip]
    BY <2>2, <2>4
  <2>6. Ops!PinWritePinnedIp(t)
    BY <2>3, <2>4, <2>5 DEF Ops!PinWritePinnedIp, P, Q, C, R
  <2> QED
    BY <2>1, <2>6
<1>10. ASSUME NEW t \in Tasks, PinWriteCandidates(t)
       PROVE  t \in Pinners /\ Ops!PinWriteCandidates(t)
  <2>1. call[t] \in PinCall /\ call[t].at = "pin_candidates" /\ t \in Pinners
    BY <1>4, <1>10, CallShape DEF PinWriteCandidates, PinState, Pinning
  <2>2. P[t] = [at |-> "candidates", group |-> Group, ip |-> call[t].ip]
    BY <1>1, <2>1 DEF PinAt
  <2>3. call[t].ip \in Ips \cup {None}
    BY <2>1 DEF PinCall
  <2>4. P' = [P EXCEPT ![t] = Ops!PinIdle]
    <3>1. \A u \in Pinners : call'[u] = IF u = t THEN Idle ELSE call[u]
      BY <1>6, <1>10 DEF PinWriteCandidates, Return, Typed
    <3> QED
      BY <1>1, <1>6, <3>1
  <2>5. candidates' = FreshCandidates(ListFor(call[t].ip))
    BY <1>10 DEF PinWriteCandidates
  <2>6. C' = [C EXCEPT ![Group] = Ops!FreshCandidates(Ops!ListFor(Group, call[t].ip))]
    BY <1>5, <2>3, <2>5 DEF C
  <2>7. R' = [R EXCEPT ![Group] = Ops!NothingReported]
    <3>1. \A ip \in Ips : ToldOf(candidates', ip) = [failed |-> 0, last |-> "none"]
      BY <2>3, <2>5, ToldFresh
    <3> QED
      BY <1>1, <3>1 DEF Ops!NothingReported
  <2>8. Q' = Q /\ now' = now
    BY <1>2, <1>10 DEF PinWriteCandidates
  <2>9. /\ P[t].at = "candidates"
        /\ C' = [C EXCEPT ![P[t].group] =
                   Ops!FreshCandidates(Ops!ListFor(P[t].group, P[t].ip))]
        /\ R' = [R EXCEPT ![P[t].group] = Ops!NothingReported]
    BY <2>2, <2>6, <2>7
  <2>10. Ops!PinWriteCandidates(t)
    BY <2>4, <2>8, <2>9 DEF Ops!PinWriteCandidates, P, Q, C, R
  <2> QED
    BY <2>1, <2>10
<1>11. ASSUME NEW t \in Tasks, Report(t)
       PROVE  \E ip \in Ips, m \in Ops!MeasureResult : Ops!Report(Group, ip, m)
  <2> DEFINE ip == call[t].ip
             m == call[t].m
  <2>1. ip \in Ips /\ m \in MeasureResult
    BY <1>4, <1>11, CallShape DEF Report, ReportCall
  <2>2. m \in Ops!MeasureResult
    BY <2>1 DEF MeasureResult, Ops!MeasureResult, NoResponse, Ops!NoResponse
  <2>3. candidates' = UpdateResult(candidates, ip, m, now)
    BY <1>11 DEF Report
  <2>4. Ops!UpdateResult(candidates, ip, m, now) = UpdateResult(candidates, ip, m, now)
    BY DEF UpdateResult, Ops!UpdateResult, IsFirstWith, Ops!IsFirstWith, WithResult,
           Ops!WithResult, InPenalty, Ops!InPenalty, SaturatingSub, Ops!SaturatingSub,
           SaturatingIncr, Ops!SaturatingIncr
  <2>5. P' = P
    <3>1. \A u \in Pinners : PinAt(call'[u]) = PinAt(call[u])
      <4>1. PinAt(call[t]) = Ops!PinIdle
        BY <1>11 DEF Report, PinAt, Ops!PinIdle
      <4> QED
        BY <1>6, <1>11, <4>1 DEF Report, Return, Typed
    <3> QED
      BY <1>1, <3>1
  <2>6. Q' = Q /\ now' = now
    BY <1>2, <1>11 DEF Report
  <2>7. C' = [C EXCEPT ![Group] = Ops!UpdateResult(@, ip, m, now)]
    BY <2>3, <2>4 DEF C
  <2> HIDE DEF ip, m
  <2>8. R' = IF \E i \in DOMAIN C[Group] : C[Group][i].ip = ip
             THEN [R EXCEPT ![Group][ip] =
                     [failed |-> IF m.success THEN @.failed ELSE now,
                      last |-> Ops!Outcome(m.success)]]
             ELSE R
    <3>1. ASSUME NEW a \in Ips
          PROVE  ToldOf(candidates', a) =
                   IF a = ip /\ \E i \in DOMAIN candidates : candidates[i].ip = ip
                   THEN [failed |-> IF m.success THEN ToldOf(candidates, ip).failed ELSE now,
                         last |-> IF m.success THEN "ok" ELSE "fail"]
                   ELSE ToldOf(candidates, a)
      BY <2>1, <2>3, ToldUpdate DEF Typed
    <3>2. C[Group] = candidates
      BY DEF C
    <3>3. CASE \E i \in DOMAIN candidates : candidates[i].ip = ip
      BY <1>1, <2>1, <3>1, <3>2, <3>3 DEF Ops!Outcome
    <3>4. CASE ~ \E i \in DOMAIN candidates : candidates[i].ip = ip
      <4>1. \A a \in Ips : ToldOf(candidates', a) = ToldOf(candidates, a)
        BY <3>1, <3>4
      <4> QED
        BY <1>1, <3>2, <3>4, <4>1
    <3> QED
      BY <3>3, <3>4
  <2>9. Ops!Report(Group, ip, m)
    BY <2>5, <2>6, <2>7, <2>8 DEF Ops!Report, P, Q, C, R
  <2> QED
    BY <2>1, <2>2, <2>9
<1>12. ASSUME NEW t \in Tasks, Drop(t)
       PROVE  \/ Unseen
              \/ t \in Pinners /\ Ops!PinDropped(t)
  <2> DEFINE c == IF call[t].at = "pin_candidates"
                  THEN [call[t] EXCEPT !.at = "abandoned"] ELSE Idle
  <2>1. call' = [call EXCEPT ![t] = c] /\ UNCHANGED <<now, pinned_ip, candidates>>
    BY <1>12 DEF Drop
  <2>2. CASE call[t].at = "pin_pinned_ip"
    <3>1. t \in Pinners /\ P[t] = [at |-> "pinned_ip", group |-> Group, ip |-> call[t].ip]
      BY <1>1, <2>2 DEF PinState, PinAt, Pinning
    <3>2. P' = [P EXCEPT ![t] = Ops!PinIdle]
      <4>1. \A u \in Pinners : call'[u] = IF u = t THEN Idle ELSE call[u]
        BY <1>6, <2>1, <2>2 DEF Typed
      <4> QED
        BY <1>1, <1>6, <4>1
    <3> QED
      BY <1>2, <2>1, <3>1, <3>2 DEF Ops!PinDropped, P, Q, C, R
  <2>3. CASE call[t].at = "pin_candidates"
    <3>1. call[t] \in PinCall
      BY <1>4, <2>3, CallShape
    <3>2. PinAt(c) = PinAt(call[t])
      BY <2>3, <3>1 DEF PinAt, PinCall
    <3> QED
      BY <1>7, <2>1, <3>2
  <2>4. CASE call[t].at \notin {"pin_pinned_ip", "pin_candidates"}
    <3>1. call[t].at \notin {"abandoned", "pin_between"}
      BY <1>12, AwaitsAt DEF Drop
    <3>2. PinAt(c) = PinAt(call[t])
      BY <2>4, <3>1 DEF PinAt, Idle
    <3> QED
      BY <1>7, <2>1, <3>2
  <2> QED
    BY <2>2, <2>3, <2>4
<1>13. ASSUME NEW t \in Tasks,
              \/ Read(t) \/ SnapshotReadPinnedIp(t) \/ SnapshotCopy(t)
              \/ SnapshotQueuePinnedIp(t) \/ PinQueueCandidates(t)
       PROVE  Unseen
  <2> DEFINE c == [at |-> "snapshot_copied", seen |-> IpList(candidates)]
             d == [call[t] EXCEPT !.at = "snapshot_pinned_ip"]
             e == [call[t] EXCEPT !.at = "pin_candidates"]
  <2>1. UNCHANGED <<now, pinned_ip, candidates>>
    BY <1>13 DEF Read, SnapshotReadPinnedIp, SnapshotCopy, SnapshotQueuePinnedIp,
                 PinQueueCandidates
  <2>2. CASE Read(t) \/ SnapshotReadPinnedIp(t)
    <3>1. PinAt(call[t]) = Ops!PinIdle /\ call' = [call EXCEPT ![t] = Idle]
      BY <2>2 DEF Read, SnapshotReadPinnedIp, Return, PinAt, Ops!PinIdle
    <3> QED
      BY <1>6, <1>7, <2>1, <3>1
  <2>3. CASE SnapshotCopy(t)
    <3>1. /\ PinAt(call[t]) = Ops!PinIdle /\ PinAt(c) = Ops!PinIdle
          /\ call' = [call EXCEPT ![t] = c]
      BY <2>3 DEF SnapshotCopy, PinAt, Ops!PinIdle
    <3> HIDE DEF c
    <3> QED
      BY <1>7, <2>1, <3>1
  <2>4. CASE SnapshotQueuePinnedIp(t)
    <3>1. call[t] \in SnapshotCall
      BY <1>4, <2>4, CallShape DEF SnapshotQueuePinnedIp
    <3>2. PinAt(call[t]) = Ops!PinIdle /\ PinAt(d) = Ops!PinIdle
      BY <2>4, <3>1 DEF SnapshotQueuePinnedIp, SnapshotCall, PinAt, Ops!PinIdle
    <3>3. call' = [call EXCEPT ![t] = d]
      BY <2>4 DEF SnapshotQueuePinnedIp
    <3> HIDE DEF d
    <3> QED
      BY <1>7, <2>1, <3>2, <3>3
  <2>5. CASE PinQueueCandidates(t)
    <3>1. call[t] \in PinCall
      BY <1>4, <2>5, CallShape DEF PinQueueCandidates
    <3>2. PinAt(e) = PinAt(call[t])
      BY <2>5, <3>1 DEF PinQueueCandidates, PinCall, PinAt
    <3>3. call' = [call EXCEPT ![t] = e]
      BY <2>5 DEF PinQueueCandidates
    <3> HIDE DEF e
    <3> QED
      BY <1>7, <2>1, <3>2, <3>3
  <2> QED
    BY <1>13, <2>2, <2>3, <2>4, <2>5
<1>14. ASSUME NEW t \in Tasks, NEW c, NEW l, NEW mode, Begin(t, c, l, mode),
              c.at \in {"report", "read", "snapshot"},
              UNCHANGED <<now, pinned_ip, candidates>>
       PROVE  Unseen
  <2>1. PinAt(c) = PinAt(call[t])
    BY <1>6, <1>14 DEF Begin, PinAt, Ops!PinIdle
  <2> QED
    BY <1>7, <1>14, <2>1 DEF Begin
<1>15. CASE \/ \E t \in Reporters, ip \in Ips, m \in MeasureResult : ReportStart(t, ip, m)
            \/ \E t \in Viewers : ReadStart(t) \/ SnapshotStart(t)
  <2>1. Unseen
    BY <1>14, <1>15 DEF ReportStart, ReadStart, SnapshotStart, Tasks
  <2> QED
    BY <1>3, <2>1
<1>16. CASE Tick
  <2>1. P' = P /\ Q' = Q /\ C' = C /\ R' = R
    BY <1>1, <1>2, <1>16 DEF Tick
  <2>2. Ops!Tick
    BY <1>16, <2>1 DEF Tick, Ops!Tick, P, Q, C, R
  <2> QED
    BY <2>2 DEF Ops!Next
<1>17. CASE ClockSetBack
  <2>1. P' = P /\ Q' = Q /\ C' = C /\ R' = R
    BY <1>1, <1>2, <1>17 DEF ClockSetBack
  <2>2. Ops!ClockSetBack
    BY <1>17, <2>1 DEF ClockSetBack, Ops!ClockSetBack, P, Q, C, R
  <2> QED
    BY <2>2 DEF Ops!Next
<1>18. CASE UNCHANGED vars
  <2>1. Unseen
    BY <1>1, <1>2, <1>18 DEF vars, Unseen
  <2> QED
    BY <1>3, <2>1
<1>19. CASE \E t \in Pinners, ip \in Ips \cup {None} : PinStart(t, ip)
  BY <1>8, <1>19 DEF Ops!Next
<1>20. ASSUME NEW t \in Tasks, Step(t) PROVE [Ops!Next]_(Ops!vars)
  <2>1. CASE PinWritePinnedIp(t)
    BY <1>9, <2>1 DEF Ops!Next
  <2>2. CASE PinWriteCandidates(t)
    BY <1>10, <2>2 DEF Ops!Next
  <2>3. CASE Report(t)
    BY <1>11, <2>3 DEF Ops!Next
  <2>4. CASE \/ Read(t) \/ SnapshotReadPinnedIp(t) \/ SnapshotCopy(t)
             \/ SnapshotQueuePinnedIp(t) \/ PinQueueCandidates(t)
    BY <1>3, <1>13, <2>4
  <2> QED
    BY <1>20, <2>1, <2>2, <2>3, <2>4 DEF Step
<1>21. ASSUME NEW t \in Tasks, Drop(t) PROVE [Ops!Next]_(Ops!vars)
  BY <1>3, <1>12, <1>21 DEF Ops!Next
<1> QED
  BY <1>15, <1>16, <1>17, <1>18, <1>19, <1>20, <1>21 DEF Next

(* To everyone else the operations are the single steps of Selector,       *)
(* whatever they wait for and wherever they are dropped: what is proved of *)
(* Selector holds of the code's awaits and locks (src/selector.rs).        *)
THEOREM LocksImplementSelector == Spec => OperationsAreAtomic
<1>1. Init => Ops!Init
  <2> SUFFICES ASSUME Init PROVE Ops!Init
    OBVIOUS
  <2>1. \A t \in Pinners : PinOf(t) = Ops!PinIdle
    BY DEF Init, PinOf, Pinning, Idle, Tasks, Ops!PinIdle
  <2>2. candidates = FreshCandidates(ListFor(None))
    BY DEF Init, ListFor
  <2>3. \A ip \in Ips : ReportedOf(ip) = [failed |-> 0, last |-> "none"]
    <3>1. \A ip \in Ips : ReportedOf(ip) = ToldOf(candidates, ip)
      BY DEF ReportedOf, ToldOf, Told
    <3> QED
      BY <2>2, <3>1, ToldFresh
  <2>4. Ops!FreshCandidates(Bundled) = FreshCandidates(Bundled)
    BY DEF Ops!FreshCandidates, FreshCandidates, Ops!Fresh, Fresh
  <2> QED
    BY <2>1, <2>3, <2>4 DEF Init, Ops!Init, Ops!NothingReported
<1>2. Typed /\ PinState /\ [Next]_vars => [Ops!Next]_(Ops!vars)
  BY AtomicStep
<1> QED
  BY <1>1, <1>2, TypedInductive, PinStateInductive, PTL
  DEF Spec, OperationsAreAtomic, Ops!Spec
=============================================================================
