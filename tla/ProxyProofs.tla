----------------------------- MODULE ProxyProofs ------------------------------
(***************************************************************************)
(* Theorems about Selector, and about Proxy, which extends it.  The first  *)
(* are for every set of groups, addresses, calls and results; the second   *)
(* also for every set of requests, every header timeout that is not longer *)
(* than the penalty, and every length of a body.                           *)
(***************************************************************************)
EXTENDS Proxy, CandidatesProofs

-----------------------------------------------------------------------------
(* Selector alone: the lists and what is served from them.                 *)


(* Every list a group can be given is a non-empty list of addresses.       *)
LEMMA ListForTyped ==
  ASSUME NEW g \in Groups, NEW ip \in Ips \cup {None}
  PROVE  ListFor(g, ip) \in AddressList
  BY SelectorAssumption DEF ListFor, AddressList

-----------------------------------------------------------------------------
LEMMA InitTyped == Init => TypeOK
<1> USE SelectorAssumption, CandidatesAssumption
<1> SUFFICES ASSUME Init PROVE TypeOK
  OBVIOUS
<1>1. candidates \in [Groups -> CandidateList]
  BY FreshList DEF Init, AddressList
<1>2. pin \in [Pinners -> {PinIdle}]
  BY DEF Init
<1> QED
  BY <1>1, <1>2 DEF Init, TypeOK, CandidateList, NothingReported

(* Every step keeps the types. *)
LEMMA TypeStep ==
  ASSUME TypeOK, [Next]_vars
  PROVE  TypeOK'
<1> USE SelectorAssumption, CandidatesAssumption
<1>1. ASSUME NEW p \in Pinners, NEW g \in Groups, NEW ip \in Ips \cup {None},
             PinStart(p, g, ip)
      PROVE  TypeOK'
  BY <1>1 DEF TypeOK, PinStart
<1>2. ASSUME NEW p \in Pinners, PinWritePinnedIp(p)
      PROVE  TypeOK'
  <2>1. pin[p] \in [at : {"pinned_ip", "candidates"}, group : Groups,
                    ip : Ips \cup {None}]
    BY <1>2 DEF TypeOK, PinWritePinnedIp, PinIdle
  <2> QED
    BY <1>2, <2>1 DEF TypeOK, PinWritePinnedIp
<1>3. ASSUME NEW p \in Pinners, PinWriteCandidates(p)
      PROVE  TypeOK'
  <2>1. pin[p] \in [at : {"pinned_ip", "candidates"}, group : Groups,
                    ip : Ips \cup {None}]
    BY <1>3 DEF TypeOK, PinWriteCandidates, PinIdle
  <2>2. FreshCandidates(ListFor(pin[p].group, pin[p].ip)) \in CandidateList
    BY <2>1, ListForTyped, FreshList
  <2>3. NothingReported \in [Ips -> [failed : Nat, last : {"none", "ok", "fail"}]]
    BY DEF NothingReported
  <2> HIDE DEF NothingReported
  <2> QED
    BY <1>3, <2>2, <2>3 DEF TypeOK, PinWriteCandidates, CandidateList
<1>4. ASSUME NEW g \in Groups, NEW ip \in Ips, NEW m \in MeasureResult,
             Report(g, ip, m)
      PROVE  TypeOK'
  <2>1. UpdateResult(candidates[g], ip, m, now) \in CandidateList
    BY UpdateList DEF TypeOK, CandidateList
  <2>2. candidates' \in [Groups -> CandidateList]
    BY <1>4, <2>1 DEF TypeOK, Report, CandidateList
  <2>3. reported' \in [Groups -> [Ips -> [failed : Nat, last : {"none", "ok", "fail"}]]]
    BY <1>4 DEF TypeOK, Report, Outcome
  <2> QED
    BY <1>4, <2>2, <2>3 DEF TypeOK, Report, CandidateList
<1>5. CASE Tick
  BY <1>5 DEF TypeOK, Tick
<1>6. CASE ClockSetBack
  BY <1>6 DEF TypeOK, ClockSetBack
<1>7. ASSUME NEW p \in Pinners, PinDropped(p)
      PROVE  TypeOK'
  BY <1>7 DEF TypeOK, PinDropped
<1>8. CASE UNCHANGED vars
  BY <1>8 DEF TypeOK, vars
<1> QED
  BY <1>1, <1>2, <1>3, <1>4, <1>5, <1>6, <1>7, <1>8 DEF Next

(* Type correctness: in particular no list is ever empty, so best_ip       *)
(* always has an address to return (Selector::set_pinned_ip, best_ip).     *)
THEOREM TypeCorrect == Spec => []TypeOK
<1>1. TypeOK /\ [Next]_vars => TypeOK'
  BY TypeStep
<1> QED
  BY <1>1, InitTyped, PTL DEF Spec

-----------------------------------------------------------------------------
(* What a group serves is its bundled list or one pinned address and goes  *)
(* from one to the other in one step, whatever overlaps                    *)
(* (ServesOnlyWhatIsPinned): every step of Selector is a step of           *)
(* SelectorAbs or leaves its state alone.                                  *)
THEOREM ServingRefinesAbs == Spec => ServesOnlyWhatIsPinned
<1> USE SelectorAssumption, CandidatesAssumption
<1> DEFINE serving == [g \in Groups |-> IpList(candidates[g])]
<1>1. Init => Abs!Init
  <2> SUFFICES ASSUME Init PROVE Abs!Init
    OBVIOUS
  <2>1. \A g \in Groups : IpList(candidates[g]) = Bundled[g]
    BY FreshList DEF Init, AddressList
  <2> QED
    BY <2>1 DEF Abs!Init, Abs!ListFor
<1>2. TypeOK /\ [Next]_vars => [Abs!Next]_serving
  <2> SUFFICES ASSUME TypeOK, [Next]_vars PROVE [Abs!Next]_serving
    OBVIOUS
  <2>1. ASSUME UNCHANGED candidates PROVE UNCHANGED serving
    BY <2>1
  <2>2. ASSUME NEW p \in Pinners, PinWriteCandidates(p)
        PROVE  Abs!Next
    <3> DEFINE g == pin[p].group
               ip == pin[p].ip
    <3>1. g \in Groups /\ ip \in Ips \cup {None}
      BY <2>2 DEF TypeOK, PinWriteCandidates, PinIdle
    <3>2. IpList(FreshCandidates(ListFor(g, ip))) = ListFor(g, ip)
      BY <3>1, ListForTyped, FreshList
    <3>3. candidates' = [candidates EXCEPT ![g] = FreshCandidates(ListFor(g, ip))]
      BY <2>2 DEF PinWriteCandidates
    <3> HIDE DEF g, ip
    <3>4. serving' = [serving EXCEPT ![g] = ListFor(g, ip)]
      BY <3>1, <3>2, <3>3 DEF TypeOK
    <3> QED
      BY <3>1, <3>4 DEF Abs!Next, Abs!Serve, Abs!ListFor, ListFor
  <2>3. ASSUME NEW g \in Groups, NEW ip \in Ips, NEW m \in MeasureResult,
               Report(g, ip, m)
        PROVE  UNCHANGED serving
    <3>1. IpList(UpdateResult(candidates[g], ip, m, now)) = IpList(candidates[g])
      BY UpdateList DEF TypeOK, CandidateList
    <3> QED
      BY <2>3, <3>1 DEF TypeOK, Report
  <2> QED
    BY <2>1, <2>2, <2>3
    DEF Next, PinStart, PinWritePinnedIp, PinDropped, Tick, ClockSetBack, vars
<1> QED
  BY <1>1, <1>2, TypeCorrect, PTL DEF Spec, ServesOnlyWhatIsPinned, Abs!Spec

-----------------------------------------------------------------------------
-----------------------------------------------------------------------------
(* What ties a list to what was reported of its addresses: no address is   *)
(* listed twice, and the failure time and the flag of each candidate are   *)
(* the ones of the last reports.  FailureIsQuarantined and DownIsCurrent   *)
(* compare the list with the reports; neither is inductive without this.   *)
Reports == [Ips -> [failed : Nat, last : {"none", "ok", "fail"}]]

Recorded(cands, rep) == \A i \in DOMAIN cands :
  /\ cands[i].last_fail_ts = rep[cands[i].ip].failed
  /\ cands[i].down <=> rep[cands[i].ip].last = "fail"

Ledger == \A g \in Groups :
            Listed(candidates[g]) /\ Recorded(candidates[g], reported[g])

(* A list built by new or set_pinned_ip, with nothing reported since.      *)
LEMMA FreshLedger ==
  ASSUME NEW g \in Groups, NEW ip \in Ips \cup {None}
  PROVE  /\ Listed(FreshCandidates(ListFor(g, ip)))
         /\ Recorded(FreshCandidates(ListFor(g, ip)), NothingReported)
<1> DEFINE ips == ListFor(g, ip)
           cands == FreshCandidates(ips)
<1>1. ips \in AddressList
  BY ListForTyped
<1>2. \A i, j \in DOMAIN ips : ips[i] = ips[j] => i = j
  BY SelectorAssumption DEF ListFor
<1>3. \A i \in DOMAIN ips : ips[i] \in Ips
  BY <1>1 DEF AddressList
<1> HIDE DEF ips
<1>4. DOMAIN cands = DOMAIN ips /\ \A i \in DOMAIN ips : cands[i] = Fresh(ips[i])
  BY <1>1, FreshList
<1> HIDE DEF cands
<1>5. \A i \in DOMAIN ips : /\ cands[i].ip = ips[i]
                            /\ cands[i].last_fail_ts = 0
                            /\ cands[i].down = FALSE
  BY <1>4 DEF Fresh
<1>6. Listed(cands)
  BY <1>1, <1>2, FreshListed DEF cands
<1>7. Recorded(cands, NothingReported)
  BY <1>3, <1>4, <1>5 DEF Recorded, NothingReported
<1> QED
  BY <1>6, <1>7 DEF cands, ips

(* update_result and mark_failure change the candidate they find and no    *)
(* other, as the report of its address says.                               *)
LEMMA ReportLedger ==
  ASSUME NEW old \in CandidateList, NEW rep \in Reports, NEW ip \in Ips,
         NEW m \in MeasureResult, NEW t \in Nat,
         Listed(old), Recorded(old, rep)
  PROVE  LET new == UpdateResult(old, ip, m, t)
             now_rep == [rep EXCEPT ![ip] =
                           [failed |-> IF m.success THEN @.failed ELSE t,
                            last |-> Outcome(m.success)]]
         IN  Listed(new) /\ Recorded(new, now_rep)
<1> DEFINE new == UpdateResult(old, ip, m, t)
           now_rep == [rep EXCEPT ![ip] =
                         [failed |-> IF m.success THEN @.failed ELSE t,
                          last |-> Outcome(m.success)]]
<1>1. /\ DOMAIN new = DOMAIN old /\ Listed(new)
      /\ \A i \in DOMAIN old :
           /\ new[i] = IF old[i].ip = ip THEN WithResult(old[i], m, t) ELSE old[i]
           /\ new[i].ip = old[i].ip
           /\ old[i] \in CandidateState /\ old[i].ip \in Ips
  BY OneUpdated
<1> HIDE DEF new
<1>2. ASSUME NEW i \in DOMAIN old
      PROVE  /\ new[i].last_fail_ts = now_rep[old[i].ip].failed
             /\ new[i].down <=> now_rep[old[i].ip].last = "fail"
  <2>1. CASE old[i].ip = ip
    <3>1. /\ new[i].last_fail_ts = IF m.success THEN old[i].last_fail_ts ELSE t
          /\ new[i].down <=> ~ m.success
      BY <1>1, <2>1, ResultTyped
    <3>2. /\ now_rep[ip].failed = IF m.success THEN rep[ip].failed ELSE t
          /\ now_rep[ip].last = Outcome(m.success)
      BY DEF Reports
    <3> HIDE DEF now_rep
    <3> QED
      BY <2>1, <3>1, <3>2 DEF Recorded, Outcome
  <2>2. CASE old[i].ip # ip
    <3>1. new[i] = old[i]
      BY <1>1, <2>2
    <3>2. now_rep[old[i].ip] = rep[old[i].ip]
      BY <1>1, <2>2 DEF Reports
    <3> HIDE DEF now_rep
    <3> QED
      BY <3>1, <3>2 DEF Recorded
  <2> QED
    BY <2>1, <2>2
<1> HIDE DEF now_rep
<1>3. Recorded(new, now_rep)
  BY <1>1, <1>2 DEF Recorded
<1> QED
  BY <1>1, <1>3 DEF new, now_rep

LEMMA LedgerInductive == Spec => []Ledger
<1> USE SelectorAssumption, CandidatesAssumption
<1>1. Init => Ledger
  <2> SUFFICES ASSUME Init, NEW g \in Groups
               PROVE  Listed(candidates[g]) /\ Recorded(candidates[g], reported[g])
    BY DEF Ledger
  <2>1. candidates[g] = FreshCandidates(ListFor(g, None))
    BY DEF Init, ListFor
  <2>2. reported[g] = NothingReported
    BY DEF Init
  <2> QED
    BY <2>1, <2>2, FreshLedger
<1>2. TypeOK /\ Ledger /\ [Next]_vars => Ledger'
  <2> SUFFICES ASSUME TypeOK, Ledger, [Next]_vars PROVE Ledger'
    OBVIOUS
  <2>1. ASSUME UNCHANGED <<candidates, reported>> PROVE Ledger'
    BY <2>1 DEF Ledger
  <2>2. ASSUME NEW p \in Pinners, PinWriteCandidates(p) PROVE Ledger'
    <3> DEFINE h == pin[p].group
               ip == pin[p].ip
    <3>1. h \in Groups /\ ip \in Ips \cup {None}
      BY <2>2 DEF TypeOK, PinWriteCandidates, PinIdle
    <3>2. /\ candidates' = [candidates EXCEPT ![h] = FreshCandidates(ListFor(h, ip))]
          /\ reported' = [reported EXCEPT ![h] = NothingReported]
      BY <2>2 DEF PinWriteCandidates
    <3>3. /\ Listed(FreshCandidates(ListFor(h, ip)))
          /\ Recorded(FreshCandidates(ListFor(h, ip)), NothingReported)
      BY <3>1, FreshLedger
    <3> HIDE DEF h, ip
    <3> SUFFICES ASSUME NEW g \in Groups
                 PROVE  Listed(candidates'[g]) /\ Recorded(candidates'[g], reported'[g])
      BY DEF Ledger
    <3>4. CASE g = h
      <4>1. /\ candidates'[g] = FreshCandidates(ListFor(h, ip))
            /\ reported'[g] = NothingReported
        BY <3>2, <3>4 DEF TypeOK
      <4> QED
        BY <3>3, <4>1
    <3>5. CASE g # h
      <4>1. candidates'[g] = candidates[g] /\ reported'[g] = reported[g]
        BY <3>2, <3>5 DEF TypeOK
      <4> QED
        BY <4>1 DEF Ledger
    <3> QED
      BY <3>4, <3>5
  <2>3. ASSUME NEW h \in Groups, NEW ip \in Ips, NEW m \in MeasureResult,
               Report(h, ip, m)
        PROVE  Ledger'
    <3> DEFINE new == UpdateResult(candidates[h], ip, m, now)
               new_rep == [reported[h] EXCEPT ![ip] =
                             [failed |-> IF m.success THEN @.failed ELSE now,
                              last |-> Outcome(m.success)]]
    <3>1. candidates[h] \in CandidateList /\ reported[h] \in Reports /\ now \in Nat
      BY DEF TypeOK, CandidateList, Reports
    <3>2. Listed(candidates[h]) /\ Recorded(candidates[h], reported[h])
      BY DEF Ledger
    <3>3. Listed(new) /\ Recorded(new, new_rep)
      BY <3>1, <3>2, ReportLedger
    <3>4. Recorded(new, reported'[h])
      <4>1. CASE \E i \in DOMAIN candidates[h] : candidates[h][i].ip = ip
        <5>1. reported'[h] = new_rep
          BY <2>3, <4>1 DEF TypeOK, Report
        <5> QED
          BY <3>3, <5>1
      <4>2. CASE ~ \E i \in DOMAIN candidates[h] : candidates[h][i].ip = ip
        <5>1. reported' = reported
          BY <2>3, <4>2 DEF Report
        <5>2. \A i \in DOMAIN candidates[h] : ~ IsFirstWith(ip, i, candidates[h])
          BY <4>2 DEF IsFirstWith
        <5>3. /\ DOMAIN new = DOMAIN candidates[h]
              /\ \A i \in DOMAIN candidates[h] : new[i] = candidates[h][i]
          BY <5>2 DEF UpdateResult
        <5> HIDE DEF new
        <5> QED
          BY <3>2, <5>1, <5>3 DEF Recorded
      <4> QED
        BY <4>1, <4>2
    <3> HIDE DEF new_rep
    <3> SUFFICES ASSUME NEW g \in Groups
                 PROVE  Listed(candidates'[g]) /\ Recorded(candidates'[g], reported'[g])
      BY DEF Ledger
    <3>5. CASE g = h
      <4>1. candidates'[g] = new
        BY <2>3, <3>5 DEF TypeOK, Report
      <4> HIDE DEF new
      <4> QED
        BY <3>3, <3>4, <3>5, <4>1
    <3>6. CASE g # h
      <4>1. candidates'[g] = candidates[g] /\ reported'[g] = reported[g]
        BY <2>3, <3>6 DEF TypeOK, Report
      <4> QED
        BY <4>1 DEF Ledger
    <3> QED
      BY <3>5, <3>6
  <2> QED
    BY <2>1, <2>2, <2>3
    DEF Next, PinStart, PinWritePinnedIp, PinDropped, Tick, ClockSetBack, vars
<1> QED
  BY <1>1, <1>2, TypeCorrect, PTL DEF Spec

(* best_ip never picks an address whose failure was reported less than a   *)
(* penalty ago while a clean one is listed, whatever successes are         *)
(* reported around it (update_result, mark_failure, best_ip).              *)
THEOREM Quarantine == Spec => []FailureIsQuarantined
<1>1. TypeOK /\ Ledger => FailureIsQuarantined
  <2> SUFFICES ASSUME TypeOK, Ledger, NEW g \in Groups
               PROVE  LET cands == candidates[g]
                          clean == {i \in DOMAIN cands :
                                      ~ InPenalty(reported[g][cands[i].ip].failed, now)}
                      IN  clean # {} =>
                            \E i \in clean : cands[i].ip = BestIp(cands, now)
    BY DEF FailureIsQuarantined
  <2> DEFINE cands == candidates[g]
             clean == {i \in DOMAIN cands :
                         ~ InPenalty(reported[g][cands[i].ip].failed, now)}
  <2>1. clean = Healthy(cands, now)
    BY DEF Ledger, Recorded, Healthy
  <2>2. cands \in CandidateList /\ now \in Nat
    BY DEF TypeOK, CandidateList
  <2>3. \E i \in PickPool(cands, now) : BestIp(cands, now) = cands[i].ip
    BY <2>2, BestIpIsBest
  <2> QED
    BY <2>1, <2>3 DEF PickPool
<1> QED
  BY <1>1, TypeCorrect, LedgerInductive, PTL

(* The dashboard's down flag is never stale: it is shown exactly when the  *)
(* last report was a failure within the penalty (update_result, snapshot). *)
THEOREM DownShownIsCurrent == Spec => []DownIsCurrent
<1>1. Ledger => DownIsCurrent
  BY DEF Ledger, Recorded, DownIsCurrent, ShownDown
<1> QED
  BY <1>1, LedgerInductive, PTL

(* The candidate badged "best" is the one traffic goes to, unless a        *)
(* failure that the dashboard no longer shows keeps traffic away (snapshot *)
(* ranks by score alone, best_ip by failure time first).                   *)
THEOREM BadgeIsServed == Spec => []BadgeIsServedUnlessItFailed
<1>1. TypeOK /\ Ledger => BadgeIsServedUnlessItFailed
  <2> SUFFICES ASSUME TypeOK, Ledger, NEW g \in Groups
               PROVE  LET cands == candidates[g]
                          first == ShownFirst(cands, now)
                          recent(i) == InPenalty(reported[g][cands[i].ip].failed, now)
                          clear_winner ==
                            \A j \in DOMAIN cands \ {first} :
                              ScoreAt(cands[first], now) > ScoreAt(cands[j], now)
                      IN  clear_winner /\ ~ ShownDown(cands[first], now)
                            => (cands[first].ip = BestIp(cands, now)
                                  <=> (recent(first) => \A i \in DOMAIN cands : recent(i)))
    BY DEF BadgeIsServedUnlessItFailed
  <2> DEFINE cands == candidates[g]
             first == ShownFirst(cands, now)
             recent(i) == InPenalty(reported[g][cands[i].ip].failed, now)
             score(i) == ScoreAt(cands[i], now)
             pool == PickPool(cands, now)
  <2>1. cands \in CandidateList /\ now \in Nat
    BY DEF TypeOK, CandidateList
  <2>2. first \in DOMAIN cands
    BY <2>1, ShownFirstIsFirst
  <2>3. \A i \in DOMAIN cands : score(i) \in Int
    BY <2>1, ScoreTyped DEF CandidateList
  <2>4. PICK k \in pool : /\ k \in DOMAIN cands
                         /\ BestIp(cands, now) = cands[k].ip
                         /\ \A j \in pool : score(j) <= score(k)
    BY <2>1, BestIpIsBest
  <2>5. cands[first].ip = BestIp(cands, now) <=> first = k
    BY <2>2, <2>4 DEF Ledger, Listed
  <2>6. /\ \A i \in DOMAIN cands : i \in Healthy(cands, now) <=> ~ recent(i)
        /\ Healthy(cands, now) \subseteq DOMAIN cands
        /\ pool = IF Healthy(cands, now) = {} THEN DOMAIN cands ELSE Healthy(cands, now)
    BY DEF Ledger, Recorded, Healthy, PickPool
  <2> SUFFICES ASSUME \A j \in DOMAIN cands \ {first} : score(first) > score(j)
               PROVE  first = k <=> (recent(first) => \A i \in DOMAIN cands : recent(i))
    BY <2>5
  <2> HIDE DEF cands, first, recent, score, pool
  <2>7. ASSUME first = k, recent(first) PROVE \A i \in DOMAIN cands : recent(i)
    BY <2>2, <2>4, <2>6, <2>7
  <2>8. ASSUME recent(first) => \A i \in DOMAIN cands : recent(i) PROVE first = k
    <3>1. first \in pool
      BY <2>2, <2>6, <2>8
    <3>2. score(first) <= score(k)
      BY <2>4, <3>1
    <3> QED
      BY <2>2, <2>3, <2>4, <3>2
  <2> QED
    BY <2>7, <2>8
<1> QED
  BY <1>1, TypeCorrect, LedgerInductive, PTL

-----------------------------------------------------------------------------
(* While a call is between its two writes, pinned_ip is what it wrote.     *)
MidCall == \A p \in Pinners :
  pin[p].at = "candidates" => pinned_ip[pin[p].group] = pin[p].ip

(* As long as at most one set_pinned_ip call is in flight at a time, a     *)
(* group serves what its pinned_ip says (set_pinned_ip's two locks).  With *)
(* two, TLC shows it does not.                                             *)
THEOREM SerialPins ==
  ASSUME \A p, q \in Pinners : p = q
  PROVE  Spec => []PinnedIpTellsTheList
<1> USE SelectorAssumption, CandidatesAssumption
<1> DEFINE Inv == MidCall /\ PinnedIpTellsTheList
<1>1. Init => Inv
  <2> SUFFICES ASSUME Init PROVE Inv
    OBVIOUS
  <2>1. \A g \in Groups : IpList(candidates[g]) = Bundled[g]
    BY FreshList DEF Init, AddressList
  <2> QED
    BY <2>1 DEF Init, MidCall, PinnedIpTellsTheList, PinIdle, ListFor
<1>2. TypeOK /\ Inv /\ [Next]_vars => Inv'
  <2> SUFFICES ASSUME TypeOK, Inv, [Next]_vars PROVE Inv'
    OBVIOUS
  <2>1. ASSUME NEW p \in Pinners, NEW g \in Groups, NEW ip \in Ips \cup {None},
               PinStart(p, g, ip)
        PROVE  Inv'
    <3>1. \A q \in Pinners : pin[q].at # "candidates" /\ pin'[q].at # "candidates"
      BY <2>1 DEF PinStart, PinIdle, TypeOK
    <3> QED
      BY <2>1, <3>1 DEF PinStart, MidCall, PinnedIpTellsTheList, ListFor
  <2>2. ASSUME NEW p \in Pinners, PinWritePinnedIp(p)
        PROVE  Inv'
    <3>1. pin[p].group \in Groups
      BY <2>2 DEF TypeOK, PinWritePinnedIp, PinIdle
    <3>2. \A q \in Pinners : q = p
      OBVIOUS
    <3>3. /\ pin'[p].at = "candidates"
          /\ pin'[p].group = pin[p].group /\ pin'[p].ip = pin[p].ip
      BY <2>2 DEF TypeOK, PinWritePinnedIp
    <3>4. pinned_ip'[pin[p].group] = pin[p].ip
      BY <2>2, <3>1 DEF TypeOK, PinWritePinnedIp
    <3>5. MidCall'
      BY <3>2, <3>3, <3>4 DEF MidCall
    <3>6. ASSUME NEW g \in Groups, g # pin[p].group
          PROVE  (IpList(candidates[g]) = ListFor(g, pinned_ip[g]))'
      <4>1. pinned_ip'[g] = pinned_ip[g] /\ candidates' = candidates
        BY <2>2, <3>6 DEF TypeOK, PinWritePinnedIp
      <4>2. IpList(candidates[g]) = ListFor(g, pinned_ip[g])
        BY <2>2, <3>2 DEF PinnedIpTellsTheList, PinWritePinnedIp
      <4> QED
        BY <4>1, <4>2 DEF ListFor
    <3> QED
      BY <3>3, <3>5, <3>6 DEF PinnedIpTellsTheList
  <2>3. ASSUME NEW p \in Pinners, PinWriteCandidates(p)
        PROVE  Inv'
    <3> DEFINE h == pin[p].group
               ip == pin[p].ip
    <3>1. h \in Groups /\ ip \in Ips \cup {None}
      BY <2>3 DEF TypeOK, PinWriteCandidates, PinIdle
    <3>2. pinned_ip[h] = ip /\ pinned_ip' = pinned_ip
      BY <2>3 DEF MidCall, PinWriteCandidates
    <3>3. candidates'[h] = FreshCandidates(ListFor(h, ip))
      BY <2>3, <3>1 DEF TypeOK, PinWriteCandidates
    <3>4. IpList(candidates'[h]) = ListFor(h, pinned_ip'[h])
      BY <3>1, <3>2, <3>3, ListForTyped, FreshList
    <3>5. \A q \in Pinners : pin'[q].at # "candidates"
      BY <2>3 DEF TypeOK, PinWriteCandidates, PinIdle
    <3>6. ASSUME NEW g \in Groups, g # h
          PROVE  IpList(candidates'[g]) = ListFor(g, pinned_ip'[g])
      <4>1. candidates'[g] = candidates[g]
        BY <2>3, <3>6 DEF TypeOK, PinWriteCandidates
      <4>2. IpList(candidates[g]) = ListFor(g, pinned_ip[g])
        BY <3>6 DEF PinnedIpTellsTheList
      <4> QED
        BY <3>2, <4>1, <4>2
    <3> HIDE DEF h
    <3>7. \A g \in Groups : (IpList(candidates[g]) = ListFor(g, pinned_ip[g]))'
      BY <3>4, <3>6 DEF ListFor
    <3> QED
      BY <3>5, <3>7 DEF MidCall, PinnedIpTellsTheList
  <2>4. ASSUME NEW g \in Groups, NEW ip \in Ips, NEW m \in MeasureResult,
               Report(g, ip, m)
        PROVE  Inv'
    <3>1. IpList(UpdateResult(candidates[g], ip, m, now)) = IpList(candidates[g])
      BY UpdateList DEF TypeOK, CandidateList
    <3>2. \A h \in Groups : IpList(candidates'[h]) = IpList(candidates[h])
      BY <2>4, <3>1 DEF TypeOK, Report
    <3> QED
      BY <2>4, <3>2 DEF Report, MidCall, PinnedIpTellsTheList, ListFor
  <2>5. ASSUME NEW p \in Pinners, PinDropped(p)
        PROVE  Inv'
    <3>1. \A q \in Pinners : pin[q].at # "candidates" /\ pin'[q].at # "candidates"
      BY <2>5 DEF PinDropped, PinIdle, TypeOK
    <3> QED
      BY <2>5, <3>1 DEF PinDropped, MidCall, PinnedIpTellsTheList, ListFor
  <2>6. CASE UNCHANGED <<pinned_ip, candidates, pin>>
    BY <2>6 DEF MidCall, PinnedIpTellsTheList, ListFor
  <2> QED
    BY <2>1, <2>2, <2>3, <2>4, <2>5, <2>6 DEF Next, Tick, ClockSetBack, vars
<1>3. Inv => PinnedIpTellsTheList
  OBVIOUS
<1> HIDE DEF Inv
<1> QED
  BY <1>1, <1>2, <1>3, TypeCorrect, PTL DEF Spec

-----------------------------------------------------------------------------
(* Proxy: requests served from the lists.                                  *)
Place == {"new", "pick", "sent", "mark", "reply", "stream", "ended", "closed", "gone"}

Error == {None, "upstream", "body"}

RequestState ==
  [at : Place, group : Groups \cup {None}, method : Methods \cup {None},
   attempts : 0 .. 3, ip : Ips \cup {None}, started : Nat, t0 : Nat,
   status : Statuses \cup {None}, error : Error, bytes : 0 .. MaxChunks,
   recorded : BOOLEAN]

RequestRecord ==
  [status : Statuses \cup {BadGateway}, bytes : 0 .. MaxChunks,
   upstream_ip : Ips \cup {None}, error : Error]

(* What a record of the request says if it is written now.                 *)
RecordOf(q) ==
  [status |-> IF q.status = None THEN BadGateway ELSE q.status,
   bytes |-> q.bytes,
   upstream_ip |-> IF q.status = None THEN None ELSE q.ip,
   error |-> q.error]

-----------------------------------------------------------------------------
Limit(q) == IF q.method = "GET" THEN 3 ELSE 1

(* The attempts of a handler: how many there are, and to where.            *)
Attempted(q) ==
  /\ q.at = "new" => q.attempts = 0
  /\ q.at # "new" => q.group \in Groups /\ q.method \in Methods
  /\ q.at = "pick" => q.attempts < Limit(q)
  /\ q.at \in {"sent", "mark"} => q.attempts <= Limit(q)
  /\ q.at \notin {"new", "pick", "gone"} => q.attempts >= 1 /\ q.ip \in Ips

(* A request is recorded when its response is over, as it is then.  Each   *)
(* attempt but the one under way has left an error behind.                 *)
Accounted(q, records) ==
  /\ q.recorded <=> q.at \in {"ended", "closed"}
  /\ records = IF q.recorded THEN <<RecordOf(q)>> ELSE << >>
  /\ \/ q.at = "mark"
     \/ q.at = "pick" /\ q.attempts >= 1
     \/ q.attempts >= 2
     => q.error # None

Fine(q, records) == q \in RequestState /\ Attempted(q) /\ Accounted(q, records)

Attempts == \A r \in Requests : Fine(req[r], written[r])

(* Every step of Proxy is one of Selector or leaves its state alone.       *)
LEMMA SelectorStep ==
  ASSUME Attempts, [ProxyNext]_allVars
  PROVE  [Next]_vars
<1>1. ASSUME NEW r \in Requests, MarkFailure(r) PROVE Next
  <2>1. req[r].group \in Groups /\ req[r].ip \in Ips
    BY <1>1 DEF Attempts, Fine, Attempted, MarkFailure
  <2>2. NoResponse \in MeasureResult
    BY DEF MeasureResult
  <2> QED
    BY <1>1, <2>1, <2>2 DEF MarkFailure, Next
<1>2. CASE DashboardPins
  BY <1>2 DEF DashboardPins, Next
<1>3. CASE SpeedTestReports
  BY <1>3 DEF SpeedTestReports, Next
<1>4. CASE TimePasses
  BY <1>4 DEF TimePasses, Next
<1>5. CASE UNCHANGED selectorVars
  BY <1>5 DEF selectorVars, vars
<1> QED
  BY <1>1, <1>2, <1>3, <1>4, <1>5
  DEF ProxyNext, allVars, Handle, Arrive, Pick, Answer, AttemptFails, ReplyWithBody,
    ReplyUnavailable, Chunk, BodyFails, BodyEnds, DropStream, Cancel

-----------------------------------------------------------------------------
LEMMA BestIpTyped ==
  ASSUME NEW cands \in CandidateList, NEW t \in Nat
  PROVE  BestIp(cands, t) \in Ips
<1>1. PICK i \in DOMAIN cands : BestIp(cands, t) = cands[i].ip
  BY BestIpIsBest
<1>2. cands[i] \in CandidateState
  BY DEF CandidateList
<1>3. cands[i].ip \in Ips
  BY <1>2 DEF CandidateState
<1> QED
  BY <1>1, <1>3

(* A request that is recorded by finalize.                                 *)
LEMMA FinalizeRecords ==
  ASSUME NEW r \in Requests, ProxyTypeOK, Fine(req[r], written[r]),
         req[r].at \in {"reply", "stream", "ended"},
         NEW error \in Error, Finalize(r, error),
         NEW at \in {"ended", "closed"},
         req[r].recorded => error = req[r].error,
         req[r].attempts >= 2 => error # None,
         NEW q, q = [req[r] EXCEPT !.at = at, !.error = error, !.recorded = TRUE]
  PROVE  Fine(q, <<RecordOf(q)>>) /\ written' = [written EXCEPT ![r] = <<RecordOf(q)>>]
<1> DEFINE rec == [status |-> IF req[r].status = None THEN BadGateway ELSE req[r].status,
                   bytes |-> req[r].bytes,
                   upstream_ip |-> IF req[r].status = None THEN None ELSE req[r].ip,
                   error |-> error]
<1>0. /\ req[r] \in RequestState /\ Attempted(req[r]) /\ Accounted(req[r], written[r])
      /\ written \in [Requests -> Seq(RequestRecord)]
  BY DEF Fine, ProxyTypeOK, RequestRecord, Error
<1>1. q \in RequestState
  BY <1>0 DEF RequestState, Place
<1>2. /\ q.at = at /\ q.error = error /\ q.recorded = TRUE /\ q.status = req[r].status
      /\ q.bytes = req[r].bytes /\ q.ip = req[r].ip /\ q.attempts = req[r].attempts
      /\ q.group = req[r].group /\ q.method = req[r].method
  BY <1>0 DEF RequestState
<1>3. RecordOf(q) = rec
  BY <1>2 DEF RecordOf
<1>4. Fine(q, <<RecordOf(q)>>)
  BY <1>0, <1>1, <1>2 DEF Fine, Attempted, Accounted
<1>5. CASE req[r].recorded
  <2>1. RecordOf(req[r]) = rec
    BY <1>5 DEF RecordOf
  <2>2. written[r] = <<RecordOf(q)>>
    BY <1>0, <1>3, <1>5, <2>1 DEF Accounted
  <2>3. written' = [written EXCEPT ![r] = <<RecordOf(q)>>]
    BY <1>0, <1>5, <2>2 DEF Finalize
  <2> QED
    BY <1>4, <2>3
<1>6. CASE ~ req[r].recorded
  <2>1. written[r] = << >>
    BY <1>0, <1>6 DEF Accounted
  <2>2. Append(written[r], rec) = <<rec>>
    BY <2>1
  <2> HIDE DEF rec
  <2>3. written' = [written EXCEPT ![r] = <<rec>>]
    BY <1>0, <1>6, <2>2 DEF Finalize, rec
  <2> QED
    BY <1>3, <1>4, <2>3
<1> QED
  BY <1>5, <1>6

LEMMA ProxyStep ==
  ASSUME TypeOK, ProxyTypeOK, Attempts, [ProxyNext]_allVars
  PROVE  ProxyTypeOK' /\ Attempts'
<1> USE ProxyAssumption, CandidatesAssumption
<1>0. /\ req \in [Requests -> RequestState]
      /\ written \in [Requests -> Seq(RequestRecord)]
      /\ failed \in [Requests -> SUBSET Ips]
      /\ now \in Nat
  BY DEF ProxyTypeOK, TypeOK, RequestState, RequestRecord, Place, Error
<1>1. \A r \in Requests : Fine(req[r], written[r]) /\ Limit(req[r]) \in {1, 3}
  BY DEF Attempts, Limit
<1>2. ASSUME NEW r \in Requests, NEW q, NEW w,
             req' = [req EXCEPT ![r] = q], written' = [written EXCEPT ![r] = w],
             Fine(q, w), failed' \in [Requests -> SUBSET Ips]
      PROVE  ProxyTypeOK' /\ Attempts'
  <2>1. /\ req' \in [Requests -> RequestState]
        /\ \A s \in Requests : Fine(req'[s], written'[s])
    BY <1>0, <1>1, <1>2 DEF Fine
  <2>2. w \in Seq(RequestRecord)
    <3>1. q \in RequestState /\ Attempted(q) /\ w = IF q.recorded THEN <<RecordOf(q)>> ELSE << >>
      BY <1>2 DEF Fine, Accounted
    <3>2. q.recorded => q.ip \in Ips \cup {None}
      BY <3>1 DEF RequestState
    <3>3. RecordOf(q) \in RequestRecord
      <4>1. /\ q.status \in Statuses \cup {None} /\ q.bytes \in 0 .. MaxChunks
            /\ q.error \in Error /\ q.ip \in Ips \cup {None}
        BY <3>1 DEF RequestState
      <4> QED
        BY <4>1 DEF RecordOf, RequestRecord
    <3> QED
      BY <3>1, <3>3
  <2> QED
    BY <1>0, <1>2, <2>1, <2>2
    DEF ProxyTypeOK, RequestState, RequestRecord, Place, Error, Attempts
<1>3. ASSUME NEW r \in Requests, NEW q,
             req' = [req EXCEPT ![r] = q], UNCHANGED written,
             Fine(q, written[r]), failed' \in [Requests -> SUBSET Ips]
      PROVE  ProxyTypeOK' /\ Attempts'
  <2>1. written' = [written EXCEPT ![r] = written[r]]
    BY <1>0, <1>3
  <2> QED
    BY <1>2, <1>3, <2>1
<1>4. ASSUME NEW r \in Requests, NEW g \in Groups, NEW method \in Methods, Arrive(r, g, method)
      PROVE  ProxyTypeOK' /\ Attempts'
  <2> DEFINE o == req[r]
             q == [o EXCEPT !.at = "pick", !.group = g, !.method = method,
                         !.started = now]
  <2>1. req' = [req EXCEPT ![r] = q] /\ UNCHANGED <<written, failed>> /\ o.at = "new"
    BY <1>0, <1>4 DEF Arrive
  <2>2. o \in RequestState /\ Attempted(o) /\ Accounted(o, written[r]) /\ Limit(o) \in {1, 3}
    BY <1>1 DEF Fine
  <2> HIDE DEF o
  <2>3. q \in RequestState
    BY <1>0, <2>1, <2>2 DEF RequestState, Place, Error, Attempted
  <2>4. /\ q.at = "pick" /\ q.group = g /\ q.method = method /\ q.attempts = o.attempts
        /\ q.ip = o.ip /\ q.error = o.error /\ q.recorded = o.recorded
    BY <2>2 DEF RequestState
  <2> HIDE DEF q
  <2>5. Fine(q, written[r])
    BY <2>1, <2>2, <2>3, <2>4 DEF Fine, Attempted, Accounted, Limit
  <2>6. failed' \in [Requests -> SUBSET Ips]
    BY <1>0, <1>4, <2>1, <2>2 DEF MarkFailure, Attempted, o
  <2> QED
    BY <1>3, <2>1, <2>5, <2>6 DEF o
<1>5. ASSUME NEW r \in Requests, Pick(r)
      PROVE  ProxyTypeOK' /\ Attempts'
  <2> DEFINE o == req[r]
             ip == BestIp(candidates[req[r].group], now)
             n == o.attempts + 1
             q == [o EXCEPT !.at = "sent", !.attempts = n, !.ip = ip, !.t0 = now]
  <2>1. req' = [req EXCEPT ![r] = q] /\ UNCHANGED <<written, failed>> /\ o.at = "pick"
    BY <1>0, <1>5 DEF Pick, Attempted
  <2>2. o \in RequestState /\ Attempted(o) /\ Accounted(o, written[r]) /\ Limit(o) \in {1, 3}
    BY <1>1 DEF Fine
  <2>a. ip \in Ips
    <3>1. req[r].group \in Groups
      BY <2>1, <2>2 DEF Attempted
    <3>2. candidates[req[r].group] \in CandidateList
      BY <3>1 DEF TypeOK, CandidateList
    <3> QED
      BY <1>0, <3>2, BestIpTyped
  <2>b. n \in 0 .. 3 /\ n >= 1 /\ n <= Limit(o) /\ (n >= 2 => o.attempts >= 1)
    BY <2>1, <2>2 DEF RequestState, Attempted
  <2> HIDE DEF ip, n
  <2> HIDE DEF o
  <2>3. q \in RequestState
    BY <1>0, <2>1, <2>2, <2>a, <2>b DEF RequestState, Place, Error, Attempted
  <2>4. /\ q.at = "sent" /\ q.group = o.group /\ q.method = o.method /\ q.attempts = n
        /\ q.ip = ip /\ q.error = o.error /\ q.recorded = o.recorded
    BY <2>2 DEF RequestState
  <2> HIDE DEF q
  <2>5. Fine(q, written[r])
    BY <2>1, <2>2, <2>3, <2>4, <2>a, <2>b DEF Fine, Attempted, Accounted, Limit
  <2>6. failed' \in [Requests -> SUBSET Ips]
    BY <1>0, <1>5, <2>1, <2>2 DEF MarkFailure, Attempted, o
  <2> QED
    BY <1>3, <2>1, <2>5, <2>6 DEF o
<1>6. ASSUME NEW r \in Requests, NEW status \in Statuses, Answer(r, status)
      PROVE  ProxyTypeOK' /\ Attempts'
  <2> DEFINE o == req[r]
             q == [o EXCEPT !.at = "reply", !.status = status]
  <2>1. req' = [req EXCEPT ![r] = q] /\ UNCHANGED <<written, failed>> /\ o.at = "sent"
    BY <1>0, <1>6 DEF Answer
  <2>2. o \in RequestState /\ Attempted(o) /\ Accounted(o, written[r]) /\ Limit(o) \in {1, 3}
    BY <1>1 DEF Fine
  <2> HIDE DEF o
  <2>3. q \in RequestState
    BY <1>0, <2>1, <2>2 DEF RequestState, Place, Error, Attempted
  <2>4. /\ q.at = "reply" /\ q.group = o.group /\ q.method = o.method /\ q.attempts = o.attempts
        /\ q.ip = o.ip /\ q.error = o.error /\ q.recorded = o.recorded
    BY <2>2 DEF RequestState
  <2> HIDE DEF q
  <2>5. Fine(q, written[r])
    BY <2>1, <2>2, <2>3, <2>4 DEF Fine, Attempted, Accounted, Limit
  <2>6. failed' \in [Requests -> SUBSET Ips]
    BY <1>0, <1>6, <2>1, <2>2 DEF MarkFailure, Attempted, o
  <2> QED
    BY <1>3, <2>1, <2>5, <2>6 DEF o
<1>7. ASSUME NEW r \in Requests, AttemptFails(r)
      PROVE  ProxyTypeOK' /\ Attempts'
  <2> DEFINE o == req[r]
             q == [o EXCEPT !.at = "mark", !.error = "upstream"]
  <2>1. req' = [req EXCEPT ![r] = q] /\ UNCHANGED <<written, failed>> /\ o.at = "sent"
    BY <1>0, <1>7 DEF AttemptFails
  <2>2. o \in RequestState /\ Attempted(o) /\ Accounted(o, written[r]) /\ Limit(o) \in {1, 3}
    BY <1>1 DEF Fine
  <2> HIDE DEF o
  <2>3. q \in RequestState
    BY <1>0, <2>1, <2>2 DEF RequestState, Place, Error, Attempted
  <2>4. /\ q.at = "mark" /\ q.group = o.group /\ q.method = o.method /\ q.attempts = o.attempts
        /\ q.ip = o.ip /\ q.error = "upstream" /\ q.recorded = o.recorded
    BY <2>2 DEF RequestState
  <2> HIDE DEF q
  <2>5. Fine(q, written[r])
    BY <2>1, <2>2, <2>3, <2>4 DEF Fine, Attempted, Accounted, Limit
  <2>6. failed' \in [Requests -> SUBSET Ips]
    BY <1>0, <1>7, <2>1, <2>2 DEF MarkFailure, Attempted, o
  <2> QED
    BY <1>3, <2>1, <2>5, <2>6 DEF o
<1>8. ASSUME NEW r \in Requests, MarkFailure(r)
      PROVE  ProxyTypeOK' /\ Attempts'
  <2> DEFINE o == req[r]
             next == IF o.attempts < Limit(o) THEN "pick" ELSE "reply"
             q == [o EXCEPT !.at = next]
  <2>1. req' = [req EXCEPT ![r] = q] /\ UNCHANGED <<written>> /\ o.at = "mark"
    BY <1>0, <1>8 DEF MarkFailure, MaxAttempts, Limit
  <2>2. o \in RequestState /\ Attempted(o) /\ Accounted(o, written[r]) /\ Limit(o) \in {1, 3}
    BY <1>1 DEF Fine
  <2>a. next = IF o.attempts < Limit(o) THEN "pick" ELSE "reply"
    OBVIOUS
  <2> HIDE DEF next
  <2> HIDE DEF o
  <2>3. q \in RequestState
    BY <1>0, <2>1, <2>2, <2>a DEF RequestState, Place, Error, Attempted
  <2>4. /\ q.at = next /\ q.group = o.group /\ q.method = o.method /\ q.attempts = o.attempts
        /\ q.ip = o.ip /\ q.error = o.error /\ q.recorded = o.recorded
    BY <2>2 DEF RequestState
  <2> HIDE DEF q
  <2>5. Fine(q, written[r])
    BY <2>1, <2>2, <2>3, <2>4, <2>a DEF Fine, Attempted, Accounted, Limit
  <2>6. failed' \in [Requests -> SUBSET Ips]
    BY <1>0, <1>8, <2>1, <2>2 DEF MarkFailure, Attempted, o
  <2> QED
    BY <1>3, <2>1, <2>5, <2>6 DEF o
<1>9. ASSUME NEW r \in Requests, ReplyWithBody(r)
      PROVE  ProxyTypeOK' /\ Attempts'
  <2> DEFINE o == req[r]
             q == [o EXCEPT !.at = "stream"]
  <2>1. req' = [req EXCEPT ![r] = q] /\ UNCHANGED <<written, failed>> /\ o.at = "reply"
    BY <1>0, <1>9 DEF ReplyWithBody
  <2>2. o \in RequestState /\ Attempted(o) /\ Accounted(o, written[r]) /\ Limit(o) \in {1, 3}
    BY <1>1 DEF Fine
  <2> HIDE DEF o
  <2>3. q \in RequestState
    BY <1>0, <2>1, <2>2 DEF RequestState, Place, Error, Attempted
  <2>4. /\ q.at = "stream" /\ q.group = o.group /\ q.method = o.method /\ q.attempts = o.attempts
        /\ q.ip = o.ip /\ q.error = o.error /\ q.recorded = o.recorded
    BY <2>2 DEF RequestState
  <2> HIDE DEF q
  <2>5. Fine(q, written[r])
    BY <2>1, <2>2, <2>3, <2>4 DEF Fine, Attempted, Accounted, Limit
  <2>6. failed' \in [Requests -> SUBSET Ips]
    BY <1>0, <1>9, <2>1, <2>2 DEF MarkFailure, Attempted, o
  <2> QED
    BY <1>3, <2>1, <2>5, <2>6 DEF o
<1>10. ASSUME NEW r \in Requests, Chunk(r)
      PROVE  ProxyTypeOK' /\ Attempts'
  <2> DEFINE o == req[r]
             n == o.bytes + 1
             q == [o EXCEPT !.bytes = n]
  <2>1. req' = [req EXCEPT ![r] = q] /\ UNCHANGED <<written, failed>> /\ o.at = "stream" /\ o.bytes < MaxChunks
    BY <1>0, <1>10 DEF Chunk
  <2>2. o \in RequestState /\ Attempted(o) /\ Accounted(o, written[r]) /\ Limit(o) \in {1, 3}
    BY <1>1 DEF Fine
  <2>a. n \in 0 .. MaxChunks
    BY <2>1, <2>2 DEF RequestState
  <2> HIDE DEF n
  <2> HIDE DEF o
  <2>3. q \in RequestState
    BY <1>0, <2>1, <2>2, <2>a DEF RequestState, Place, Error, Attempted
  <2>4. /\ q.at = o.at /\ q.group = o.group /\ q.method = o.method /\ q.attempts = o.attempts
        /\ q.ip = o.ip /\ q.error = o.error /\ q.recorded = o.recorded
    BY <2>2 DEF RequestState
  <2> HIDE DEF q
  <2>5. Fine(q, written[r])
    BY <2>1, <2>2, <2>3, <2>4, <2>a DEF Fine, Attempted, Accounted, Limit
  <2>6. failed' \in [Requests -> SUBSET Ips]
    BY <1>0, <1>10, <2>1, <2>2 DEF MarkFailure, Attempted, o
  <2> QED
    BY <1>3, <2>1, <2>5, <2>6 DEF o
<1>11. ASSUME NEW r \in Requests, Cancel(r)
      PROVE  ProxyTypeOK' /\ Attempts'
  <2> DEFINE o == req[r]
             q == [o EXCEPT !.at = "gone"]
  <2>1. req' = [req EXCEPT ![r] = q] /\ UNCHANGED <<written, failed>> /\ o.at \in {"pick", "sent", "mark"}
    BY <1>0, <1>11 DEF Cancel
  <2>2. o \in RequestState /\ Attempted(o) /\ Accounted(o, written[r]) /\ Limit(o) \in {1, 3}
    BY <1>1 DEF Fine
  <2> HIDE DEF o
  <2>3. q \in RequestState
    BY <1>0, <2>1, <2>2 DEF RequestState, Place, Error, Attempted
  <2>4. /\ q.at = "gone" /\ q.group = o.group /\ q.method = o.method /\ q.attempts = o.attempts
        /\ q.ip = o.ip /\ q.error = o.error /\ q.recorded = o.recorded
    BY <2>2 DEF RequestState
  <2> HIDE DEF q
  <2>5. Fine(q, written[r])
    BY <2>1, <2>2, <2>3, <2>4 DEF Fine, Attempted, Accounted, Limit
  <2>6. failed' \in [Requests -> SUBSET Ips]
    BY <1>0, <1>11, <2>1, <2>2 DEF MarkFailure, Attempted, o
  <2> QED
    BY <1>3, <2>1, <2>5, <2>6 DEF o
<1>12. ASSUME NEW r \in Requests,
              ReplyUnavailable(r) \/ BodyFails(r) \/ BodyEnds(r) \/ DropStream(r)
       PROVE  ProxyTypeOK' /\ Attempts'
  <2>0. /\ req[r] \in RequestState /\ req[r].error \in Error /\ "body" \in Error
        /\ req[r].recorded <=> req[r].at \in {"ended", "closed"}
        /\ req[r].attempts >= 2 => req[r].error # None
        /\ Fine(req[r], written[r])
    BY <1>1 DEF Fine, RequestState, Error, Accounted
  <2>1. ASSUME NEW error \in Error, NEW at \in {"ended", "closed"},
               req[r].at \in {"reply", "stream", "ended"},
               Finalize(r, error),
               req[r].recorded => error = req[r].error,
               req[r].attempts >= 2 => error # None,
               req' = [req EXCEPT ![r].at = at, ![r].error = error, ![r].recorded = TRUE],
               UNCHANGED failed
        PROVE  ProxyTypeOK' /\ Attempts'
    <3>0. PICK q : q = [req[r] EXCEPT !.at = at, !.error = error, !.recorded = TRUE]
      OBVIOUS
    <3>1. Fine(q, <<RecordOf(q)>>) /\ written' = [written EXCEPT ![r] = <<RecordOf(q)>>]
      <4>1. ProxyTypeOK /\ Fine(req[r], written[r])
        BY <2>0
      <4>2. req[r].at \in {"reply", "stream", "ended"}
        BY <2>1
      <4>3. Finalize(r, error)
        BY <2>1
      <4>4. req[r].recorded => error = req[r].error
        BY <2>1
      <4>5. req[r].attempts >= 2 => error # None
        BY <2>1
      <4> QED
        BY <4>1, <4>2, <4>3, <4>4, <4>5, <3>0, FinalizeRecords, Zenon
    <3>2. req' = [req EXCEPT ![r] = q]
      BY <1>0, <2>1, <3>0
    <3>3. failed' \in [Requests -> SUBSET Ips]
      BY <1>0, <2>1
    <3> QED
      BY <1>2, <3>1, <3>2, <3>3
  <2>2. \A at \in Place : [req EXCEPT ![r].at = at, ![r].recorded = TRUE]
                        = [req EXCEPT ![r].at = at, ![r].error = req[r].error,
                                      ![r].recorded = TRUE]
    BY <1>0, <2>0 DEF RequestState
  <2>3. CASE ReplyUnavailable(r)
    <3>1. "closed" \in Place /\ req' = [req EXCEPT ![r].at = "closed", ![r].recorded = TRUE]
      BY <2>3 DEF ReplyUnavailable, Place
    <3>2. req' = [req EXCEPT ![r].at = "closed", ![r].error = req[r].error, ![r].recorded = TRUE]
      BY <2>2, <3>1
    <3> QED
      BY <2>0, <2>1, <2>3, <3>2 DEF ReplyUnavailable
  <2>4. CASE BodyFails(r)
    <3>1. "body" # None
      OBVIOUS
    <3> QED
      BY <2>0, <2>1, <2>4, <3>1 DEF BodyFails
  <2>5. CASE BodyEnds(r)
    <3>1. "ended" \in Place /\ req' = [req EXCEPT ![r].at = "ended", ![r].recorded = TRUE]
      BY <2>5 DEF BodyEnds, Place
    <3>2. req' = [req EXCEPT ![r].at = "ended", ![r].error = req[r].error, ![r].recorded = TRUE]
      BY <2>2, <3>1
    <3> QED
      BY <2>0, <2>1, <2>5, <3>2 DEF BodyEnds
  <2>6. CASE DropStream(r)
    <3>1. "closed" \in Place /\ req' = [req EXCEPT ![r].at = "closed", ![r].recorded = TRUE]
      BY <2>6 DEF DropStream, Place
    <3>2. req' = [req EXCEPT ![r].at = "closed", ![r].error = req[r].error, ![r].recorded = TRUE]
      BY <2>2, <3>1
    <3> QED
      BY <2>0, <2>1, <2>6, <3>2 DEF DropStream
  <2> QED
    BY <1>12, <2>3, <2>4, <2>5, <2>6
<1>13. CASE DashboardPins \/ SpeedTestReports \/ TimePasses \/ UNCHANGED allVars
  <2>1. UNCHANGED <<req, written>> /\ failed' \in [Requests -> SUBSET Ips]
    BY <1>0, <1>13 DEF DashboardPins, SpeedTestReports, TimePasses, allVars
  <2> QED
    BY <1>0, <2>1
    DEF ProxyTypeOK, RequestState, RequestRecord, Place, Error, Attempts
<1> QED
  BY <1>4, <1>5, <1>6, <1>7, <1>8, <1>9, <1>10, <1>11, <1>12, <1>13 DEF ProxyNext, Handle

(* What the handlers' and streams' locals obey at all times.               *)
LEMMA AttemptsInductive == ProxySpec => [](TypeOK /\ ProxyTypeOK /\ Attempts)
<1>1. ProxyInit => TypeOK /\ ProxyTypeOK /\ Attempts
  <2> SUFFICES ASSUME ProxyInit PROVE TypeOK /\ ProxyTypeOK /\ Attempts
    OBVIOUS
  <2> USE ProxyAssumption
  <2>1. TypeOK
    BY InitTyped DEF ProxyInit
  <2>2. NewRequest \in RequestState
    BY DEF NewRequest, RequestState, Place, Error
  <2>3. Fine(NewRequest, << >>)
    BY <2>2 DEF Fine, NewRequest, Attempted, Accounted
  <2> HIDE DEF NewRequest
  <2>4. ProxyTypeOK
    BY <2>2 DEF ProxyInit, ProxyTypeOK, RequestState, Place, Error
  <2> QED
    BY <2>1, <2>3, <2>4 DEF ProxyInit, Attempts
<1>2. TypeOK /\ ProxyTypeOK /\ Attempts /\ [ProxyNext]_allVars
        => (TypeOK /\ ProxyTypeOK /\ Attempts)'
  BY ProxyStep, SelectorStep, TypeStep
<1> QED
  BY <1>1, <1>2, PTL DEF ProxySpec

(* Proxy uses Selector as it is: whatever requests do, their steps on the  *)
(* shared lists are steps of Selector, so all that is proved of Selector   *)
(* holds with requests running against it.                                 *)
THEOREM ProxyImplementsSelector == ProxySpec => Spec
<1>1. ProxyInit => Init
  BY DEF ProxyInit
<1>2. Attempts /\ [ProxyNext]_allVars => [Next]_vars
  BY SelectorStep
<1> QED
  BY <1>1, <1>2, AttemptsInductive, PTL DEF ProxySpec, Spec

(* The locals of handlers and streams are well typed: in particular no     *)
(* handler makes a fourth attempt (proxy_handler).                         *)
THEOREM ProxyTyped == ProxySpec => []ProxyTypeOK
BY AttemptsInductive, PTL

(* One record per request that was answered, none for the others, however  *)
(* the end of the body, its failure and the drop of the stream follow each *)
(* other (finalize, CountingStream).                                       *)
THEOREM OneRecord == ProxySpec => []RecordedOnce
<1>1. Attempts => RecordedOnce
  <2> SUFFICES ASSUME Attempts, NEW r \in Requests
               PROVE  Len(written[r]) = IF req[r].at \in {"ended", "closed"} THEN 1 ELSE 0
    BY DEF RecordedOnce
  <2>1. Accounted(req[r], written[r])
    BY DEF Attempts, Fine
  <2>2. \A rec : Len(<<rec>>) = 1
    OBVIOUS
  <2> QED
    BY <2>1, <2>2 DEF Accounted
<1> QED
  BY <1>1, AttemptsInductive, PTL

(* The record has the bytes that were handed on, the status that was sent, *)
(* and an error if an attempt or the body failed (finalize, last_err).     *)
THEOREM RecordIsTrue == ProxySpec => []RecordTellsWhatHappened
<1> USE ProxyAssumption, CandidatesAssumption
<1>1. Attempts => RecordTellsWhatHappened
  <2> SUFFICES ASSUME Attempts, NEW r \in Requests, written[r] # << >>
               PROVE  LET rec == written[r][1]
                      IN  /\ rec.bytes = req[r].bytes
                          /\ rec.error = None <=> req[r].attempts = 1 /\ req[r].error = None
                          /\ rec.status = BadGateway /\ rec.upstream_ip = None
                               <=> req[r].status = None
    BY DEF RecordTellsWhatHappened
  <2>1. Attempted(req[r]) /\ Accounted(req[r], written[r]) /\ req[r] \in RequestState
    BY DEF Attempts, Fine
  <2>2. written[r] = <<RecordOf(req[r])>> /\ req[r].at \in {"ended", "closed"}
    BY <2>1 DEF Accounted
  <2>3. written[r][1] = RecordOf(req[r])
    BY <2>2
  <2>4. req[r].attempts \in 1 .. 3 /\ req[r].ip \in Ips
    BY <2>1, <2>2 DEF Attempted, RequestState
  <2>5. req[r].attempts >= 2 => req[r].error # None
    BY <2>1 DEF Accounted
  <2> QED
    BY <2>3, <2>4, <2>5 DEF RecordOf
<1> QED
  BY <1>1, AttemptsInductive, PTL

-----------------------------------------------------------------------------
(* How long a handler has been at work: each of its attempts takes at most *)
(* HeaderTimeout, and nothing in between takes time.                       *)
OnTime(q, t) ==
  /\ q.at = "pick" => t <= q.started + q.attempts * HeaderTimeout
  /\ q.at \in {"sent", "mark"} =>
       /\ q.t0 <= q.started + (q.attempts - 1) * HeaderTimeout
       /\ q.t0 <= t /\ t <= q.t0 + HeaderTimeout
  /\ q.at = "reply" => t <= q.started + Limit(q) * HeaderTimeout

Timely == \A r \in Requests : OnTime(req[r], now)

LEMMA TimelyStep ==
  ASSUME TypeOK, ProxyTypeOK, Attempts, Timely, [ProxyNext]_allVars
  PROVE  Timely'
<1> USE ProxyAssumption
<1>0. /\ req \in [Requests -> RequestState] /\ now \in Nat
      /\ \A r \in Requests : /\ req[r].attempts \in 0 .. 3 /\ req[r].started \in Nat
                             /\ req[r].t0 \in Nat /\ Limit(req[r]) \in {1, 3}
                             /\ OnTime(req[r], now) /\ Attempted(req[r])
  BY DEF ProxyTypeOK, TypeOK, RequestState, Place, Error, Limit, Timely, Attempts, Fine
<1>1. \A t \in Nat : 0 * t = 0 /\ 1 * t = t /\ 2 * t = t + t /\ 3 * t = t + t + t
  OBVIOUS
<1>2. SUFFICES ASSUME NEW r \in Requests PROVE OnTime(req'[r], now')
  BY DEF Timely
<1>3. CASE req'[r] = req[r] /\ now' = now
  BY <1>0, <1>3
<1>4. CASE TimePasses
  <2>1. /\ now' = now + 1 /\ req' = req /\ req[r].at \notin {"pick", "mark", "reply"}
        /\ req[r].at = "sent" => now < req[r].t0 + HeaderTimeout
    BY <1>4 DEF TimePasses, Tick
  <2> QED
    BY <1>0, <2>1 DEF OnTime
<1>5. ASSUME NEW g \in Groups, NEW method \in Methods, Arrive(r, g, method)
      PROVE  OnTime(req'[r], now')
  <2>1. /\ req'[r].at = "pick" /\ req'[r].started = now /\ now' = now
        /\ req'[r].attempts = 0
    BY <1>0, <1>5 DEF Arrive, selectorVars, RequestState, Attempted
  <2> QED
    BY <1>0, <1>1, <2>1 DEF OnTime
<1>6. CASE Pick(r)
  <2>1. /\ req'[r].at = "sent" /\ req'[r].started = req[r].started /\ req'[r].t0 = now
        /\ req'[r].attempts = req[r].attempts + 1 /\ req[r].at = "pick" /\ now' = now
    BY <1>0, <1>6 DEF Pick, selectorVars, RequestState
  <2>2. req'[r].attempts - 1 = req[r].attempts
    BY <1>0, <2>1
  <2> QED
    BY <1>0, <2>1, <2>2 DEF OnTime
<1>7. ASSUME NEW status \in Statuses, Answer(r, status)
      PROVE  OnTime(req'[r], now')
  <2>1. /\ req'[r].at = "reply" /\ req'[r].started = req[r].started
        /\ Limit(req'[r]) = Limit(req[r]) /\ req[r].at = "sent" /\ now' = now
    BY <1>0, <1>7 DEF Answer, selectorVars, RequestState, Limit
  <2>2. req[r].attempts <= Limit(req[r]) /\ req[r].attempts >= 1
    BY <1>0, <2>1 DEF Attempted
  <2> QED
    BY <1>0, <1>1, <2>1, <2>2 DEF OnTime
<1>8. CASE AttemptFails(r)
  <2>1. /\ req'[r].at = "mark" /\ req'[r].started = req[r].started /\ req'[r].t0 = req[r].t0
        /\ req'[r].attempts = req[r].attempts /\ req[r].at = "sent" /\ now' = now
    BY <1>0, <1>8 DEF AttemptFails, selectorVars, RequestState
  <2> QED
    BY <1>0, <2>1 DEF OnTime
<1>9. CASE MarkFailure(r)
  <2>1. /\ req'[r].at = IF req[r].attempts < Limit(req[r]) THEN "pick" ELSE "reply"
        /\ req'[r].started = req[r].started /\ Limit(req'[r]) = Limit(req[r])
        /\ req'[r].attempts = req[r].attempts /\ req[r].at = "mark" /\ now' = now
    BY <1>0, <1>9 DEF MarkFailure, Report, RequestState, Limit, MaxAttempts
  <2>2. req[r].attempts <= Limit(req[r]) /\ req[r].attempts >= 1
    BY <1>0, <2>1 DEF Attempted
  <2>3. now <= req[r].started + req[r].attempts * HeaderTimeout
    BY <1>0, <1>1, <2>1, <2>2 DEF OnTime
  <2> QED
    BY <1>0, <2>1, <2>2, <2>3 DEF OnTime
<1>10. CASE /\ ReplyWithBody(r) \/ ReplyUnavailable(r) \/ Chunk(r) \/ BodyFails(r)
               \/ BodyEnds(r) \/ DropStream(r) \/ Cancel(r)
  <2>1. req'[r].at \in {"stream", "closed", "ended", "gone"}
    BY <1>0, <1>10 DEF ReplyWithBody, ReplyUnavailable, Chunk, BodyFails, BodyEnds,
      DropStream, Cancel, RequestState
  <2> QED
    BY <2>1 DEF OnTime
<1>11. CASE DashboardPins \/ SpeedTestReports
  <2>1. req' = req /\ now' = now
    BY <1>11 DEF DashboardPins, SpeedTestReports, PinStart, PinWritePinnedIp,
      PinWriteCandidates, Report
  <2> QED
    BY <1>3, <2>1
<1>12. ASSUME NEW s \in Requests, s # r,
              \/ \E g \in Groups, method \in Methods : Arrive(s, g, method)
              \/ Handle(s) \/ Chunk(s) \/ BodyFails(s) \/ BodyEnds(s)
              \/ DropStream(s) \/ Cancel(s)
       PROVE  req'[r] = req[r] /\ now' = now
  BY <1>0, <1>12 DEF Arrive, Handle, Pick, Answer, AttemptFails, MarkFailure, Report,
    ReplyWithBody, ReplyUnavailable, Chunk, BodyFails, BodyEnds, DropStream, Cancel,
    selectorVars
<1> QED
  BY <1>3, <1>4, <1>5, <1>6, <1>7, <1>8, <1>9, <1>10, <1>11, <1>12
  DEF ProxyNext, Handle, allVars, selectorVars

(* A handler ends within its attempts' timeouts (proxy_handler,            *)
(* request_upstream).                                                      *)
THEOREM HandlersEndInTime == ProxySpec => []HandlerEndsInTime
<1>1. ProxyInit => Timely
  BY DEF ProxyInit, Timely, OnTime, NewRequest
<1>2. TypeOK /\ ProxyTypeOK /\ Attempts /\ Timely /\ [ProxyNext]_allVars => Timely'
  BY TimelyStep
<1>3. TypeOK /\ ProxyTypeOK /\ Attempts /\ Timely => HandlerEndsInTime
  <2> SUFFICES ASSUME TypeOK, ProxyTypeOK, Attempts, Timely, NEW r \in Requests,
                      req[r].at \in {"pick", "sent", "mark", "reply"}
               PROVE  now <= req[r].started + MaxAttempts(r) * HeaderTimeout
    BY DEF HandlerEndsInTime
  <2> USE ProxyAssumption
  <2>1. /\ MaxAttempts(r) = Limit(req[r]) /\ Limit(req[r]) \in {1, 3}
        /\ req[r].attempts \in 0 .. 3 /\ req[r].started \in Nat /\ req[r].t0 \in Nat
        /\ now \in Nat /\ OnTime(req[r], now) /\ Attempted(req[r])
    BY DEF ProxyTypeOK, TypeOK, MaxAttempts, Limit, Timely, Attempts, Fine
  <2>2. \A t \in Nat : 0 * t = 0 /\ 1 * t = t /\ 2 * t = t + t /\ 3 * t = t + t + t
    OBVIOUS
  <2>3. req[r].at = "pick" => req[r].attempts < Limit(req[r])
    BY <2>1 DEF Attempted
  <2>4. req[r].at \in {"sent", "mark"} =>
          req[r].attempts <= Limit(req[r]) /\ req[r].attempts >= 1
    BY <2>1 DEF Attempted
  <2> QED
    BY <2>1, <2>2, <2>3, <2>4 DEF OnTime
<1> QED
  BY <1>1, <1>2, <1>3, AttemptsInductive, PTL DEF ProxySpec
-----------------------------------------------------------------------------
(* What the listed addresses that a request marked in vain have in common: *)
(* they failed at the attempts before this one, each at most a header      *)
(* timeout after the one before.  RetryMovesOn follows, as three attempts  *)
(* never outlast the penalty, but is not inductive: it says nothing of a   *)
(* request that is about to pick.                                          *)
FailedSince(cands, bad, ts) ==
  \A i \in DOMAIN cands : cands[i].ip \in bad => cands[i].last_fail_ts >= ts

AllFailed(cands, t) == \A i \in DOMAIN cands : InPenalty(cands[i].last_fail_ts, t)

MarkedBy(q, bad, cands, t) ==
  /\ q.at = "pick" =>
       /\ q.attempts = 0 => bad = {}
       /\ FailedSince(cands, bad, t - (q.attempts - 1) * HeaderTimeout)
  /\ q.at \in {"sent", "mark"} =>
       /\ q.attempts = 1 => bad = {}
       /\ FailedSince(cands, bad, q.t0 - (q.attempts - 2) * HeaderTimeout)
  /\ q.at = "sent" /\ t = q.t0 /\ q.ip \in bad => AllFailed(cands, t)

Marked ==
  \A r \in Requests :
    IF req[r].at = "new" THEN failed[r] = {}
    ELSE MarkedBy(req[r], failed[r], candidates[req[r].group], now)

LEMMA NoneMarked ==
  ASSUME NEW q, NEW cands, NEW t
  PROVE  MarkedBy(q, {}, cands, t)
BY DEF MarkedBy, FailedSince

(* An address that failed within the penalty is picked only if all have.   *)
LEMMA PickAvoids ==
  ASSUME NEW cands \in CandidateList, NEW t \in Nat, NEW bad, NEW ts \in Int,
         FailedSince(cands, bad, ts), t - Penalty <= ts, BestIp(cands, t) \in bad
  PROVE  AllFailed(cands, t)
<1> USE CandidatesAssumption
<1>1. PICK i \in PickPool(cands, t) : /\ i \in DOMAIN cands
                                     /\ BestIp(cands, t) = cands[i].ip
  BY BestIpIsBest
<1>2. cands[i] \in CandidateState
  BY <1>1 DEF CandidateList
<1>3. cands[i].last_fail_ts \in Nat /\ cands[i].last_fail_ts >= ts
  BY <1>1, <1>2 DEF CandidateState, FailedSince
<1>4. InPenalty(cands[i].last_fail_ts, t)
  BY <1>3 DEF InPenalty, SaturatingSub
<1>5. Healthy(cands, t) = {}
  BY <1>1, <1>4 DEF PickPool, Healthy
<1> QED
  BY <1>5 DEF Healthy, AllFailed

(* A report of anybody's disturbs no request: it moves a failure time      *)
(* forward to now or leaves it.                                            *)
LEMMA ReportKeeps ==
  ASSUME NEW q \in RequestState, NEW t \in Nat, NEW bad, NEW cands, NEW new,
         Attempted(q), OnTime(q, t), MarkedBy(q, bad, cands, t),
         DOMAIN new = DOMAIN cands,
         \A i \in DOMAIN cands :
           /\ new[i].ip = cands[i].ip
           /\ cands[i].last_fail_ts \in Nat
           /\ new[i].last_fail_ts = cands[i].last_fail_ts \/ new[i].last_fail_ts = t
  PROVE  MarkedBy(q, bad, new, t)
<1> USE ProxyAssumption, CandidatesAssumption
<1>0. /\ q.attempts \in 0 .. 3 /\ q.t0 \in Nat /\ HeaderTimeout \in Nat
      /\ \A h \in Nat : /\ (0 - 1) * h = -h /\ (1 - 1) * h = 0 /\ (2 - 1) * h = h
                        /\ (3 - 1) * h = h + h /\ (1 - 2) * h = -h /\ (2 - 2) * h = 0
                        /\ (3 - 2) * h = h
  BY DEF RequestState
<1>1. ASSUME NEW ts \in Int, ts <= t, FailedSince(cands, bad, ts)
      PROVE  FailedSince(new, bad, ts)
  BY <1>1 DEF FailedSince
<1>2. AllFailed(cands, t) => AllFailed(new, t)
  BY DEF AllFailed, InPenalty, SaturatingSub
<1>4. ASSUME q.at = "pick"
      PROVE  /\ q.attempts = 0 => bad = {}
             /\ FailedSince(new, bad, t - (q.attempts - 1) * HeaderTimeout)
  <2>1. CASE q.attempts = 0
    BY <1>4, <2>1 DEF MarkedBy, FailedSince
  <2>2. CASE q.attempts # 0
    <3> DEFINE ts == t - (q.attempts - 1) * HeaderTimeout
    <3>1. ts \in Int /\ ts <= t
      BY <1>0, <2>2
    <3>2. FailedSince(cands, bad, ts)
      BY <1>4 DEF MarkedBy
    <3> HIDE DEF ts
    <3>3. FailedSince(new, bad, ts)
      BY <1>1, <3>1, <3>2
    <3> QED
      BY <2>2, <3>3 DEF ts
  <2> QED
    BY <2>1, <2>2
<1>5. ASSUME q.at \in {"sent", "mark"}
      PROVE  /\ q.attempts = 1 => bad = {}
             /\ FailedSince(new, bad, q.t0 - (q.attempts - 2) * HeaderTimeout)
  <2>0. q.t0 <= t
    BY <1>5 DEF OnTime
  <2>1. CASE q.attempts = 1
    BY <1>5, <2>1 DEF MarkedBy, FailedSince
  <2>2. CASE q.attempts # 1
    <3> DEFINE ts == q.t0 - (q.attempts - 2) * HeaderTimeout
    <3>1. FailedSince(cands, bad, ts)
      BY <1>5 DEF MarkedBy
    <3>2. CASE q.attempts = 0
      BY <1>5, <3>2 DEF Attempted
    <3>3. CASE q.attempts \in {2, 3}
      <4>1. ts \in Int /\ ts <= t
        BY <1>0, <2>0, <3>3
      <4> HIDE DEF ts
      <4>2. FailedSince(new, bad, ts)
        BY <1>1, <3>1, <4>1
      <4> QED
        BY <2>2, <4>2 DEF ts
    <3> QED
      BY <1>0, <2>2, <3>2, <3>3
  <2> QED
    BY <2>1, <2>2
<1>6. q.at = "sent" /\ t = q.t0 /\ q.ip \in bad => AllFailed(new, t)
  BY <1>2 DEF MarkedBy
<1> QED
  BY <1>4, <1>5, <1>6 DEF MarkedBy

LEMMA MarkedStep ==
  ASSUME TypeOK, ProxyTypeOK, Attempts, Timely, Ledger, Marked, [ProxyNext]_allVars
  PROVE  Marked'
<1> USE ProxyAssumption, CandidatesAssumption
<1> DEFINE Fit(q, bad, t) == IF q.at = "new" THEN bad = {}
                             ELSE MarkedBy(q, bad, candidates'[q.group], t)
<1>0. /\ req \in [Requests -> RequestState] /\ now \in Nat
      /\ failed \in [Requests -> SUBSET Ips]
      /\ \A g \in Groups : candidates[g] \in CandidateList /\ Listed(candidates[g])
  BY DEF ProxyTypeOK, TypeOK, RequestState, Place, Error, CandidateList, Ledger
<1>1. SUFFICES ASSUME NEW r \in Requests PROVE Fit(req'[r], failed'[r], now')
  BY DEF Marked
<1> DEFINE o == req[r]
           bad == failed[r]
           old == candidates[o.group]
<1>2. /\ o \in RequestState /\ Attempted(o) /\ OnTime(o, now) /\ bad \in SUBSET Ips
      /\ IF o.at = "new" THEN bad = {} ELSE MarkedBy(o, bad, old, now)
      /\ o.attempts \in 0 .. 3 /\ o.t0 \in Nat
      /\ o.at # "new" => o.group \in Groups
  BY <1>0 DEF Timely, Attempts, Fine, Marked, RequestState, Attempted
<1>3. ASSUME req'[r] = o, failed'[r] = bad, UNCHANGED <<candidates, now>>
      PROVE  Fit(req'[r], failed'[r], now')
  BY <1>2, <1>3
<1>4. ASSUME NEW h \in Groups, NEW ip \in Ips, NEW m \in MeasureResult, Report(h, ip, m),
             req'[r] = o, failed'[r] = bad
      PROVE  Fit(req'[r], failed'[r], now')
  <2>1. now' = now /\ candidates' = [candidates EXCEPT ![h] = UpdateResult(@, ip, m, now)]
    BY <1>4 DEF Report
  <2>2. candidates \in [Groups -> Seq(CandidateState) \ {<< >>}]
    BY DEF TypeOK
  <2>3. CASE o.at = "new"
    BY <1>2, <1>4, <2>3
  <2>4. CASE o.at # "new" /\ o.group # h
    <3>1. candidates'[o.group] = old
      BY <1>2, <2>1, <2>2, <2>4
    <3> QED
      BY <1>2, <1>4, <2>1, <2>4, <3>1
  <2>5. CASE o.at # "new" /\ o.group = h
    <3>1. candidates'[o.group] = UpdateResult(old, ip, m, now)
      BY <1>2, <2>1, <2>2, <2>5
    <3>2. old \in CandidateList /\ Listed(old)
      BY <1>0, <1>2, <2>5
    <3> DEFINE new == candidates'[o.group]
    <3>3. /\ DOMAIN new = DOMAIN old
          /\ \A i \in DOMAIN old :
               /\ new[i].ip = old[i].ip
               /\ old[i].last_fail_ts \in Nat
               /\ new[i].last_fail_ts = old[i].last_fail_ts \/ new[i].last_fail_ts = now
      BY <1>0, <3>1, <3>2, Stamped
    <3> HIDE DEF new, old, bad
    <3>4. MarkedBy(o, bad, old, now)
      BY <1>2, <2>5
    <3>5. MarkedBy(o, bad, new, now)
      BY <1>0, <1>2, <3>3, <3>4, ReportKeeps
    <3> QED
      BY <1>4, <2>1, <2>5, <3>5 DEF new
  <2> QED
    BY <2>3, <2>4, <2>5
<1>5. CASE DashboardPins
  <2>1. CASE UNCHANGED <<candidates, now, req, failed>>
    BY <1>3, <2>1
  <2>2. ASSUME NEW p \in Pinners, PinWriteCandidates(p),
               failed' = [s \in Requests |->
                            IF req[s].group = pin[p].group THEN {} ELSE failed[s]],
               UNCHANGED <<req, written>>
        PROVE  Fit(req'[r], failed'[r], now')
    <3> DEFINE h == pin[p].group
    <3>1. /\ now' = now /\ req'[r] = o /\ failed'[r] = IF o.group = h THEN {} ELSE bad
          /\ \E new : candidates' = [candidates EXCEPT ![h] = new]
      BY <2>2 DEF PinWriteCandidates
    <3> HIDE DEF h
    <3>2. CASE o.group = h
      <4>1. failed'[r] = {}
        BY <3>1, <3>2
      <4>2. o.at # "new" => MarkedBy(o, {}, candidates'[o.group], now)
        BY NoneMarked
      <4> QED
        BY <3>1, <4>1, <4>2
    <3>3. CASE o.group # h
      <4>1. o.at # "new" => candidates'[o.group] = old
        BY <1>2, <3>1, <3>3 DEF TypeOK
      <4> QED
        BY <1>2, <3>1, <3>3, <4>1
    <3> QED
      BY <3>2, <3>3
  <2> QED
    BY <1>5, <2>1, <2>2 DEF DashboardPins, PinStart, PinWritePinnedIp
<1>6. CASE SpeedTestReports
  BY <1>4, <1>6 DEF SpeedTestReports
<1>7. CASE TimePasses
  <2>1. /\ now' = now + 1 /\ req'[r] = o /\ failed'[r] = bad /\ candidates' = candidates
        /\ o.at \notin {"pick", "mark", "reply"}
    BY <1>7 DEF TimePasses, Tick
  <2>2. o.at = "sent" => o.t0 <= now /\ now' # o.t0
    BY <1>0, <1>2, <2>1 DEF OnTime
  <2>3. o.at # "new" => MarkedBy(o, bad, old, now')
    BY <1>2, <2>1, <2>2 DEF MarkedBy
  <2> QED
    BY <1>2, <2>1, <2>3
<1>8. ASSUME NEW g \in Groups, NEW method \in Methods, Arrive(r, g, method)
      PROVE  Fit(req'[r], failed'[r], now')
  <2>1. req'[r].at = "pick" /\ failed'[r] = {}
    BY <1>0, <1>2, <1>8 DEF Arrive, RequestState
  <2>2. MarkedBy(req'[r], {}, candidates'[req'[r].group], now')
    BY <2>1, NoneMarked
  <2> QED
    BY <2>1, <2>2
<1>9. CASE Pick(r)
  <2> DEFINE ip == BestIp(old, now)
  <2>1. /\ o.at = "pick" /\ failed'[r] = bad /\ UNCHANGED <<candidates, now>>
        /\ req'[r] = [o EXCEPT !.at = "sent", !.attempts = o.attempts + 1, !.ip = ip, !.t0 = now]
    BY <1>0, <1>9 DEF Pick, selectorVars
  <2>2. old \in CandidateList /\ MarkedBy(o, bad, old, now) /\ o.attempts < Limit(o)
        /\ Limit(o) \in {1, 3}
    BY <1>0, <1>2, <2>1 DEF Attempted, Limit
  <2> DEFINE q == req'[r]
             ts == now - (o.attempts - 1) * HeaderTimeout
  <2>3. /\ q.at = "sent" /\ q.attempts = o.attempts + 1 /\ q.ip = ip /\ q.t0 = now
        /\ q.group = o.group
    BY <1>2, <2>1 DEF RequestState
  <2>4. o.attempts = 0 => bad = {}
    BY <2>1, <2>2 DEF MarkedBy
  <2>5. FailedSince(old, bad, ts) /\ ts \in Int /\ q.attempts - 2 = o.attempts - 1
    BY <1>0, <1>2, <2>1, <2>2, <2>3 DEF MarkedBy
  <2>6. o.attempts # 0 => now - Penalty <= ts
    <3>1. \A h \in Nat : (1 - 1) * h = 0 /\ (2 - 1) * h = h
      OBVIOUS
    <3> QED
      BY <1>0, <1>2, <2>2, <3>1
  <2>7. q.ip \in bad => AllFailed(old, now)
    <3> HIDE DEF old, ts, bad, q
    <3>1. CASE bad = {}
      BY <3>1
    <3>2. CASE bad # {}
      <4>1. now - Penalty <= ts
        BY <2>4, <2>6, <3>2
      <4>2. ip \in bad => AllFailed(old, now)
        BY <1>0, <2>2, <2>5, <4>1, PickAvoids
      <4> QED
        BY <2>3, <4>2
    <3> QED
      BY <3>1, <3>2
  <2>8. FailedSince(old, bad, q.t0 - (q.attempts - 2) * HeaderTimeout)
    BY <2>3, <2>5
  <2> HIDE DEF q, old, bad
  <2>9. MarkedBy(q, bad, old, now)
    BY <1>2, <2>3, <2>4, <2>7, <2>8 DEF MarkedBy
  <2> QED
    BY <2>1, <2>3, <2>9 DEF q, old
<1>10. CASE AttemptFails(r)
  <2>1. /\ o.at = "sent" /\ failed'[r] = bad /\ UNCHANGED <<candidates, now>>
        /\ req'[r].at = "mark" /\ req'[r].attempts = o.attempts /\ req'[r].t0 = o.t0
        /\ req'[r].group = o.group
    BY <1>0, <1>10 DEF AttemptFails, selectorVars, RequestState
  <2>2. MarkedBy(o, bad, old, now)
    BY <1>2, <2>1
  <2>3. MarkedBy(req'[r], bad, old, now)
    BY <2>1, <2>2 DEF MarkedBy
  <2> QED
    BY <2>1, <2>3
<1>11. CASE MarkFailure(r)
  <2> DEFINE q == req'[r]
             h == o.group
             new == UpdateResult(old, o.ip, NoResponse, now)
             since == o.t0 - (o.attempts - 2) * HeaderTimeout
             ts == now - (o.attempts - 1) * HeaderTimeout
  <2>1. /\ o.at = "mark" /\ failed'[r] = bad \cup {o.ip} /\ now' = now
        /\ q.at = IF o.attempts < Limit(o) THEN "pick" ELSE "reply"
        /\ q.attempts = o.attempts /\ q.group = h
        /\ candidates' = [candidates EXCEPT ![h] = UpdateResult(@, o.ip, NoResponse, now)]
    BY <1>0, <1>11 DEF MarkFailure, Report, RequestState, MaxAttempts, Limit
  <2>2. /\ h \in Groups /\ o.ip \in Ips /\ old \in CandidateList /\ Listed(old)
        /\ o.attempts \in 1 .. 3
    BY <1>0, <1>2, <2>1 DEF Attempted
  <2>3. candidates'[h] = new
    BY <2>1, <2>2 DEF TypeOK
  <2>4. NoResponse \in MeasureResult /\ ~ NoResponse.success
    BY DEF MeasureResult, NoResponse
  <2>5. /\ o.attempts = 1 => bad = {}
        /\ FailedSince(old, bad, since)
        /\ now <= o.t0 + HeaderTimeout
    BY <1>2, <2>1 DEF MarkedBy, OnTime
  <2>6. ts \in Int /\ ts <= now /\ (o.attempts # 1 => ts <= since /\ since \in Int)
    <3>1. \A k \in Nat : /\ (1 - 1) * k = 0 /\ (2 - 1) * k = k /\ (3 - 1) * k = k + k
                         /\ (2 - 2) * k = 0 /\ (3 - 2) * k = k
      OBVIOUS
    <3> QED
      BY <1>0, <1>2, <2>2, <2>5, <3>1
  <2>7. /\ DOMAIN new = DOMAIN old
        /\ \A i \in DOMAIN old :
             /\ new[i].ip = old[i].ip
             /\ new[i].last_fail_ts = old[i].last_fail_ts \/ new[i].last_fail_ts = now
             /\ old[i].last_fail_ts \in Nat
             /\ old[i].ip = o.ip => new[i].last_fail_ts = now
    BY <1>0, <2>2, <2>4, Stamped
  <2> HIDE DEF old, new, bad, ts, since, q
  <2>8. FailedSince(new, bad \cup {o.ip}, ts)
    <3> SUFFICES ASSUME NEW i \in DOMAIN old, new[i].ip \in bad \cup {o.ip}
                 PROVE  new[i].last_fail_ts >= ts
      BY <2>7 DEF FailedSince
    <3>1. CASE old[i].ip = o.ip
      BY <1>0, <2>6, <2>7, <3>1
    <3>2. CASE old[i].ip # o.ip
      <4>1. old[i].ip \in bad /\ o.attempts # 1
        BY <2>5, <2>7, <3>2
      <4>2. old[i].last_fail_ts >= since
        BY <2>5, <4>1 DEF FailedSince
      <4> QED
        BY <1>0, <2>6, <2>7, <4>1, <4>2
    <3> QED
      BY <3>1, <3>2
  <2>9. MarkedBy(q, bad \cup {o.ip}, new, now)
    <3>1. FailedSince(new, bad \cup {o.ip}, now - (q.attempts - 1) * HeaderTimeout)
      BY <2>1, <2>8 DEF ts
    <3> QED
      BY <2>1, <2>2, <3>1 DEF MarkedBy
  <2> QED
    BY <2>1, <2>3, <2>9 DEF q
<1>12. CASE \/ \E status \in Statuses : Answer(r, status)
            \/ ReplyWithBody(r) \/ ReplyUnavailable(r) \/ Chunk(r) \/ BodyFails(r)
            \/ BodyEnds(r) \/ DropStream(r) \/ Cancel(r)
  <2>1. req'[r].at \in {"reply", "stream", "closed", "ended", "gone"}
    BY <1>0, <1>12 DEF Answer, ReplyWithBody, ReplyUnavailable, Chunk, BodyFails, BodyEnds,
      DropStream, Cancel, RequestState
  <2> QED
    BY <2>1 DEF MarkedBy
<1>13. ASSUME NEW s \in Requests, s # r,
              \/ \E g \in Groups, method \in Methods : Arrive(s, g, method)
              \/ Handle(s) \/ Chunk(s) \/ BodyFails(s) \/ BodyEnds(s)
              \/ DropStream(s) \/ Cancel(s)
       PROVE  Fit(req'[r], failed'[r], now')
  <2>1. req'[r] = o /\ failed'[r] = bad
    BY <1>0, <1>13 DEF Arrive, Handle, Pick, Answer, AttemptFails, MarkFailure,
      ReplyWithBody, ReplyUnavailable, Chunk, BodyFails, BodyEnds, DropStream, Cancel
  <2>2. CASE MarkFailure(s)
    <3>1. req[s].group \in Groups /\ req[s].ip \in Ips
      BY <2>2 DEF Attempts, Fine, Attempted, MarkFailure
    <3>2. NoResponse \in MeasureResult
      BY DEF MeasureResult
    <3> QED
      BY <1>4, <2>1, <2>2, <3>1, <3>2 DEF MarkFailure
  <2>3. CASE ~ MarkFailure(s)
    <3>1. UNCHANGED <<candidates, now>>
      BY <1>13, <2>3 DEF Arrive, Handle, Pick, Answer, AttemptFails, ReplyWithBody,
        ReplyUnavailable, Chunk, BodyFails, BodyEnds, DropStream, Cancel, selectorVars
    <3> QED
      BY <1>3, <2>1, <3>1
  <2> QED
    BY <2>2, <2>3
<1>14. CASE UNCHANGED allVars
  BY <1>3, <1>14 DEF allVars, selectorVars
<1> QED
  BY <1>5, <1>6, <1>7, <1>8, <1>9, <1>10, <1>11, <1>12, <1>13, <1>14 DEF ProxyNext, Handle

(* A retry never goes to an address the request has tried in vain while    *)
(* one that did not fail within the penalty is listed (mark_failure,       *)
(* best_ip, proxy_handler).                                                *)
THEOREM RetriesMoveOn == ProxySpec => []RetryMovesOn
<1>1. ProxyInit => Marked
  BY DEF ProxyInit, Marked, NewRequest
<1>2. TypeOK /\ ProxyTypeOK /\ Attempts /\ Timely /\ Ledger /\ Marked /\ [ProxyNext]_allVars
        => Marked'
  BY MarkedStep
<1>3. ProxyInit => Timely
  BY DEF ProxyInit, Timely, OnTime, NewRequest
<1>4. TypeOK /\ ProxyTypeOK /\ Attempts /\ Timely /\ [ProxyNext]_allVars => Timely'
  BY TimelyStep
<1>5. Marked => RetryMovesOn
  BY DEF Marked, MarkedBy, AllFailed, RetryMovesOn
<1> QED
  BY <1>1, <1>2, <1>3, <1>4, <1>5, AttemptsInductive, ProxyImplementsSelector,
     LedgerInductive, PTL DEF ProxySpec

(* Under the traffic of the proxy, its retries and its cancellations, a    *)
(* group serves what the last pin asked for, an address that failed is     *)
(* left alone for the penalty, a candidate is shown down exactly while it  *)
(* is, and the address with the badge is the one that is served (best_ip,  *)
(* snapshot).                                                              *)
THEOREM ProxyKeepsTheSelector ==
  ProxySpec => /\ ServesOnlyWhatIsPinned
               /\ [](FailureIsQuarantined /\ DownIsCurrent /\ BadgeIsServedUnlessItFailed)
<1>1. Spec => /\ ServesOnlyWhatIsPinned
              /\ [](FailureIsQuarantined /\ DownIsCurrent /\ BadgeIsServedUnlessItFailed)
  BY ServingRefinesAbs, Quarantine, DownShownIsCurrent, BadgeIsServed, PTL
<1> QED
  BY <1>1, ProxyImplementsSelector
=============================================================================
