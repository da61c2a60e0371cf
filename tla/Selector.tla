------------------------------- MODULE Selector -------------------------------
(***************************************************************************)
(* The shared Selector (src/selector.rs) under concurrent use: dashboard   *)
(* calls pin and unpin groups, proxied requests and speed tests report     *)
(* results for addresses they picked some time ago, and the wall clock     *)
(* moves.                                                                  *)
(*                                                                         *)
(* set_pinned_ip takes two locks one after the other, so a call is two     *)
(* steps (pinned_ip, then candidates) and calls interleave.  Every other   *)
(* operation holds one lock throughout and is one step.  best_ip, defs and *)
(* snapshot only read: they are state functions here.                      *)
(***************************************************************************)
EXTENDS Candidates

CONSTANTS
  Groups,       \* endpoint groups
  Bundled,      \* bundled_ips of each group
  Pinners,      \* dashboard calls that can be in flight at a time
  StartTime,    \* the clock when the process starts
  MaxTime       \* bound on the clock

ASSUME SelectorAssumption ==
  /\ Bundled \in [Groups -> Seq(Ips) \ {<< >>}]
  /\ \A g \in Groups : \A i, j \in DOMAIN Bundled[g] :     \* load_bundled dedups
       Bundled[g][i] = Bundled[g][j] => i = j
  /\ StartTime \in Nat /\ MaxTime \in Nat
  /\ StartTime > Penalty         \* last_fail_ts = 0 has to mean "long ago"

VARIABLES
  now,
  pinned_ip,
  candidates,
  pin,          \* per dashboard call: where it is in set_pinned_ip
  reported      \* history: per group and address, the failures and the last
                \* outcome reported since the group's list was built

vars == <<now, pinned_ip, candidates, pin, reported>>

PinIdle == [at |-> "idle", group |-> None, ip |-> None]

ListFor(g, ip) == IF ip = None THEN Bundled[g] ELSE <<ip>>

NothingReported == [ip \in Ips |-> [failed |-> 0, last |-> "none"]]

Outcome(success) == IF success THEN "ok" ELSE "fail"

TypeOK ==
  /\ now \in Nat
  /\ pinned_ip \in [Groups -> Ips \cup {None}]
  /\ candidates \in [Groups -> Seq(CandidateState) \ {<< >>}]
  /\ pin \in [Pinners -> {PinIdle} \cup [at : {"pinned_ip", "candidates"},
                                         group : Groups,
                                         ip : Ips \cup {None}]]
  /\ reported \in [Groups -> [Ips -> [failed : Nat, last : {"none", "ok", "fail"}]]]

Init ==
  /\ now = StartTime
  /\ pinned_ip = [g \in Groups |-> None]
  /\ candidates = [g \in Groups |-> FreshCandidates(Bundled[g])]
  /\ pin = [p \in Pinners |-> PinIdle]
  /\ reported = [g \in Groups |-> NothingReported]

-----------------------------------------------------------------------------
(* set_pinned_ip computes the new list, and refuses an empty one, before   *)
(* it takes the first lock.                                                *)
PinStart(p, g, ip) ==
  /\ pin[p] = PinIdle
  /\ ListFor(g, ip) # << >>
  /\ pin' = [pin EXCEPT ![p] = [at |-> "pinned_ip", group |-> g, ip |-> ip]]
  /\ UNCHANGED <<now, pinned_ip, candidates, reported>>

(* Mutant of PinWritePinnedIp: restoring the bundled list leaves the pin. *)
PinWritePinnedIp_NeverCleared(p) ==
  /\ pin[p].at = "pinned_ip"
  /\ pinned_ip' = [pinned_ip EXCEPT
                     ![pin[p].group] = IF pin[p].ip = None THEN @ ELSE pin[p].ip]
  /\ pin' = [pin EXCEPT ![p].at = "candidates"]
  /\ UNCHANGED <<now, candidates, reported>>

PinWritePinnedIp(p) ==
  /\ pin[p].at = "pinned_ip"
  /\ pinned_ip' = [pinned_ip EXCEPT ![pin[p].group] = pin[p].ip]
  /\ pin' = [pin EXCEPT ![p].at = "candidates"]
  /\ UNCHANGED <<now, candidates, reported>>

PinWriteCandidates(p) ==
  LET g == pin[p].group
  IN  /\ pin[p].at = "candidates"
      /\ candidates' = [candidates EXCEPT
                          ![g] = FreshCandidates(ListFor(g, pin[p].ip))]
      /\ reported' = [reported EXCEPT ![g] = NothingReported]
      /\ pin' = [pin EXCEPT ![p] = PinIdle]
      /\ UNCHANGED <<now, pinned_ip>>

(* The client goes away while the call waits for its first lock: the       *)
(* handler's future is dropped and nothing was written.  (One dropped      *)
(* while it waits for the second lock stays at "candidates" for good.)     *)
PinDropped(p) ==
  /\ pin[p].at = "pinned_ip"
  /\ pin' = [pin EXCEPT ![p] = PinIdle]
  /\ UNCHANGED <<now, pinned_ip, candidates, reported>>

(* update_result and mark_failure.  The address was read some time before, *)
(* so it may have left the list since: then nothing is changed.            *)
Report(g, ip, m) ==
  /\ candidates' = [candidates EXCEPT ![g] = UpdateResult(@, ip, m, now)]
  /\ reported' =
       IF \E i \in DOMAIN candidates[g] : candidates[g][i].ip = ip
       THEN [reported EXCEPT ![g][ip] =
               [failed |-> IF m.success THEN @.failed ELSE now,
                last |-> Outcome(m.success)]]
       ELSE reported
  /\ UNCHANGED <<now, pinned_ip, pin>>

Tick ==
  /\ now < MaxTime
  /\ now' = now + 1
  /\ UNCHANGED <<pinned_ip, candidates, pin, reported>>

(* SystemTime is not monotonic: the wall clock may be set back. *)
ClockSetBack ==
  /\ now > StartTime
  /\ now' = now - 1
  /\ UNCHANGED <<pinned_ip, candidates, pin, reported>>

Next ==
  \/ \E p \in Pinners, g \in Groups, ip \in Ips \cup {None} : PinStart(p, g, ip)
  \/ \E p \in Pinners : PinWritePinnedIp(p)
  \/ \E p \in Pinners : PinWriteCandidates(p)
  \/ \E p \in Pinners : PinDropped(p)
  \/ \E g \in Groups, ip \in Ips, m \in MeasureResult : Report(g, ip, m)
  \/ Tick
  \/ ClockSetBack

Spec == Init /\ [][Next]_vars

-----------------------------------------------------------------------------
(* A group with no pin call between its two writes (a call that has        *)
(* returned, or has written nothing yet) serves what its pinned_ip says:   *)
(* the bundled list for None, else that one address (the doc comment of    *)
(* HostState::pinned_ip).  Two overlapping calls break it for good.        *)
PinnedIpTellsTheList ==
  \A g \in Groups :
    (\A p \in Pinners : pin[p].at = "candidates" => pin[p].group # g)
      => IpList(candidates[g]) = ListFor(g, pinned_ip[g])

(* best_ip never returns an address whose failure was reported less than a *)
(* penalty ago while the list holds one without such a report, whatever    *)
(* successes measured before or after that failure arrive in between       *)
(* (mark_failure in the proxy racing update_result of a speed-test wave).  *)
FailureIsQuarantined ==
  \A g \in Groups :
    LET cands == candidates[g]
        clean == {i \in DOMAIN cands :
                    ~ InPenalty(reported[g][cands[i].ip].failed, now)}
    IN  clean # {} => \E i \in clean : cands[i].ip = BestIp(cands, now)

(* The dashboard shows an address as down exactly when the last thing      *)
(* reported of it was a failure, and that less than a penalty ago: down is *)
(* a cached flag that snapshot has to age and update_result to clear.      *)
DownIsCurrent ==
  \A g \in Groups : \A i \in DOMAIN candidates[g] :
    LET c == candidates[g][i]
        r == reported[g][c.ip]
    IN  ShownDown(c, now) <=> r.last = "fail" /\ InPenalty(r.failed, now)

(* Whatever is reported and however pin calls overlap, what a group serves *)
(* is its bundled list or one pinned address, in the order of the file,    *)
(* and goes from one to the other in one step (set_pinned_ip,              *)
(* update_result, mark_failure).                                           *)
Abs == INSTANCE SelectorAbs WITH
         serving <- [g \in Groups |-> IpList(candidates[g])]

ServesOnlyWhatIsPinned == Abs!Spec

(* The dashboard badges the first shown candidate "best"                   *)
(* (templates/dashboard.html), over a ranking that snapshot computes apart *)
(* from best_ip.  Where it has a clear winner that is shown up, traffic    *)
(* goes to it, with one exception: a failure less than a penalty ago, that *)
(* a success since then has hidden from the dashboard, while some other    *)
(* address has none.                                                       *)
BadgeIsServedUnlessItFailed ==
  \A g \in Groups :
    LET cands == candidates[g]
        first == ShownFirst(cands, now)
        failed(i) == InPenalty(reported[g][cands[i].ip].failed, now)
        clear_winner == \A j \in DOMAIN cands \ {first} :
                          ScoreAt(cands[first], now) > ScoreAt(cands[j], now)
    IN  clear_winner /\ ~ ShownDown(cands[first], now)
          => (cands[first].ip = BestIp(cands, now)
                <=> (failed(first) => \A i \in DOMAIN cands : failed(i)))
=============================================================================
