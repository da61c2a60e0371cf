------------------------------ MODULE Candidates ------------------------------
(***************************************************************************)
(* The candidate list of one endpoint group, as pure operators: how        *)
(* Selector (src/selector.rs) builds a list, scores and picks an address,  *)
(* folds a measurement or a failure into it, and ranks it for the          *)
(* dashboard.  Selector.tla runs them as a concurrent state machine.       *)
(*                                                                         *)
(* A list is a sequence of records in the order of the bundled IP file.    *)
(* Times are whole seconds of the Unix clock.  last_ok_ts is left out:     *)
(* it is written and never read.                                           *)
(***************************************************************************)
EXTENDS Integers, Sequences

CONSTANTS
  Ips,          \* addresses
  None,         \* Option::None
  Speeds,       \* the speeds (kbps) a measurement can report
  Latencies,    \* the latencies (ms) a measurement can report
  Penalty,      \* failure_penalty, in seconds
  FailsMax,     \* u32::MAX: where the failure counter saturates
  F64Min        \* f64::MIN: below every score a measurement can produce

ASSUME CandidatesAssumption ==
  /\ None \notin Ips /\ None \notin Nat
  /\ Speeds \subseteq Nat /\ Latencies \subseteq Nat
  /\ \E top \in Speeds \cup {0} : \A s \in Speeds : s <= top
  /\ Penalty \in Nat
  /\ FailsMax \in Nat \ {0}
  /\ F64Min \in Int /\ F64Min < 0
  /\ \A l \in Latencies : F64Min < -l

CandidateState ==
  [ip : Ips,
   latency_ms : Latencies \cup {None},
   speed_kbps : Speeds \cup {None},
   last_fail_ts : Nat,
   fails : 0 .. FailsMax,
   down : BOOLEAN]

(***************************************************************************)
(* What one measurement of an address can report (speedtest::measure): no  *)
(* response at all, a non-success status, or a body.  A body that ends     *)
(* before its first byte fails with speed 0; any byte makes it a success.  *)
(***************************************************************************)
NoResponse == [latency_ms |-> None, speed_kbps |-> None, success |-> FALSE]

MeasureResult ==
  {NoResponse}
    \cup [latency_ms : Latencies, speed_kbps : {None}, success : {FALSE}]
    \cup [latency_ms : Latencies, speed_kbps : Speeds \cap {0}, success : {FALSE}]
    \cup [latency_ms : Latencies, speed_kbps : Speeds, success : {TRUE}]

-----------------------------------------------------------------------------
(* u64::saturating_sub *)
SaturatingSub(a, b) == IF a > b THEN a - b ELSE 0

(* Mutant of SaturatingIncr: the counter does not saturate. *)
SaturatingIncr_Unchecked(n) == n + 1

(* u32::saturating_add(1) *)
SaturatingIncr(n) == IF n = FailsMax THEN n ELSE n + 1

UnwrapOrZero(v) == IF v = None THEN 0 ELSE v

Fresh(ip) ==
  [ip |-> ip, latency_ms |-> None, speed_kbps |-> None,
   last_fail_ts |-> 0, fails |-> 0, down |-> FALSE]

FreshCandidates(ips) == [i \in DOMAIN ips |-> Fresh(ips[i])]

IpList(cands) == [i \in DOMAIN cands |-> cands[i].ip]

InPenalty(ts, now) == SaturatingSub(now, ts) <= Penalty

ScoreAt(c, now) ==
  IF c.down /\ InPenalty(c.last_fail_ts, now)
  THEN F64Min
  ELSE UnwrapOrZero(c.speed_kbps) * 1000 - UnwrapOrZero(c.latency_ms)

-----------------------------------------------------------------------------
(* Mutant of Healthy: filters on the down flag, which a success clears. *)
Healthy_ByDown(cands, now) ==
  {i \in DOMAIN cands : ~ (cands[i].down /\ InPenalty(cands[i].last_fail_ts, now))}

(* best_ip: the addresses out of penalty, or all of them if there is none; *)
(* max_by keeps the last of several maxima.                                *)
Healthy(cands, now) ==
  {i \in DOMAIN cands : ~ InPenalty(cands[i].last_fail_ts, now)}

PickPool(cands, now) ==
  IF Healthy(cands, now) = {} THEN DOMAIN cands ELSE Healthy(cands, now)

IsBest(i, cands, now) ==
  /\ i \in PickPool(cands, now)
  /\ \A j \in PickPool(cands, now) :
       \/ ScoreAt(cands[j], now) < ScoreAt(cands[i], now)
       \/ ScoreAt(cands[j], now) = ScoreAt(cands[i], now) /\ j <= i

BestIp(cands, now) ==
  IF cands = << >> THEN None
  ELSE cands[CHOOSE i \in DOMAIN cands : IsBest(i, cands, now)].ip

(* snapshot: a stable sort by descending score, so the first of several    *)
(* maxima is shown first, over every candidate, in penalty or not.         *)
ShownBefore(i, j, cands, now) ==
  \/ ScoreAt(cands[i], now) > ScoreAt(cands[j], now)
  \/ ScoreAt(cands[i], now) = ScoreAt(cands[j], now) /\ i < j

ShownFirst(cands, now) ==
  CHOOSE i \in DOMAIN cands :
    \A j \in DOMAIN cands \ {i} : ShownBefore(i, j, cands, now)

(* Mutant of ShownDown: the cached flag is shown without being aged. *)
ShownDown_Cached(c, now) == c.down

ShownDown(c, now) == c.down /\ InPenalty(c.last_fail_ts, now)

-----------------------------------------------------------------------------
(* Mutant of WithResult: a success restarts the penalty too. *)
WithResult_AlwaysStamps(c, m, now) ==
  LET fails == IF m.success THEN 0 ELSE SaturatingIncr(c.fails)
      latest(new, old) == IF m.success /\ new # None THEN new ELSE old
  IN  [c EXCEPT !.latency_ms = latest(m.latency_ms, @),
                !.speed_kbps = latest(m.speed_kbps, @),
                !.last_fail_ts = now,
                !.fails = fails,
                !.down = fails > 0]

(* update_result on the candidate it finds; mark_failure is the case       *)
(* m = NoResponse.                                                         *)
WithResult(c, m, now) ==
  LET failed == IF m.success THEN c.last_fail_ts ELSE now
      fails == IF m.success THEN 0 ELSE SaturatingIncr(c.fails)
      latest(new, old) == IF m.success /\ new # None THEN new ELSE old
  IN  [c EXCEPT !.latency_ms = latest(m.latency_ms, @),
                !.speed_kbps = latest(m.speed_kbps, @),
                !.last_fail_ts = failed,
                !.fails = fails,
                !.down = InPenalty(failed, now) /\ fails > 0]

IsFirstWith(ip, i, cands) ==
  /\ cands[i].ip = ip
  /\ \A j \in DOMAIN cands : j < i => cands[j].ip # ip

(* Mutant of UpdateResult: a result for an unknown address adds it. *)
UpdateResult_Upserts(cands, ip, m, now) ==
  IF \E i \in DOMAIN cands : cands[i].ip = ip
  THEN [i \in DOMAIN cands |->
          IF IsFirstWith(ip, i, cands) THEN WithResult(cands[i], m, now) ELSE cands[i]]
  ELSE Append(cands, WithResult(Fresh(ip), m, now))

UpdateResult(cands, ip, m, now) ==
  [i \in DOMAIN cands |->
     IF IsFirstWith(ip, i, cands) THEN WithResult(cands[i], m, now) ELSE cands[i]]
=============================================================================
