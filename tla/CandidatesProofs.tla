--------------------------- MODULE CandidatesProofs ---------------------------
(***************************************************************************)
(* What the operators on a candidate list return and preserve, for every   *)
(* list, address, measurement and time: what the proofs about Selector,    *)
(* SelectorLocks and Proxy have in common.                                 *)
(***************************************************************************)
EXTENDS Candidates, SequenceTheorems, WellFoundedInduction, TLAPS

AddressList == Seq(Ips) \ {<< >>}
CandidateList == Seq(CandidateState) \ {<< >>}

(* A fresh list is well typed, non-empty, and holds the given addresses in *)
(* the given order (fresh_candidates).                                     *)
LEMMA FreshList ==
  ASSUME NEW ips \in AddressList
  PROVE  /\ FreshCandidates(ips) \in CandidateList
         /\ IpList(FreshCandidates(ips)) = ips
         /\ DOMAIN FreshCandidates(ips) = DOMAIN ips
         /\ \A i \in DOMAIN ips : FreshCandidates(ips)[i] = Fresh(ips[i])
<1> USE CandidatesAssumption
<1>1. DOMAIN ips = 1 .. Len(ips) /\ Len(ips) \in Nat \ {0}
  BY DEF AddressList
<1>2. \A i \in DOMAIN ips : Fresh(ips[i]) \in CandidateState
  BY DEF AddressList, Fresh, CandidateState
<1>3. FreshCandidates(ips) \in Seq(CandidateState)
  BY <1>1, <1>2 DEF FreshCandidates
<1>4. FreshCandidates(ips) # << >>
  <2>1. DOMAIN FreshCandidates(ips) = 1 .. Len(ips)
    BY <1>1 DEF FreshCandidates
  <2> QED
    BY <1>1, <2>1
<1>5. IpList(FreshCandidates(ips)) = ips
  BY DEF FreshCandidates, IpList, Fresh, AddressList
<1> QED
  BY <1>3, <1>4, <1>5 DEF CandidateList, FreshCandidates

(* Folding a result into a candidate keeps its type and its address.       *)
LEMMA ResultTyped ==
  ASSUME NEW c \in CandidateState, NEW m \in MeasureResult, NEW t \in Nat
  PROVE  /\ WithResult(c, m, t) \in CandidateState
         /\ WithResult(c, m, t).ip = c.ip
         /\ WithResult(c, m, t).last_fail_ts =
              IF m.success THEN c.last_fail_ts ELSE t
         /\ WithResult(c, m, t).down <=> ~ m.success
         /\ WithResult(c, m, t).fails > 0 <=> ~ m.success
<1> USE CandidatesAssumption
<1> DEFINE r == WithResult(c, m, t)
<1>1. /\ m.success \in BOOLEAN
      /\ m.latency_ms \in Latencies \cup {None}
      /\ m.speed_kbps \in Speeds \cup {None}
  <2>1. CASE m = NoResponse
    BY <2>1 DEF NoResponse
  <2>2. CASE m # NoResponse
    <3>1. \/ m \in [latency_ms : Latencies, speed_kbps : {None}, success : {FALSE}]
          \/ m \in [latency_ms : Latencies, speed_kbps : Speeds \cap {0}, success : {FALSE}]
          \/ m \in [latency_ms : Latencies, speed_kbps : Speeds, success : {TRUE}]
      BY <2>2 DEF MeasureResult
    <3> QED
      BY <3>1
  <2> QED
    BY <2>1, <2>2
<1>2. CASE m.success
  <2> DEFINE latency == IF m.latency_ms # None THEN m.latency_ms ELSE c.latency_ms
             speed == IF m.speed_kbps # None THEN m.speed_kbps ELSE c.speed_kbps
  <2>1. latency \in Latencies \cup {None} /\ speed \in Speeds \cup {None}
    BY <1>1 DEF CandidateState
  <2>2. (InPenalty(c.last_fail_ts, t) /\ 0 > 0) = FALSE
    OBVIOUS
  <2>3. r = [c EXCEPT !.latency_ms = latency, !.speed_kbps = speed,
                      !.last_fail_ts = c.last_fail_ts, !.fails = 0, !.down = FALSE]
    BY <1>2, <2>2 DEF WithResult, CandidateState
  <2> HIDE DEF latency, speed
  <2> DEFINE f == 0
  <2>4. f \in 0 .. FailsMax
    OBVIOUS
  <2>5. r = [c EXCEPT !.latency_ms = latency, !.speed_kbps = speed,
                      !.last_fail_ts = c.last_fail_ts, !.fails = f, !.down = FALSE]
    BY <2>3
  <2> HIDE DEF f
  <2>6. r \in CandidateState /\ r.ip = c.ip
    BY <2>1, <2>4, <2>5 DEF CandidateState
  <2>7. r.last_fail_ts = c.last_fail_ts /\ r.fails = 0 /\ r.down = FALSE
    BY <2>3 DEF CandidateState
  <2> QED
    BY <1>2, <2>6, <2>7
<1>3. CASE ~ m.success
  <2> DEFINE n == SaturatingIncr(c.fails)
  <2>1. n \in 0 .. FailsMax /\ n > 0
    BY DEF CandidateState, SaturatingIncr
  <2>2. InPenalty(t, t)
    BY DEF InPenalty, SaturatingSub
  <2>3. r = [c EXCEPT !.latency_ms = @, !.speed_kbps = @,
                      !.last_fail_ts = t, !.fails = n, !.down = TRUE]
    BY <1>3, <2>1, <2>2 DEF WithResult, CandidateState
  <2> HIDE DEF n
  <2> QED
    BY <1>3, <2>1, <2>3 DEF CandidateState
<1> QED
  BY <1>1, <1>2, <1>3

(* update_result keeps the addresses of a list and their order, and is     *)
(* WithResult on the one candidate with the address.                       *)
LEMMA UpdateList ==
  ASSUME NEW cands \in CandidateList, NEW ip \in Ips, NEW m \in MeasureResult,
         NEW t \in Nat
  PROVE  /\ UpdateResult(cands, ip, m, t) \in CandidateList
         /\ DOMAIN UpdateResult(cands, ip, m, t) = DOMAIN cands
         /\ IpList(UpdateResult(cands, ip, m, t)) = IpList(cands)
<1> DEFINE new == UpdateResult(cands, ip, m, t)
<1>1. DOMAIN cands = 1 .. Len(cands) /\ Len(cands) \in Nat \ {0}
  BY DEF CandidateList
<1>2. \A i \in DOMAIN cands : cands[i] \in CandidateState
  BY DEF CandidateList
<1>3. \A i \in DOMAIN cands : new[i] \in CandidateState /\ new[i].ip = cands[i].ip
  BY <1>2, ResultTyped DEF UpdateResult
<1>4. DOMAIN new = DOMAIN cands
  BY DEF UpdateResult
<1>5. new \in Seq(CandidateState)
  BY <1>1, <1>3 DEF UpdateResult
<1>6. new # << >>
  BY <1>1, <1>4
<1>7. IpList(new) = IpList(cands)
  BY <1>3, <1>4 DEF IpList
<1> QED
  BY <1>4, <1>5, <1>6, <1>7 DEF CandidateList

-----------------------------------------------------------------------------
LEMMA NatHasMin ==
  ASSUME NEW T \in SUBSET Nat, T # {}
  PROVE  \E x \in T : \A y \in T : x <= y
<1>1. PICK x \in T : \A y \in T : ~ (<<y, x>> \in OpToRel(<, Nat))
  BY NatLessThanWellFounded, WFMin
<1>2. \A y \in T : ~ (y < x)
  BY <1>1 DEF OpToRel
<1> QED
  BY <1>2

LEMMA ScoreTyped ==
  ASSUME NEW c \in CandidateState, NEW t \in Nat
  PROVE  ScoreAt(c, t) \in Int
<1> USE CandidatesAssumption
<1> DEFINE s == UnwrapOrZero(c.speed_kbps)
           l == UnwrapOrZero(c.latency_ms)
<1>1. c.speed_kbps \in Speeds \cup {None} /\ c.latency_ms \in Latencies \cup {None}
  BY DEF CandidateState
<1>2. s \in Nat
  BY <1>1 DEF UnwrapOrZero
<1>3. l \in Nat
  BY <1>1 DEF UnwrapOrZero
<1>4. ScoreAt(c, t) \in {F64Min, s * 1000 - l}
  BY DEF ScoreAt
<1> HIDE DEF s, l
<1> QED
  BY <1>2, <1>3, <1>4

(* Some candidate of a pool has the highest score of it.                   *)
LEMMA HighestScore ==
  ASSUME NEW cands \in CandidateList, NEW t \in Nat,
         NEW pool \in SUBSET DOMAIN cands, pool # {}
  PROVE  \E i \in pool : \A j \in pool : ScoreAt(cands[j], t) <= ScoreAt(cands[i], t)
<1> USE CandidatesAssumption
<1> DEFINE score(i) == ScoreAt(cands[i], t)
<1>1. \A i \in DOMAIN cands : cands[i] \in CandidateState
  BY DEF CandidateList
<1>2. PICK top \in Nat : \A s \in Speeds : s <= top
  OBVIOUS
<1>3. \A i \in pool : score(i) \in Int /\ score(i) <= top * 1000
  <2> SUFFICES ASSUME NEW i \in pool
               PROVE  score(i) \in Int /\ score(i) <= top * 1000
    OBVIOUS
  <2>1. cands[i] \in CandidateState
    BY <1>1
  <2> DEFINE speed == UnwrapOrZero(cands[i].speed_kbps)
             latency == UnwrapOrZero(cands[i].latency_ms)
  <2>2. /\ cands[i].speed_kbps \in Speeds \cup {None}
        /\ cands[i].latency_ms \in Latencies \cup {None}
    BY <2>1 DEF CandidateState
  <2>3. speed \in 0 .. top
    <3>1. cands[i].speed_kbps = None => speed = 0
      BY DEF UnwrapOrZero
    <3>2. cands[i].speed_kbps # None => speed \in Speeds
      BY <2>2 DEF UnwrapOrZero
    <3>3. 0 \in 0 .. top /\ \A n \in Speeds : n \in 0 .. top
      BY <1>2
    <3> QED
      BY <3>1, <3>2, <3>3, Zenon
  <2>4. latency \in Nat
    BY <2>2 DEF UnwrapOrZero
  <2>5. score(i) \in {F64Min, speed * 1000 - latency}
    BY DEF ScoreAt
  <2>6. score(i) \in Int
    BY <2>1, ScoreTyped
  <2> HIDE DEF speed, latency, score
  <2> QED
    BY <2>3, <2>4, <2>5, <2>6
<1> HIDE DEF score
<1> DEFINE gaps == {top * 1000 - score(i) : i \in pool}
<1>4. \E i \in pool : \A j \in pool : score(j) <= score(i)
  <2>1. gaps \in SUBSET Nat /\ gaps # {}
    BY <1>3
  <2>2. PICK x \in gaps : \A y \in gaps : x <= y
    BY <2>1, NatHasMin
  <2>3. PICK i \in pool : x = top * 1000 - score(i)
    BY <2>2
  <2>4. \A j \in pool : top * 1000 - score(i) <= top * 1000 - score(j)
    BY <2>2, <2>3
  <2> QED
    BY <1>3, <2>4
<1> QED
  BY <1>4 DEF score

(* A non-empty list always has exactly the element max_by returns: one     *)
(* from the pool, of maximal score, and the last of those (best_ip).       *)
LEMMA BestExists ==
  ASSUME NEW cands \in CandidateList, NEW t \in Nat
  PROVE  \E i \in DOMAIN cands : IsBest(i, cands, t)
<1> USE CandidatesAssumption
<1> DEFINE pool == PickPool(cands, t)
           score(i) == ScoreAt(cands[i], t)
<1>1. DOMAIN cands = 1 .. Len(cands) /\ Len(cands) \in Nat \ {0}
  BY DEF CandidateList
<1>2. \A i \in DOMAIN cands : cands[i] \in CandidateState
  BY DEF CandidateList
<1>3. pool \subseteq DOMAIN cands /\ pool # {}
  BY <1>1 DEF PickPool, Healthy
<1>4. PICK i \in pool : \A j \in pool : score(j) <= score(i)
  BY <1>3, HighestScore
<1>5. \A j \in pool : score(j) \in Int
  BY <1>2, <1>3, ScoreTyped
<1> HIDE DEF pool, score
<1> DEFINE tied == {j \in pool : score(j) = score(i)}
           ends == {Len(cands) - j : j \in tied}
<1>7. PICK k \in tied : \A j \in tied : j <= k
  <2>1. tied \subseteq 1 .. Len(cands) /\ tied # {}
    BY <1>1, <1>3, <1>4
  <2>2. ends \in SUBSET Nat /\ ends # {}
    BY <1>1, <2>1
  <2>3. PICK x \in ends : \A y \in ends : x <= y
    BY <2>2, NatHasMin
  <2>4. PICK k \in tied : x = Len(cands) - k
    BY <2>3
  <2>5. \A j \in tied : Len(cands) - k <= Len(cands) - j
    BY <2>3, <2>4
  <2> QED
    BY <1>1, <2>1, <2>5
<1>8. \A j \in pool :
        \/ score(j) < score(k)
        \/ score(j) = score(k) /\ j <= k
  <2> SUFFICES ASSUME NEW j \in pool
               PROVE  \/ score(j) < score(k)
                      \/ score(j) = score(k) /\ j <= k
    OBVIOUS
  <2>1. k \in pool /\ score(k) = score(i)
    BY <1>7
  <2>2. score(j) \in Int /\ score(k) \in Int /\ score(j) <= score(k)
    BY <1>4, <1>5, <2>1
  <2>3. score(j) = score(k) => j <= k
    BY <1>7, <2>1
  <2> QED
    BY <2>2, <2>3
<1>9. k \in pool /\ k \in DOMAIN cands
  BY <1>3, <1>7
<1> QED
  BY <1>8, <1>9 DEF IsBest, pool, score

(* What best_ip returns on a non-empty list.                               *)
LEMMA BestIpIsBest ==
  ASSUME NEW cands \in CandidateList, NEW t \in Nat
  PROVE  \E i \in PickPool(cands, t) :
           /\ i \in DOMAIN cands
           /\ BestIp(cands, t) = cands[i].ip
           /\ \A j \in PickPool(cands, t) :
                ScoreAt(cands[j], t) <= ScoreAt(cands[i], t)
<1>1. PICK i \in DOMAIN cands : /\ IsBest(i, cands, t)
                               /\ BestIp(cands, t) = cands[i].ip
  BY BestExists DEF BestIp, CandidateList
<1>2. \A j \in PickPool(cands, t) : ScoreAt(cands[j], t) \in Int
  <2>1. PickPool(cands, t) \subseteq DOMAIN cands
    BY DEF PickPool, Healthy
  <2>2. \A j \in DOMAIN cands : cands[j] \in CandidateState
    BY DEF CandidateList
  <2> QED
    BY <2>1, <2>2, ScoreTyped
<1> QED
  BY <1>1, <1>2 DEF IsBest

(* snapshot's ranking has a first candidate: the earliest of those with    *)
(* the highest score.                                                      *)
LEMMA ShownFirstIsFirst ==
  ASSUME NEW cands \in CandidateList, NEW t \in Nat
  PROVE  ShownFirst(cands, t) \in DOMAIN cands
<1> DEFINE score(i) == ScoreAt(cands[i], t)
<1>1. DOMAIN cands = 1 .. Len(cands) /\ Len(cands) \in Nat \ {0}
  BY DEF CandidateList
<1>2. \A i \in DOMAIN cands : cands[i] \in CandidateState /\ score(i) \in Int
  BY ScoreTyped DEF CandidateList
<1>3. PICK i \in DOMAIN cands : \A j \in DOMAIN cands : score(j) <= score(i)
  <2>1. DOMAIN cands \in SUBSET DOMAIN cands /\ DOMAIN cands # {}
    BY <1>1
  <2>2. \E i \in DOMAIN cands : \A j \in DOMAIN cands :
          ScoreAt(cands[j], t) <= ScoreAt(cands[i], t)
    BY <2>1, HighestScore, Zenon
  <2> QED
    BY <2>2
<1> HIDE DEF score
<1> DEFINE tied == {j \in DOMAIN cands : score(j) = score(i)}
<1>4. PICK k \in tied : \A j \in tied : k <= j
  <2>1. tied \in SUBSET Nat /\ tied # {}
    BY <1>1, <1>2
  <2> HIDE DEF tied
  <2> QED
    BY <2>1, NatHasMin
<1>5. \A j \in DOMAIN cands \ {k} :
        \/ score(k) > score(j)
        \/ score(k) = score(j) /\ k < j
  BY <1>1, <1>2, <1>3, <1>4
<1>6. \A j \in DOMAIN cands \ {k} : ShownBefore(k, j, cands, t)
  BY <1>5 DEF ShownBefore, score
<1> QED
  BY <1>4, <1>6 DEF ShownFirst

-----------------------------------------------------------------------------
(* No address is listed twice.                                             *)
Listed(cands) == \A i, j \in DOMAIN cands : cands[i].ip = cands[j].ip => i = j

LEMMA FreshListed ==
  ASSUME NEW ips \in AddressList, \A i, j \in DOMAIN ips : ips[i] = ips[j] => i = j
  PROVE  Listed(FreshCandidates(ips))
<1>1. /\ DOMAIN FreshCandidates(ips) = DOMAIN ips
      /\ \A i \in DOMAIN ips : FreshCandidates(ips)[i] = Fresh(ips[i])
  BY FreshList
<1> QED
  BY <1>1 DEF Listed, Fresh

(* update_result and mark_failure change the candidate with the address,   *)
(* if there is one, and no other.                                          *)
LEMMA OneUpdated ==
  ASSUME NEW cands \in CandidateList, NEW ip \in Ips, NEW m \in MeasureResult,
         NEW t \in Nat, Listed(cands), NEW new, new = UpdateResult(cands, ip, m, t)
  PROVE  /\ DOMAIN new = DOMAIN cands
         /\ Listed(new)
         /\ \A i \in DOMAIN cands :
              /\ new[i] = IF cands[i].ip = ip THEN WithResult(cands[i], m, t) ELSE cands[i]
              /\ new[i].ip = cands[i].ip
              /\ cands[i] \in CandidateState /\ cands[i].ip \in Ips
<1>1. \A i \in DOMAIN cands : cands[i] \in CandidateState
  BY DEF CandidateList
<1>2. \A c \in CandidateState : c.ip \in Ips
  BY DEF CandidateState
<1>3. DOMAIN cands \subseteq Int
  BY DEF CandidateList
<1>4. \A i \in DOMAIN cands : IsFirstWith(ip, i, cands) <=> cands[i].ip = ip
  <2> SUFFICES ASSUME NEW i \in DOMAIN cands, cands[i].ip = ip
               PROVE  \A j \in DOMAIN cands : j < i => cands[j].ip # ip
    BY DEF IsFirstWith
  <2> QED
    BY <1>3 DEF Listed
<1>5. DOMAIN new = DOMAIN cands
  BY DEF UpdateResult
<1>6. \A i \in DOMAIN cands :
        new[i] = IF cands[i].ip = ip THEN WithResult(cands[i], m, t) ELSE cands[i]
  BY <1>4 DEF UpdateResult
<1>7. \A i \in DOMAIN cands : new[i].ip = cands[i].ip
  BY <1>1, <1>6, ResultTyped
<1>8. Listed(new)
  BY <1>5, <1>7 DEF Listed
<1> QED
  BY <1>1, <1>2, <1>5, <1>6, <1>7, <1>8

(* How update_result and mark_failure change the failure times.            *)
LEMMA Stamped ==
  ASSUME NEW cands \in CandidateList, NEW ip \in Ips, NEW m \in MeasureResult,
         NEW t \in Nat, Listed(cands), NEW new, new = UpdateResult(cands, ip, m, t)
  PROVE  /\ DOMAIN new = DOMAIN cands
         /\ \A i \in DOMAIN cands :
              /\ new[i].ip = cands[i].ip
              /\ new[i].last_fail_ts =
                   IF cands[i].ip = ip /\ ~ m.success THEN t ELSE cands[i].last_fail_ts
              /\ cands[i].last_fail_ts \in Nat
<1>1. \A c \in CandidateState :
        /\ c.last_fail_ts \in Nat
        /\ WithResult(c, m, t).last_fail_ts = IF m.success THEN c.last_fail_ts ELSE t
  BY ResultTyped DEF CandidateState
<1>2. /\ DOMAIN new = DOMAIN cands
      /\ \A i \in DOMAIN cands :
           /\ new[i] = IF cands[i].ip = ip THEN WithResult(cands[i], m, t) ELSE cands[i]
           /\ new[i].ip = cands[i].ip
           /\ cands[i] \in CandidateState
  BY OneUpdated
<1> QED
  BY <1>1, <1>2

-----------------------------------------------------------------------------
(* How score_at ranks candidates that are not shown down: of two equally   *)
(* fast ones the one with the lower latency is first; a faster one stays   *)
(* first unless it is slower to answer by 1000 ms for each kbps it gains;  *)
(* and all of them come before one that is down.                           *)
LEMMA ScoreOrder ==
  ASSUME NEW c \in CandidateState, NEW d \in CandidateState, NEW t \in Nat,
         ~ ShownDown(c, t)
  PROVE  LET faster == UnwrapOrZero(c.speed_kbps) - UnwrapOrZero(d.speed_kbps)
             slower == UnwrapOrZero(c.latency_ms) - UnwrapOrZero(d.latency_ms)
         IN  /\ ShownDown(d, t) => ScoreAt(d, t) < ScoreAt(c, t)
             /\ ~ ShownDown(d, t) =>
                  (ScoreAt(d, t) < ScoreAt(c, t) <=> slower < 1000 * faster)
<1> USE CandidatesAssumption
<1> DEFINE cs == UnwrapOrZero(c.speed_kbps)
           cl == UnwrapOrZero(c.latency_ms)
           ds == UnwrapOrZero(d.speed_kbps)
           dl == UnwrapOrZero(d.latency_ms)
<1>1. \A e \in CandidateState :
        /\ UnwrapOrZero(e.speed_kbps) \in Nat
        /\ UnwrapOrZero(e.latency_ms) \in Nat
        /\ F64Min < - UnwrapOrZero(e.latency_ms)
  <2> SUFFICES ASSUME NEW e \in CandidateState
               PROVE  /\ UnwrapOrZero(e.speed_kbps) \in Nat
                      /\ UnwrapOrZero(e.latency_ms) \in Nat
                      /\ F64Min < - UnwrapOrZero(e.latency_ms)
    OBVIOUS
  <2>1. e.speed_kbps \in Speeds \cup {None} /\ e.latency_ms \in Latencies \cup {None}
    BY DEF CandidateState
  <2>2. UnwrapOrZero(e.speed_kbps) \in Nat
    BY <2>1 DEF UnwrapOrZero
  <2>3. UnwrapOrZero(e.latency_ms) \in Latencies \cup {0}
    BY <2>1 DEF UnwrapOrZero
  <2>4. \A l \in Latencies \cup {0} : l \in Nat /\ F64Min < - l
    OBVIOUS
  <2> QED
    BY <2>2, <2>3, <2>4, Zenon
<1>2. ScoreAt(c, t) = cs * 1000 - cl
  BY DEF ScoreAt, ShownDown
<1>3. ScoreAt(d, t) = IF ShownDown(d, t) THEN F64Min ELSE ds * 1000 - dl
  BY DEF ScoreAt, ShownDown
<1>4. cs \in Nat /\ cl \in Nat /\ ds \in Nat /\ dl \in Nat /\ F64Min < - cl
  BY <1>1
<1> HIDE DEF cs, cl, ds, dl
<1>5. F64Min < cs * 1000 - cl
  BY <1>4
<1>6. ds * 1000 - dl < cs * 1000 - cl <=> cl - dl < 1000 * (cs - ds)
  BY <1>4
<1> QED
  BY <1>2, <1>3, <1>5, <1>6 DEF cs, cl, ds, dl
=============================================================================
