---------------------------- MODULE UpstreamProofs ----------------------------
(***************************************************************************)
(* Theorems about Upstream, for every number of concurrent exchanges, every *)
(* set of addresses and every choice of the timeouts: whom an exchange     *)
(* connects to, how long it can take, and what a test can report.          *)
(***************************************************************************)
EXTENDS Upstream, TLAPS

ExchangeState ==
  [at : Connecting \cup {"idle", "body", "done"}, kind : Kinds,
   asked : Ips \cup {None}, dialed : Ips \cup {None},
   age : Nat, dl : Nat, until : Nat, bytes : 0 .. Chunk,
   result : MeasureResult]

InFlight(c) == c.at \notin {"idle", "done"}

MaxAge(kind) == RequestTimeout(kind) + IF kind = "measure" THEN ReadTimeout ELSE 0

(* One exchange and its cell.  While it runs the cell has what it asked    *)
(* for; the headers come within their timeout, and from then on the age    *)
(* runs ahead of the body's clock by no more than that.                    *)
Sound(c, cell) ==
  /\ c \in ExchangeState /\ cell \in Ips \cup {None}
  /\ c.dialed # None => c.dialed = c.asked
  /\ InFlight(c) => c.asked \in Ips /\ cell = c.asked
  /\ c.at \in {"connect", "headers", "body"} => c.dialed = c.asked
  /\ c.at \in Connecting => /\ c.age <= RequestTimeout(c.kind)
                            /\ c.dl = 0 /\ c.result = NoResponse
  /\ c.at = "body" => /\ c.kind = "measure" /\ c.until = ReadTimeout
                      /\ c.dl <= ReadTimeout
                      /\ c.age <= RequestTimeout("measure") + c.dl
                      /\ c.result \in [latency_ms : Latencies, speed_kbps : {None},
                                       success : {FALSE}]
  /\ c.age <= MaxAge(c.kind)

AllSound ==
  /\ best \in Ips
  /\ current_ip \in [Exchanges -> Ips \cup {None}]
  /\ ex \in [Exchanges -> ExchangeState]
  /\ \A e \in Exchanges : Sound(ex[e], current_ip[e])

LEMMA Timeouts ==
  /\ ConnectTimeout \in Nat \ {0} /\ ReadTimeout \in Nat \ {0} /\ Chunk \in Nat \ {0}
  /\ RequestTimeout("measure") = ConnectTimeout + ReadTimeout
  /\ \A kind \in Kinds : RequestTimeout(kind) \in Nat \ {0} /\ MaxAge(kind) \in Nat
  /\ \A kind \in Kinds : RequestTimeout(kind) <= MaxAge(kind)
  /\ MaxAge("measure") = RequestTimeout("measure") + ReadTimeout
  /\ "measure" \in Kinds /\ "attempt" \in Kinds
  BY UpstreamAssumption DEF RequestTimeout, MaxAge, Kinds

LEMMA Fields ==
  ASSUME NEW c \in ExchangeState
  PROVE  /\ c.at \in Connecting \cup {"idle", "body", "done"} /\ c.kind \in Kinds
         /\ c.asked \in Ips \cup {None} /\ c.dialed \in Ips \cup {None}
         /\ c.age \in Nat /\ c.dl \in Nat /\ c.until \in Nat
         /\ c.bytes \in Nat /\ c.bytes <= Chunk
         /\ c.result \in MeasureResult
  BY UpstreamAssumption DEF ExchangeState

LEMMA IdleSound ==
  ASSUME NEW cell \in Ips \cup {None}
  PROVE  Sound(NoExchange, cell)
<1>1. NoExchange \in ExchangeState
  BY UpstreamAssumption DEF NoExchange, ExchangeState, MeasureResult, Kinds
<1>2. MaxAge(NoExchange.kind) \in Nat
  BY Timeouts DEF NoExchange
<1>3. NoExchange.at = "idle" /\ NoExchange.dialed = None /\ NoExchange.age = 0
  BY DEF NoExchange
<1> QED
  BY <1>1, <1>2, <1>3 DEF Sound, InFlight, Connecting

(* What a test can report once its body is over: a failure without a byte, *)
(* else a success.                                                         *)
LEMMA BodyReports ==
  ASSUME NEW c \in ExchangeState, c.result.latency_ms \in Latencies,
         NEW r \in BodyResult(c)
  PROVE  r \in MeasureResult
<1> USE UpstreamAssumption
<1>1. PICK s \in IF c.bytes = 0 THEN {0} ELSE IF c.dl = 0 THEN {0, 1} ELSE {1} :
        r = [latency_ms |-> c.result.latency_ms, speed_kbps |-> s, success |-> c.bytes > 0]
  BY DEF BodyResult
<1>2. c.bytes \in Nat
  BY DEF ExchangeState
<1>3. CASE c.bytes = 0
  <2>1. (c.bytes > 0) = FALSE /\ s = 0 /\ 0 \in Speeds
    BY <1>1, <1>3
  <2>2. r = [latency_ms |-> c.result.latency_ms, speed_kbps |-> 0, success |-> FALSE]
    BY <1>1, <2>1
  <2>3. r \in [latency_ms : Latencies, speed_kbps : Speeds \cap {0}, success : {FALSE}]
    BY <2>1, <2>2
  <2> QED
    BY <2>3 DEF MeasureResult
<1>4. CASE c.bytes # 0
  <2>1. (c.bytes > 0) = TRUE /\ s \in Speeds
    BY <1>1, <1>2, <1>4
  <2>2. r = [latency_ms |-> c.result.latency_ms, speed_kbps |-> s, success |-> TRUE]
    BY <1>1, <2>1
  <2>3. r \in [latency_ms : Latencies, speed_kbps : Speeds, success : {TRUE}]
    BY <2>1, <2>2
  <2> QED
    BY <2>3 DEF MeasureResult
<1> QED
  BY <1>3, <1>4

(* An exchange that is over keeps whom it dialed and how long it took.     *)
LEMMA Finished ==
  ASSUME NEW c, NEW cell, Sound(c, cell), NEW result \in MeasureResult, NEW new,
         new = [[c EXCEPT !.at = "done"] EXCEPT !.result = result]
  PROVE  Sound(new, cell)
<1>1. c \in ExchangeState
  BY DEF Sound
<1>2. /\ new \in ExchangeState /\ new.at = "done" /\ new.dialed = c.dialed
      /\ new.asked = c.asked /\ new.age = c.age /\ new.kind = c.kind
  BY <1>1 DEF ExchangeState
<1> QED
  BY <1>2 DEF Sound, InFlight, Connecting

-----------------------------------------------------------------------------
(* A step of one exchange: the new exchange and its cell are sound.        *)
LEMMA StepSound ==
  ASSUME AllSound, NEW e \in Exchanges,
         \/ \E kind \in Kinds, ip \in Ips : Start(e, kind, ip)
         \/ Resolve(e) \/ Answers(e) \/ TimesOut(e) \/ Drop(e)
  PROVE  /\ Sound(ex'[e], current_ip'[e])
         /\ \E c : ex' = [ex EXCEPT ![e] = c]
         /\ \E ip : current_ip' = [current_ip EXCEPT ![e] = ip]
         /\ best' = best
<1> USE UpstreamAssumption, CandidatesAssumption
<1> DEFINE c == ex[e]
           cell == current_ip[e]
           Good == /\ Sound(ex'[e], current_ip'[e])
                   /\ \E d : ex' = [ex EXCEPT ![e] = d]
                   /\ \E ip : current_ip' = [current_ip EXCEPT ![e] = ip]
                   /\ best' = best
<1>0. /\ c \in ExchangeState /\ cell \in Ips \cup {None} /\ Sound(c, cell)
      /\ current_ip \in [Exchanges -> Ips \cup {None}]
      /\ ex \in [Exchanges -> ExchangeState]
  BY DEF AllSound
<1>m. NoResponse \in MeasureResult /\ 0 \in 0 .. Chunk
  BY DEF MeasureResult
<1>a. ASSUME NEW d, ex' = [ex EXCEPT ![e] = d], UNCHANGED <<best, current_ip>>,
             Sound(d, cell)
      PROVE  Good
  <2>1. ex'[e] = d /\ current_ip' = [current_ip EXCEPT ![e] = current_ip[e]]
    BY <1>0, <1>a
  <2> QED
    BY <1>a, <2>1
<1>b. ASSUME NEW result \in MeasureResult, Finish(e, result), UNCHANGED <<best, current_ip>>
      PROVE  Good
  <2> DEFINE d == [[c EXCEPT !.at = "done"] EXCEPT !.result = result]
  <2>1. ex' = [ex EXCEPT ![e] = d]
    BY <1>0, <1>b DEF Finish
  <2>2. Sound(d, cell)
    BY <1>0, Finished
  <2> HIDE DEF d
  <2> QED
    BY <1>a, <1>b, <2>1, <2>2
<1>1. ASSUME NEW kind \in Kinds, NEW ip \in Ips, Start(e, kind, ip)
      PROVE  Good
  <2> DEFINE d == [NoExchange EXCEPT !.at = "resolve", !.kind = kind, !.asked = ip]
  <2>1. /\ ex' = [ex EXCEPT ![e] = d] /\ ex'[e] = d
        /\ current_ip' = [current_ip EXCEPT ![e] = ip] /\ current_ip'[e] = ip
        /\ best' = best
    BY <1>0, <1>1 DEF Start
  <2>2. /\ d \in ExchangeState /\ d.at = "resolve" /\ d.kind = kind /\ d.asked = ip
        /\ d.dialed = None /\ d.age = 0 /\ d.dl = 0 /\ d.result = NoResponse
    <3> HIDE DEF Good
    <3>1. NoExchange \in ExchangeState
      BY IdleSound, <1>0 DEF Sound
    <3>2. d \in ExchangeState
      BY <3>1 DEF ExchangeState, Connecting
    <3>3. /\ d.at = "resolve" /\ d.kind = kind /\ d.asked = ip
          /\ d.dialed = NoExchange.dialed /\ d.age = NoExchange.age
          /\ d.dl = NoExchange.dl /\ d.result = NoExchange.result
      BY <3>1 DEF ExchangeState
    <3> HIDE DEF d
    <3> QED
      BY <3>2, <3>3 DEF NoExchange
  <2> HIDE DEF d
  <2>3. Sound(d, ip)
    BY <2>2, Timeouts DEF Sound, InFlight
  <2> QED
    BY <2>1, <2>3
<1>2. CASE Resolve(e)
  <2> DEFINE d == [[c EXCEPT !.at = "connect"] EXCEPT !.dialed = c.asked]
  <2>1. c.at = "resolve" /\ cell = c.asked /\ c.asked \in Ips
    BY <1>0, <1>2 DEF Resolve, Sound, InFlight
  <2>2. ex' = [ex EXCEPT ![e] = d] /\ UNCHANGED <<best, current_ip>>
    BY <1>0, <1>2, <2>1 DEF Resolve
  <2>3. /\ d \in ExchangeState /\ d.at = "connect" /\ d.kind = c.kind /\ d.asked = c.asked
        /\ d.dialed = c.asked /\ d.age = c.age /\ d.dl = c.dl /\ d.result = c.result
    BY <1>0, <2>1 DEF ExchangeState, Connecting
  <2> HIDE DEF d
  <2>4. Sound(d, cell)
    BY <1>0, <2>1, <2>3 DEF Sound, InFlight, Connecting
  <2> QED
    BY <1>a, <2>2, <2>4
<1>3. CASE Connected(e)
  <2> DEFINE d == [c EXCEPT !.at = "headers"]
  <2>1. c.at = "connect" /\ cell = c.asked /\ c.asked \in Ips /\ c.dialed = c.asked
    BY <1>0, <1>3 DEF Connected, Sound, InFlight
  <2>2. /\ ex' = [ex EXCEPT ![e] = d]
        /\ current_ip' = [current_ip EXCEPT ![e] = cell] /\ best' = best
    BY <1>0, <1>3, <2>1 DEF Connected
  <2>3. /\ d \in ExchangeState /\ d.at = "headers" /\ d.kind = c.kind /\ d.asked = c.asked
        /\ d.dialed = c.asked /\ d.age = c.age /\ d.dl = c.dl /\ d.result = c.result
    BY <1>0, <2>1 DEF ExchangeState, Connecting
  <2> HIDE DEF d
  <2>4. Sound(d, cell)
    BY <1>0, <2>1, <2>3 DEF Sound, InFlight, Connecting
  <2>5. ex'[e] = d /\ current_ip'[e] = cell
    BY <1>0, <2>2
  <2> QED
    BY <2>2, <2>4, <2>5
<1>4. CASE RequestFails(e) \/ ConnectTimesOut(e) \/ RequestTimesOut(e)
  <2>1. NoResponse \in MeasureResult
    BY DEF MeasureResult
  <2> QED
    BY <1>b, <1>4, <2>1 DEF RequestFails, ConnectTimesOut, RequestTimesOut
<1>5. CASE AttemptAnswered(e)
  <2> DEFINE d == [c EXCEPT !.at = "done"]
  <2>1. ex' = [ex EXCEPT ![e] = d] /\ UNCHANGED <<best, current_ip>>
    BY <1>0, <1>5 DEF AttemptAnswered
  <2>2. /\ d \in ExchangeState /\ d.at = "done" /\ d.kind = c.kind /\ d.asked = c.asked
        /\ d.dialed = c.dialed /\ d.age = c.age
    BY <1>0 DEF ExchangeState
  <2> HIDE DEF d
  <2>3. Sound(d, cell)
    BY <1>0, <2>2 DEF Sound, InFlight, Connecting
  <2> QED
    BY <1>a, <2>1, <2>3
<1>6. ASSUME c.at = "headers", c.kind = "measure"
      PROVE  c.age \in Latencies /\ c.age \in Nat
  BY <1>0, <1>6, Timeouts DEF Sound, Connecting, ExchangeState
<1>7. CASE StatusNotSuccess(e)
  <2> DEFINE r == [latency_ms |-> c.age, speed_kbps |-> None, success |-> FALSE]
  <2>1. r \in MeasureResult
    BY <1>6, <1>7 DEF StatusNotSuccess, MeasureResult
  <2>2. Finish(e, r) /\ UNCHANGED <<best, current_ip>>
    BY <1>7 DEF StatusNotSuccess
  <2> HIDE DEF r
  <2> QED
    BY <1>b, <2>1, <2>2
<1>8. CASE BodyStarts(e)
  <2> DEFINE res == [c.result EXCEPT !.latency_ms = c.age]
             d == [c EXCEPT !.at = "body", !.until = ReadTimeout, !.result = res]
  <2>1. /\ c.at = "headers" /\ c.kind = "measure" /\ c.result = NoResponse
        /\ c.age <= RequestTimeout("measure")
    BY <1>0, <1>8 DEF BodyStarts, Sound, Connecting
  <2>2. res \in [latency_ms : Latencies, speed_kbps : {None}, success : {FALSE}]
    <3>1. res = [NoResponse EXCEPT !.latency_ms = c.age] /\ c.age \in Latencies
      BY <1>6, <2>1
    <3> HIDE DEF res, c
    <3> QED
      BY <3>1 DEF NoResponse
  <2>3. res \in MeasureResult
    BY <2>2 DEF MeasureResult
  <2>4. Remaining(0) = ReadTimeout
    BY Timeouts DEF Remaining
  <2>5. ex' = [ex EXCEPT ![e] = d] /\ UNCHANGED <<best, current_ip>>
    BY <1>0, <1>8, <2>4 DEF BodyStarts, ExchangeState
  <2> HIDE DEF res
  <2>6. /\ d \in ExchangeState /\ d.at = "body" /\ d.kind = c.kind /\ d.asked = c.asked
        /\ d.dialed = c.dialed /\ d.age = c.age /\ d.dl = c.dl /\ d.until = ReadTimeout
        /\ d.result = res
    BY <1>0, <2>3 DEF ExchangeState
  <2>7. c.dl = 0
    BY <1>0, <2>1 DEF Sound, Connecting
  <2>8. Sound(d, cell)
    <3>1. c.age \in Nat /\ c.age <= MaxAge(c.kind) /\ c.dialed = c.asked
          /\ c.asked \in Ips /\ cell = c.asked
      BY <1>0, <2>1, Fields DEF Sound, InFlight
    <3>2. RequestTimeout("measure") \in Nat /\ ReadTimeout \in Nat
      BY Timeouts
    <3>3. d.age = c.age /\ d.dl = 0 /\ d.kind = c.kind
      BY <2>6, <2>7
    <3>4. c.age <= RequestTimeout("measure")
      BY <2>1
    <3> HIDE DEF c, d
    <3>5. /\ d.age <= RequestTimeout("measure") + d.dl /\ d.dl <= ReadTimeout
          /\ d.age <= MaxAge(d.kind)
      BY <3>1, <3>2, <3>3, <3>4
    <3> QED
      BY <1>0, <2>1, <2>2, <2>6, <3>1, <3>5 DEF Sound, InFlight, Connecting
  <2> QED
    BY <1>a, <2>5, <2>8
<1>9. ASSUME c.at = "body" PROVE c.result.latency_ms \in Latencies
  BY <1>0, <1>9 DEF Sound
<1>10. ASSUME NEW n \in 1 .. MaxPiece, Piece(e, n)
       PROVE  Good
  <2> DEFINE m == Min({c.bytes + n, Chunk})
             d == [c EXCEPT !.bytes = m, !.until = c.dl + Remaining(c.dl)]
  <2>1. c.at = "body" /\ c.dl + Remaining(c.dl) = ReadTimeout
    <3>1. c.dl \in Nat /\ c.at = "body"
      BY <1>0, <1>10, Fields DEF Piece
    <3> HIDE DEF c
    <3> QED
      BY <3>1, Timeouts DEF Remaining
  <2>2. m \in 0 .. Chunk
    <3>1. c.bytes \in Nat /\ Chunk \in Nat /\ n \in Nat
      BY <1>0, Fields
    <3> DEFINE b == c.bytes + n
               S == {b, Chunk}
    <3>2. b \in Nat
      BY <3>1
    <3> HIDE DEF b
    <3>3. \E x \in S : \A y \in S : x <= y
      BY <3>1, <3>2
    <3>4. Min(S) \in S /\ \A y \in S : Min(S) <= y
      BY <3>3 DEF Min
    <3>5. Min(S) \in 0 .. Chunk
      BY <3>1, <3>2, <3>4
    <3> QED
      BY <3>5 DEF b
  <2>3. \/ ex' = [ex EXCEPT ![e] = d]
        \/ \E r \in BodyResult(d) :
             ex' = [ex EXCEPT ![e] = [[d EXCEPT !.at = "done"] EXCEPT !.result = r]]
    BY <1>10 DEF Piece
  <2> HIDE DEF m
  <2>4. /\ d \in ExchangeState /\ d.at = "body" /\ d.kind = c.kind /\ d.asked = c.asked
        /\ d.dialed = c.dialed /\ d.age = c.age /\ d.dl = c.dl /\ d.until = ReadTimeout
        /\ d.result = c.result
    BY <1>0, <2>1, <2>2, Timeouts DEF ExchangeState
  <2> HIDE DEF d
  <2>5. Sound(d, cell)
    BY <1>0, <2>1, <2>4 DEF Sound, InFlight, Connecting
  <2>6. ASSUME NEW r \in BodyResult(d)
        PROVE  Sound([[d EXCEPT !.at = "done"] EXCEPT !.result = r], cell)
    <3>1. r \in MeasureResult
      BY <1>9, <2>1, <2>4, BodyReports
    <3> QED
      BY <2>5, <3>1, Finished
  <2>7. UNCHANGED <<best, current_ip>>
    BY <1>10 DEF Piece
  <2> QED
    BY <1>a, <2>3, <2>5, <2>6, <2>7
<1>11. CASE BodyEnds(e) \/ ReadTimesOut(e)
  <2>1. PICK r \in BodyResult(c) : Finish(e, r)
    BY <1>11 DEF BodyEnds, ReadTimesOut
  <2>2. c.at = "body" /\ UNCHANGED <<best, current_ip>>
    BY <1>11 DEF BodyEnds, ReadTimesOut
  <2>3. r \in MeasureResult
    BY <1>0, <1>9, <2>2, BodyReports
  <2> QED
    BY <1>b, <2>1, <2>2, <2>3
<1>12. CASE Drop(e)
  <2>1. ex' = [ex EXCEPT ![e] = NoExchange] /\ UNCHANGED <<best, current_ip>>
    BY <1>12 DEF Drop
  <2> QED
    BY <1>0, <1>a, <2>1, IdleSound
<1> QED
  BY <1>1, <1>2, <1>3, <1>4, <1>5, <1>7, <1>8, <1>10, <1>11, <1>12 DEF Answers, TimesOut

(* A tick: what is due has fired, so a clock that moves was short of its   *)
(* limit.                                                                  *)
LEMMA TickSound ==
  ASSUME AllSound, Tick, NEW e \in Exchanges
  PROVE  Sound(ex'[e], current_ip'[e])
<1> DEFINE c == ex[e]
           cell == current_ip[e]
           d == Aged(c)
<1>1. c \in ExchangeState /\ Sound(c, cell) /\ ~ Due(e) /\ c.at # "resolve"
  BY DEF AllSound, Tick
<1>2. ex'[e] = (IF Running(e) THEN d ELSE c) /\ current_ip'[e] = cell
  BY DEF Tick
<1>3. ASSUME Running(e) PROVE Sound(d, cell)
  <2>1. /\ d \in ExchangeState /\ d.at = c.at /\ d.kind = c.kind /\ d.asked = c.asked
        /\ d.dialed = c.dialed /\ d.age = c.age + 1 /\ d.until = c.until
        /\ d.dl = (IF c.at = "body" THEN c.dl + 1 ELSE c.dl)
        /\ d.result = c.result
        /\ c.age \in Nat /\ c.dl \in Nat /\ c.kind \in Kinds
    <3>1. c.age \in Nat /\ c.dl \in Nat /\ c.kind \in Kinds
      BY <1>1, Fields
    <3> DEFINE age == c.age + 1
               dl == IF c.at = "body" THEN c.dl + 1 ELSE c.dl
    <3>2. d = [c EXCEPT !.age = age, !.dl = dl]
      BY DEF Aged
    <3>3. age \in Nat /\ dl \in Nat
      BY <3>1
    <3>4. c \in ExchangeState
      BY <1>1
    <3> HIDE DEF d, age, dl
    <3>5. /\ d \in ExchangeState /\ d.at = c.at /\ d.kind = c.kind /\ d.asked = c.asked
          /\ d.dialed = c.dialed /\ d.age = age /\ d.until = c.until /\ d.dl = dl
          /\ d.result = c.result
      BY <3>2, <3>3, <3>4 DEF ExchangeState
    <3> QED
      BY <3>1, <3>5 DEF age, dl
  <2>2. c.at \in Connecting \cup {"body"}
    BY <1>1, <1>3 DEF Running, ExchangeState
  <2> HIDE DEF d
  <2>3. CASE c.at \in Connecting
    <3>1. c.age # RequestTimeout(c.kind) /\ c.age <= RequestTimeout(c.kind)
      BY <1>1, <2>3 DEF Due, Sound
    <3>2. d.age <= RequestTimeout(c.kind) /\ d.age <= MaxAge(c.kind)
      BY <2>1, <3>1, Timeouts
    <3> QED
      BY <1>1, <2>1, <2>3, <3>2 DEF Sound, InFlight, Connecting
  <2>4. CASE c.at = "body"
    <3>1. c.dl # ReadTimeout /\ c.dl <= ReadTimeout /\ c.kind = "measure"
          /\ c.age <= RequestTimeout("measure") + c.dl
      BY <1>1, <2>4 DEF Due, Sound
    <3>2. /\ d.dl <= ReadTimeout /\ d.age <= RequestTimeout("measure") + d.dl
          /\ d.age <= MaxAge("measure")
      BY <2>1, <2>4, <3>1, Timeouts
    <3> QED
      BY <1>1, <2>1, <2>4, <3>1, <3>2 DEF Sound, InFlight, Connecting
  <2> QED
    BY <2>2, <2>3, <2>4
<1> QED
  BY <1>1, <1>2, <1>3

LEMMA AllSoundInductive == Spec => []AllSound
<1>1. Init => AllSound
  <2> SUFFICES ASSUME Init PROVE AllSound
    OBVIOUS
  <2>1. NoExchange \in ExchangeState /\ Sound(NoExchange, None)
    BY IdleSound DEF Sound
  <2> QED
    BY <2>1 DEF Init, AllSound
<1>2. AllSound /\ [Next]_vars => AllSound'
  <2> SUFFICES ASSUME AllSound, [Next]_vars PROVE AllSound'
    OBVIOUS
  <2>1. CASE RankingChanges
    BY <2>1 DEF RankingChanges, AllSound
  <2>2. ASSUME NEW e \in Exchanges,
               \/ \E kind \in Kinds, ip \in Ips : Start(e, kind, ip)
               \/ Resolve(e) \/ Answers(e) \/ TimesOut(e) \/ Drop(e)
        PROVE  AllSound'
    <3>1. /\ Sound(ex'[e], current_ip'[e])
          /\ \E c : ex' = [ex EXCEPT ![e] = c]
          /\ \E ip : current_ip' = [current_ip EXCEPT ![e] = ip]
          /\ best' = best
      BY <2>2, StepSound
    <3>2. PICK c : ex' = [ex EXCEPT ![e] = c]
      BY <3>1
    <3>3. PICK ip : current_ip' = [current_ip EXCEPT ![e] = ip]
      BY <3>1
    <3>4. Sound(c, ip) /\ c \in ExchangeState /\ ip \in Ips \cup {None}
      BY <3>1, <3>2, <3>3 DEF AllSound, Sound
    <3> QED
      BY <3>1, <3>2, <3>3, <3>4 DEF AllSound
  <2>3. CASE Tick
    <3>1. \A e \in Exchanges : Sound(ex'[e], current_ip'[e])
      BY <2>3, TickSound
    <3>2. ex' \in [Exchanges -> ExchangeState]
      <4>1. \A e \in Exchanges : ex'[e] \in ExchangeState
        BY <3>1 DEF Sound
      <4>2. ex' = [e \in Exchanges |-> ex'[e]]
        BY <2>3 DEF Tick
      <4> QED
        BY <4>1, <4>2
    <3> QED
      BY <2>3, <3>1, <3>2 DEF Tick, AllSound
  <2>4. CASE UNCHANGED vars
    BY <2>4 DEF vars, AllSound
  <2> QED
    BY <2>1, <2>2, <2>3, <2>4 DEF Next
<1> QED
  BY <1>1, <1>2, PTL DEF Spec

-----------------------------------------------------------------------------
(* What a test reports is one of the results that Candidates folds into a  *)
(* list, whenever its body ends, breaks off or is throttled (measure).     *)
THEOREM UpstreamTyped == Spec => []TypeOK
<1>1. AllSound => TypeOK
  BY DEF AllSound, TypeOK, ExchangeState
<1> QED
  BY <1>1, AllSoundInductive, PTL

(* An exchange connects to the address it asked for and reports that one,  *)
(* whatever the others of its task ask for and however the ranking changes *)
(* before the connector runs (request_with_ip, resolve).                   *)
THEOREM DialsTheAsked == Spec => []DialsWhatWasAsked
<1>1. AllSound => DialsWhatWasAsked
  BY DEF AllSound, Sound, InFlight, Running, DialsWhatWasAsked
<1> QED
  BY <1>1, AllSoundInductive, PTL

(* An address that is silent or trickles holds an exchange up no longer    *)
(* than its timeouts add up to (request_upstream, measure).                *)
THEOREM ExchangesEndInTime == Spec => []EndsInTime
<1>1. AllSound => EndsInTime
  BY DEF AllSound, Sound, MaxAge, EndsInTime
<1> QED
  BY <1>1, AllSoundInductive, PTL
=============================================================================
