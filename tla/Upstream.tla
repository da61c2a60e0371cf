------------------------------- MODULE Upstream -------------------------------
(***************************************************************************)
(* Exchanges with CDN addresses: request_upstream (one attempt of the      *)
(* proxy handler, src/proxy.rs) and measure (one speed test,               *)
(* src/speedtest.rs), down to the connector.  Both name the address they   *)
(* want in a task-local cell, CURRENT_IP, that is set for the time of one  *)
(* future (request_with_ip); the connector reads it when hyper calls it.   *)
(* All the measurements of a wave run in one task, polled in turn.         *)
(*                                                                         *)
(* Time is counted in ticks from the start of each exchange.  A timer that *)
(* is due fires before time goes on.  The CDN may refuse, stay silent at   *)
(* any point, trickle, or break off.                                       *)
(***************************************************************************)
EXTENDS Candidates, FiniteSetsExt

CONSTANTS
  Exchanges,       \* futures that may be running at a time
  ConnectTimeout,  \* connect_timeout_ms
  ReadTimeout,     \* read_timeout_ms
  HeaderTimeout,   \* UPSTREAM_HEADER_TIMEOUT
  Chunk,           \* test_chunk_bytes, in pieces
  MaxPiece         \* bound on what one frame of a body brings

ASSUME UpstreamAssumption ==
  /\ ConnectTimeout \in Nat \ {0} /\ ReadTimeout \in Nat \ {0}
  /\ HeaderTimeout \in Nat \ {0}
  /\ Chunk \in Nat \ {0}                \* clamp(1, total_size)
  /\ MaxPiece \in Nat \ {0}
  /\ {0, 1} = Speeds                    \* none, and some
  /\ Latencies = 0 .. ConnectTimeout + ReadTimeout

VARIABLES
  best,         \* the address best_ip would answer now
  current_ip,   \* the CURRENT_IP cell of each future
  ex            \* per exchange: where it is, its locals and its result

vars == <<best, current_ip, ex>>

Kinds == {"attempt", "measure"}

NoExchange == [at |-> "idle", kind |-> "attempt", asked |-> None, dialed |-> None,
               age |-> 0, dl |-> 0, until |-> 0, bytes |-> 0, result |-> NoResponse]

Connecting == {"resolve", "connect", "headers"}

(* A result is one of those that Candidates says a measurement can have:   *)
(* in particular a body that broke off or was throttled is a success once  *)
(* a byte of it has come (the comment at the end of measure).              *)
TypeOK ==
  /\ best \in Ips
  /\ current_ip \in [Exchanges -> Ips \cup {None}]
  /\ ex \in [Exchanges ->
       [at : Connecting \cup {"idle", "body", "done"}, kind : Kinds,
        asked : Ips \cup {None}, dialed : Ips \cup {None},
        age : Nat, dl : Nat, until : Nat, bytes : 0 .. Chunk,
        result : MeasureResult]]

Init ==
  /\ best \in Ips
  /\ current_ip = [e \in Exchanges |-> None]
  /\ ex = [e \in Exchanges |-> NoExchange]

Running(e) == ex[e].at \notin {"idle", "done"}

(* Connect and headers together. *)
RequestTimeout(kind) ==
  IF kind = "attempt" THEN HeaderTimeout ELSE ConnectTimeout + ReadTimeout

Finish(e, result) == ex' = [ex EXCEPT ![e].at = "done", ![e].result = result]

-----------------------------------------------------------------------------
(* Reports, pins and the clock change what best_ip would answer. *)
RankingChanges ==
  /\ best' \in Ips \ {best}
  /\ UNCHANGED <<current_ip, ex>>

(* Mutant of Start: the cell belongs to the task, not to the future. *)
Start_OneCell(e, kind, ip) ==
  /\ ~ Running(e)
  /\ current_ip' = [f \in Exchanges |-> ip]
  /\ ex' = [ex EXCEPT ![e] = [NoExchange EXCEPT !.at = "resolve", !.kind = kind,
                                                !.asked = ip]]
  /\ UNCHANGED best

(* The handler asks for the best address, measure for the one it tests. *)
Start(e, kind, ip) ==
  /\ ~ Running(e)
  /\ kind = "attempt" => ip = best
  /\ current_ip' = [current_ip EXCEPT ![e] = ip]
  /\ ex' = [ex EXCEPT ![e] = [NoExchange EXCEPT !.at = "resolve", !.kind = kind,
                                                !.asked = ip]]
  /\ UNCHANGED best

(* UpstreamConnector::call and Selector::resolve.  Without an address in   *)
(* the cell it would be the best one of now.                               *)
Resolve(e) ==
  /\ ex[e].at = "resolve"
  /\ ex' = [ex EXCEPT ![e].at = "connect",
                      ![e].dialed = IF current_ip[e] = None THEN best ELSE current_ip[e]]
  /\ UNCHANGED <<best, current_ip>>

(* The cell keeps the address that was connected to, for request_with_ip   *)
(* to return.                                                              *)
Connected(e) ==
  /\ ex[e].at = "connect" /\ ex[e].age <= ConnectTimeout
  /\ current_ip' = [current_ip EXCEPT ![e] = ex[e].dialed]
  /\ ex' = [ex EXCEPT ![e].at = "headers"]
  /\ UNCHANGED best

(* Refused, or broken off before the headers. *)
RequestFails(e) ==
  /\ ex[e].at \in {"connect", "headers"}
  /\ Finish(e, NoResponse)
  /\ UNCHANGED <<best, current_ip>>

ConnectTimesOut(e) ==
  /\ ex[e].at = "connect" /\ ex[e].age = ConnectTimeout
  /\ Finish(e, NoResponse)
  /\ UNCHANGED <<best, current_ip>>

(* Mutant of RequestTimesOut: only the connect is capped. *)
RequestTimesOut_ConnectOnly(e) ==
  /\ ex[e].at = "connect" /\ ex[e].age = RequestTimeout(ex[e].kind)
  /\ Finish(e, NoResponse)
  /\ UNCHANGED <<best, current_ip>>

RequestTimesOut(e) ==
  /\ ex[e].at \in Connecting /\ ex[e].age = RequestTimeout(ex[e].kind)
  /\ Finish(e, NoResponse)
  /\ UNCHANGED <<best, current_ip>>

-----------------------------------------------------------------------------
(* Response headers.  An attempt of the proxy is over: its status does not *)
(* matter and its body is Proxy's.  A measurement goes on with the body,   *)
(* or ends there if the status is not a success.                           *)
AttemptAnswered(e) ==
  /\ ex[e].at = "headers" /\ ex[e].kind = "attempt"
  /\ ex' = [ex EXCEPT ![e].at = "done"]
  /\ UNCHANGED <<best, current_ip>>

StatusNotSuccess(e) ==
  /\ ex[e].at = "headers" /\ ex[e].kind = "measure"
  /\ Finish(e, [latency_ms |-> ex[e].age, speed_kbps |-> None, success |-> FALSE])
  /\ UNCHANGED <<best, current_ip>>

(* Mutant of Remaining: each read may take the whole read timeout. *)
Remaining_Whole(dl) == ReadTimeout

(* What is left of the read timeout for the next read. *)
Remaining(dl) == ReadTimeout - dl

BodyStarts(e) ==
  /\ ex[e].at = "headers" /\ ex[e].kind = "measure"
  /\ ex' = [ex EXCEPT ![e].at = "body", ![e].until = Remaining(0),
                      ![e].result.latency_ms = ex[e].age]
  /\ UNCHANGED <<best, current_ip>>

(* Mutant of BodyResult: only a whole chunk is a success. *)
BodyResult_WholeChunk(c) ==
  {[latency_ms |-> c.result.latency_ms, speed_kbps |-> s, success |-> c.bytes = Chunk] :
     s \in IF c.bytes = 0 THEN {0} ELSE IF c.dl = 0 THEN {0, 1} ELSE {1}}

(* The speed is bytes over time, 0 if no time has passed. *)
BodyResult(c) ==
  {[latency_ms |-> c.result.latency_ms, speed_kbps |-> s, success |-> c.bytes > 0] :
     s \in IF c.bytes = 0 THEN {0} ELSE IF c.dl = 0 THEN {0, 1} ELSE {1}}

(* A piece comes in; at the head of the loop the test may turn out to be   *)
(* over, with enough bytes or enough time.                                 *)
Piece(e, n) ==
  /\ ex[e].at = "body" /\ ex[e].dl <= ex[e].until
  /\ LET c == [ex[e] EXCEPT !.bytes = Min({@ + n, Chunk}),
                            !.until = ex[e].dl + Remaining(ex[e].dl)]
         over == c.bytes >= Chunk \/ Remaining(c.dl) <= 0
     IN  \/ /\ ~ over
            /\ ex' = [ex EXCEPT ![e] = c]
         \/ /\ over
            /\ \E r \in BodyResult(c) :
                 ex' = [ex EXCEPT ![e] = [c EXCEPT !.at = "done", !.result = r]]
  /\ UNCHANGED <<best, current_ip>>

(* The body ends or breaks off. *)
BodyEnds(e) ==
  /\ ex[e].at = "body"
  /\ \E r \in BodyResult(ex[e]) : Finish(e, r)
  /\ UNCHANGED <<best, current_ip>>

ReadTimesOut(e) ==
  /\ ex[e].at = "body" /\ ex[e].dl = ex[e].until
  /\ \E r \in BodyResult(ex[e]) : Finish(e, r)
  /\ UNCHANGED <<best, current_ip>>

-----------------------------------------------------------------------------
(* The client of the handler goes away. *)
Drop(e) ==
  /\ Running(e) /\ ex[e].kind = "attempt"
  /\ ex' = [ex EXCEPT ![e] = NoExchange]
  /\ UNCHANGED <<best, current_ip>>

Due(e) ==
  \/ ex[e].at = "connect" /\ ex[e].age = ConnectTimeout
  \/ ex[e].at \in Connecting /\ ex[e].age = RequestTimeout(ex[e].kind)
  \/ ex[e].at = "body" /\ ex[e].dl = ex[e].until

Aged(c) ==
  [c EXCEPT !.age = @ + 1, !.dl = IF c.at = "body" THEN @ + 1 ELSE @]

Tick ==
  /\ \A e \in Exchanges : ~ Due(e) /\ ex[e].at # "resolve"
  /\ \E e \in Exchanges : Running(e)
  /\ ex' = [e \in Exchanges |-> IF Running(e) THEN Aged(ex[e]) ELSE ex[e]]
  /\ UNCHANGED <<best, current_ip>>

TimesOut(e) == ConnectTimesOut(e) \/ RequestTimesOut(e) \/ ReadTimesOut(e)

Answers(e) ==
  \/ Connected(e)
  \/ RequestFails(e)
  \/ AttemptAnswered(e)
  \/ StatusNotSuccess(e)
  \/ BodyStarts(e)
  \/ \E n \in 1 .. MaxPiece : Piece(e, n)
  \/ BodyEnds(e)

Next ==
  \/ RankingChanges
  \/ \E e \in Exchanges, kind \in Kinds, ip \in Ips : Start(e, kind, ip)
  \/ \E e \in Exchanges : Resolve(e)
  \/ \E e \in Exchanges : Answers(e)
  \/ \E e \in Exchanges : TimesOut(e)
  \/ \E e \in Exchanges : Drop(e)
  \/ Tick

(* Time passes however many exchanges begin and end meanwhile, due timers  *)
(* fire and a started future is polled.  Nothing is assumed of the network. *)
Fairness ==
  /\ SF_vars(Tick)
  /\ \A e \in Exchanges : WF_vars(Resolve(e)) /\ WF_vars(TimesOut(e))

Spec == Init /\ [][Next]_vars /\ Fairness

-----------------------------------------------------------------------------
(* Every exchange connects to the address it asked for, and reports that   *)
(* one, whatever other futures of its task ask for and however the ranking *)
(* changes before the connector is called (request_with_ip, resolve).      *)
DialsWhatWasAsked ==
  \A e \in Exchanges :
    /\ ex[e].dialed # None => ex[e].dialed = ex[e].asked
    /\ Running(e) => current_ip[e] = ex[e].asked

(* A silent or trickling address holds up an exchange no longer than its   *)
(* timeouts add up to: a proxied attempt for the header timeout, a speed   *)
(* test for connect + read until the headers and one read timeout after.   *)
EndsInTime ==
  \A e \in Exchanges :
    ex[e].age <= RequestTimeout(ex[e].kind)
                 + IF ex[e].kind = "measure" THEN ReadTimeout ELSE 0

(* Every exchange that was begun ends, by its timers if nothing else: what *)
(* SpeedTest assumes of a wave and Proxy of an attempt.                    *)
EveryExchangeEnds == \A e \in Exchanges : Running(e) ~> ~ Running(e)
=============================================================================
