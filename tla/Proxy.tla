-------------------------------- MODULE Proxy --------------------------------
(***************************************************************************)
(* Proxied requests (proxy_handler, CountingStream and finalize,           *)
(* src/proxy.rs) running against the shared Selector while dashboards pin, *)
(* speed tests report and time passes.                                     *)
(*                                                                         *)
(* A step ends where the handler awaits: it picks an address, sends the    *)
(* request there, gets a response or an error, marks the failure and picks *)
(* again, at most three times for GET and HEAD and once for the rest; the  *)
(* response is streamed by a CountingStream, which writes the request's    *)
(* record when it ends, fails or is dropped.  The client can go away at    *)
(* any await, which drops the handler or the stream.                       *)
(*                                                                         *)
(* Requests to hosts that are not managed are answered before any of this. *)
(* The activity guard of a request is in Metrics.tla.                      *)
(***************************************************************************)
EXTENDS Selector, FiniteSets

CONSTANTS
  Requests,       \* proxied requests; each is made once
  Methods,        \* their methods, of {"GET", "POST"}
  HeaderTimeout,  \* UPSTREAM_HEADER_TIMEOUT, in seconds
  Statuses,       \* the statuses an upstream answers with
  MaxChunks       \* bound on the length of a body

ASSUME ProxyAssumption ==
  /\ Methods \subseteq {"GET", "POST"}
  /\ HeaderTimeout \in Nat \ {0}
  /\ HeaderTimeout <= Penalty       \* 30 s and 60 s
  /\ None \notin {"upstream", "body"}
  /\ Statuses \subseteq Nat /\ None \notin Statuses
  /\ MaxChunks \in Nat

VARIABLES
  req,       \* per request: the locals of its handler, then of its stream
  written,   \* per request: the records sent to the database writer
  failed     \* history: per request, the addresses it marked since its
             \* group's list was built

selectorVars == <<now, pinned_ip, candidates, pin, reported>>
allVars == <<selectorVars, req, written, failed>>

BadGateway == 502

(* Mutant of MaxAttempts: 0 ..= max_attempts. *)
MaxAttempts_OffByOne(r) == IF req[r].method = "GET" THEN 4 ELSE 1

MaxAttempts(r) == IF req[r].method = "GET" THEN 3 ELSE 1

ProxyTypeOK ==
  /\ req \in [Requests ->
       [at : {"new", "pick", "sent", "mark", "reply", "stream", "ended", "closed", "gone"},
        group : Groups \cup {None}, method : Methods \cup {None},
        attempts : 0 .. 3, ip : Ips \cup {None},
        started : Nat, t0 : Nat,
        status : Statuses \cup {None}, error : {None, "upstream", "body"},
        bytes : 0 .. MaxChunks, recorded : BOOLEAN]]
  /\ written \in [Requests ->
       Seq([status : Statuses \cup {BadGateway}, bytes : 0 .. MaxChunks,
            upstream_ip : Ips \cup {None}, error : {None, "upstream", "body"}])]
  /\ failed \in [Requests -> SUBSET Ips]

NewRequest ==
  [at |-> "new", group |-> None, method |-> None, attempts |-> 0, ip |-> None,
   started |-> 0, t0 |-> 0, status |-> None, error |-> None, bytes |-> 0, recorded |-> FALSE]

ProxyInit ==
  /\ Init
  /\ req = [r \in Requests |-> NewRequest]
  /\ written = [r \in Requests |-> << >>]
  /\ failed = [r \in Requests |-> {}]

-----------------------------------------------------------------------------
Arrive(r, g, method) ==
  /\ req[r].at = "new"
  /\ req' = [req EXCEPT ![r].at = "pick", ![r].group = g, ![r].method = method,
                        ![r].started = now]
  /\ UNCHANGED <<selectorVars, written, failed>>

(* best_ip, and the attempt it is for *)
Pick(r) ==
  /\ req[r].at = "pick"
  /\ req' = [req EXCEPT ![r].at = "sent",
                        ![r].attempts = @ + 1,
                        ![r].ip = BestIp(candidates[req[r].group], now),
                        ![r].t0 = now]
  /\ UNCHANGED <<selectorVars, written, failed>>

(* Response headers, of any status. *)
Answer(r, status) ==
  /\ req[r].at = "sent"
  /\ req' = [req EXCEPT ![r].at = "reply", ![r].status = status]
  /\ UNCHANGED <<selectorVars, written, failed>>

(* No connection, a broken one, or no headers within HeaderTimeout. *)
AttemptFails(r) ==
  /\ req[r].at = "sent"
  /\ req' = [req EXCEPT ![r].at = "mark", ![r].error = "upstream"]
  /\ UNCHANGED <<selectorVars, written, failed>>

(* Mutant of MarkFailure: one attempt too many. *)
MarkFailure_OneMore(r) ==
  /\ req[r].at = "mark"
  /\ Report(req[r].group, req[r].ip, NoResponse)
  /\ failed' = [failed EXCEPT ![r] = @ \cup {req[r].ip}]
  /\ req' = [req EXCEPT ![r].at =
               IF req[r].attempts <= MaxAttempts(r) THEN "pick" ELSE "reply"]
  /\ UNCHANGED written

MarkFailure(r) ==
  /\ req[r].at = "mark"
  /\ Report(req[r].group, req[r].ip, NoResponse)
  /\ failed' = [failed EXCEPT ![r] = @ \cup {req[r].ip}]
  /\ req' = [req EXCEPT ![r].at =
               IF req[r].attempts < MaxAttempts(r) THEN "pick" ELSE "reply"]
  /\ UNCHANGED written

-----------------------------------------------------------------------------
(* Mutant of Finalize: recorded is not looked at. *)
Finalize_Always(r, error) ==
  written' = [written EXCEPT ![r] = Append(@,
                [status |-> IF req[r].status = None THEN BadGateway ELSE req[r].status,
                 bytes |-> req[r].bytes,
                 upstream_ip |-> IF req[r].status = None THEN None ELSE req[r].ip,
                 error |-> error])]

(* finalize: the first call sends the record, the others do nothing.       *)
Finalize(r, error) ==
  written' = IF req[r].recorded THEN written
             ELSE [written EXCEPT ![r] = Append(@,
                     [status |-> IF req[r].status = None THEN BadGateway ELSE req[r].status,
                      bytes |-> req[r].bytes,
                      upstream_ip |-> IF req[r].status = None THEN None ELSE req[r].ip,
                      error |-> error])]

(* The handler returns: a stream for the body, or 502. *)
ReplyWithBody(r) ==
  /\ req[r].at = "reply" /\ req[r].status # None
  /\ req' = [req EXCEPT ![r].at = "stream"]
  /\ UNCHANGED <<selectorVars, written, failed>>

ReplyUnavailable(r) ==
  /\ req[r].at = "reply" /\ req[r].status = None
  /\ Finalize(r, req[r].error)
  /\ req' = [req EXCEPT ![r].at = "closed", ![r].recorded = TRUE]
  /\ UNCHANGED <<selectorVars, failed>>

(* CountingStream::poll_next *)
Chunk(r) ==
  /\ req[r].at = "stream" /\ req[r].bytes < MaxChunks
  /\ req' = [req EXCEPT ![r].bytes = @ + 1]
  /\ UNCHANGED <<selectorVars, written, failed>>

(* Mutant of BodyFails: finalize is called before the error is stored. *)
BodyFails_FinalizesFirst(r) ==
  /\ req[r].at = "stream"
  /\ Finalize(r, req[r].error)
  /\ req' = [req EXCEPT ![r].at = "ended", ![r].error = "body", ![r].recorded = TRUE]
  /\ UNCHANGED <<selectorVars, failed>>

BodyFails(r) ==
  /\ req[r].at = "stream"
  /\ Finalize(r, "body")
  /\ req' = [req EXCEPT ![r].at = "ended", ![r].error = "body", ![r].recorded = TRUE]
  /\ UNCHANGED <<selectorVars, failed>>

BodyEnds(r) ==
  /\ req[r].at = "stream"
  /\ Finalize(r, req[r].error)
  /\ req' = [req EXCEPT ![r].at = "ended", ![r].recorded = TRUE]
  /\ UNCHANGED <<selectorVars, failed>>

(* CountingStream::drop, after its end or because the client went away.    *)
DropStream(r) ==
  /\ req[r].at \in {"stream", "ended"}
  /\ Finalize(r, req[r].error)
  /\ req' = [req EXCEPT ![r].at = "closed", ![r].recorded = TRUE]
  /\ UNCHANGED <<selectorVars, failed>>

(* The client goes away while the handler awaits: its future is dropped.   *)
Cancel(r) ==
  /\ req[r].at \in {"pick", "sent", "mark"}
  /\ req' = [req EXCEPT ![r].at = "gone"]
  /\ UNCHANGED <<selectorVars, written, failed>>

Handle(r) ==
  \/ Pick(r)
  \/ \E status \in Statuses : Answer(r, status)
  \/ AttemptFails(r)
  \/ MarkFailure(r)
  \/ ReplyWithBody(r)
  \/ ReplyUnavailable(r)

-----------------------------------------------------------------------------
(* The rest of the program. *)
DashboardPins ==
  \/ /\ \/ \E p \in Pinners, g \in Groups, ip \in Ips \cup {None} : PinStart(p, g, ip)
        \/ \E p \in Pinners : PinWritePinnedIp(p)
     /\ UNCHANGED <<req, written, failed>>
  \/ \E p \in Pinners :
       /\ PinWriteCandidates(p)
       /\ failed' = [r \in Requests |->
                       IF req[r].group = pin[p].group THEN {} ELSE failed[r]]
       /\ UNCHANGED <<req, written>>

SpeedTestReports ==
  /\ \E g \in Groups, ip \in Ips, m \in MeasureResult : Report(g, ip, m)
  /\ UNCHANGED <<req, written, failed>>

(* An attempt is over when its header timeout expires, and what a handler  *)
(* does between two awaits takes no time.                                  *)
TimePasses ==
  /\ \A r \in Requests : /\ req[r].at \notin {"pick", "mark", "reply"}
                         /\ req[r].at = "sent" => now < req[r].t0 + HeaderTimeout
  /\ Tick
  /\ UNCHANGED <<req, written, failed>>

ProxyNext ==
  \/ \E r \in Requests, g \in Groups, method \in Methods : Arrive(r, g, method)
  \/ \E r \in Requests : Handle(r)
  \/ \E r \in Requests : Chunk(r)
  \/ \E r \in Requests : BodyFails(r)
  \/ \E r \in Requests : BodyEnds(r)
  \/ \E r \in Requests : DropStream(r)
  \/ \E r \in Requests : Cancel(r)
  \/ DashboardPins
  \/ SpeedTestReports
  \/ TimePasses

ProxySpec == ProxyInit /\ [][ProxyNext]_allVars

-----------------------------------------------------------------------------
(* A request whose handler returned a reply is recorded once, when its     *)
(* body has ended, failed or been dropped, in whatever order those come;   *)
(* one whose client left before that is not recorded (finalize,            *)
(* CountingStream).                                                        *)
RecordedOnce ==
  \A r \in Requests :
    Len(written[r]) = IF req[r].at \in {"ended", "closed"} THEN 1 ELSE 0

(* The record counts exactly the bytes handed to the client, and has an    *)
(* error if and only if an attempt or the body failed: an error can be one *)
(* that a retry made good (last_err outlives the retry loop).              *)
RecordTellsWhatHappened ==
  \A r \in Requests : written[r] # << >> =>
    LET rec == written[r][1]
    IN  /\ rec.bytes = req[r].bytes
        /\ rec.error = None <=> req[r].attempts = 1 /\ req[r].error = None
        /\ rec.status = BadGateway /\ rec.upstream_ip = None <=> req[r].status = None

(* A retry goes to an address the request has not tried in vain, unless    *)
(* every address of the group failed somebody within the penalty: three    *)
(* attempts never outlast the penalty, and no speed-test result reported   *)
(* in between lifts it (best_ip, mark_failure, UPSTREAM_HEADER_TIMEOUT).   *)
RetryMovesOn ==
  \A r \in Requests :
    req[r].at = "sent" /\ now = req[r].t0 /\ req[r].ip \in failed[r]
      => \A i \in DOMAIN candidates[req[r].group] :
           InPenalty(candidates[req[r].group][i].last_fail_ts, now)

(* A handler is over after its attempts' header timeouts at the latest,    *)
(* whatever upstreams do and however the list changes under it.  Metrics'  *)
(* HandlerLimit is this bound (proxy_handler).                             *)
HandlerEndsInTime ==
  \A r \in Requests :
    req[r].at \in {"pick", "sent", "mark", "reply"}
      => now <= req[r].started + MaxAttempts(r) * HeaderTimeout
=============================================================================
