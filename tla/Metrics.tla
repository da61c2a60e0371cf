------------------------------- MODULE Metrics -------------------------------
(***************************************************************************)
(* Live-traffic tracking (src/metrics.rs) and the loop that waits on it    *)
(* (wait_until_idle, src/speedtest.rs).                                    *)
(*                                                                         *)
(* A proxied request runs its handler under an ActivityGuard: two atomic   *)
(* writes when it begins, two when the guard is dropped.  The response     *)
(* body is streamed after that.  The speedtester's is_busy is two atomic   *)
(* loads.  Each write and each load is a step; they interleave.            *)
(*                                                                         *)
(* Time is in seconds and only differences matter, so times are kept as    *)
(* ages, capped where nothing tells larger ones apart.  A step that is due *)
(* (a few instructions, an expired timer) is taken before time passes.     *)
(* Timers go by the time that passes (tokio); the stamp and is_busy read   *)
(* the wall clock (now_unix), which can be set back and forward besides.   *)
(***************************************************************************)
EXTENDS Integers, FiniteSets

CONSTANTS
  Requests,      \* proxied requests that can be alive at a time
  Grace,         \* ACTIVITY_GRACE
  HandlerLimit,  \* longest a handler runs: its attempts' header timeouts
  BusyRetry,     \* busy_retry_sec
  MaxBack        \* bound on how far the clock is set back between two stamps

ASSUME MetricsAssumption ==
  /\ IsFiniteSet(Requests)
  /\ Grace \in Nat \ {0} /\ HandlerLimit \in Nat \ {0} /\ BusyRetry \in Nat \ {0}
  /\ MaxBack \in Nat

VARIABLES
  active_requests,
  last_activity,  \* age of the last_activity stamp by the wall clock, below 0
                  \* if the clock was set back to before it
  req,            \* per request: where it is, the age of its current stage
  wait,           \* the speedtester: where it is in wait_until_idle
  ended,          \* history: age of the last drop of a guard
  seen,           \* history: what was the case during the last is_busy
  quiet_for,      \* history: how long the proxy has been quiet while waited for
  set_back,       \* history: how far the clock was set back since the stamp
  set_ahead       \* history: the clock was set forward since the stamp

vars == <<active_requests, last_activity, req, wait, ended, seen, quiet_for,
          set_back, set_ahead>>

AtMost(n, bound) == IF n > bound THEN bound ELSE n

(* Older than this a stamp stays older than Grace, whatever the clock does *)
(* before the next one.                                                    *)
Oldest == Grace + MaxBack

Alive == {"counted", "handling"}

InFlight == {r \in Requests : req[r].at \in Alive}

(* Nothing in flight, and nothing finished within the grace period. *)
IsQuiet == InFlight = {} /\ ended = Grace

(* A guard is half dropped, after a handler that ran for Grace or longer. *)
DropsLongHandler == \E r \in Requests : req[r].at = "uncounted" /\ req[r].age >= Grace

Seen == {what \in {"quiet", "dropping", "ahead"} :
           \/ what = "quiet" /\ IsQuiet
           \/ what = "dropping" /\ DropsLongHandler
           \/ what = "ahead" /\ set_ahead}

TypeOK ==
  /\ active_requests \in 0 .. Cardinality(Requests)
  /\ last_activity \in -MaxBack .. Oldest
  /\ req \in [Requests -> [at : {"none", "counted", "handling", "uncounted", "streaming"},
                           body : BOOLEAN,
                           age : 0 .. HandlerLimit]]
  /\ wait \in [at : {"load_active", "load_last", "sleep", "pass"}, slept : 0 .. BusyRetry]
  /\ ended \in 0 .. Grace
  /\ seen \subseteq {"quiet", "dropping", "ahead"}
  /\ quiet_for \in 0 .. BusyRetry + MaxBack + 1
  /\ set_back \in 0 .. MaxBack
  /\ set_ahead \in BOOLEAN

NoRequest == [at |-> "none", body |-> FALSE, age |-> 0]

Init ==
  /\ active_requests = 0
  /\ last_activity = Oldest           \* 0: the epoch
  /\ req = [r \in Requests |-> NoRequest]
  /\ wait = [at |-> "load_active", slept |-> 0]
  /\ ended = Grace
  /\ seen = {}
  /\ quiet_for = 0
  /\ set_back = 0 /\ set_ahead = FALSE

-----------------------------------------------------------------------------
Goto(r, at) == req' = [req EXCEPT ![r].at = at, ![r].age = 0]

(* last_activity.store(now_unix()) *)
Stamp == last_activity' = 0 /\ set_back' = 0 /\ set_ahead' = FALSE

(* begin_request *)
BeginCount(r) ==
  /\ req[r].at = "none"
  /\ active_requests' = active_requests + 1
  /\ Goto(r, "counted")
  /\ UNCHANGED <<last_activity, wait, ended, seen, quiet_for, set_back, set_ahead>>

BeginStamp(r) ==
  /\ req[r].at = "counted"
  /\ Stamp
  /\ Goto(r, "handling")
  /\ UNCHANGED <<active_requests, wait, ended, seen, quiet_for>>

(* Mutant of DropCount: an early return does not decrement. *)
DropCount_OnlyWithBody(r, body) ==
  /\ req[r].at = "handling"
  /\ active_requests' = IF body THEN active_requests - 1 ELSE active_requests
  /\ req' = [req EXCEPT ![r].at = "uncounted", ![r].body = body]
  /\ ended' = 0
  /\ UNCHANGED <<last_activity, wait, seen, quiet_for, set_back, set_ahead>>

(* The handler returns, with or without a body to stream, or its future is *)
(* dropped because the client went away: the guard is dropped.             *)
DropCount(r, body) ==
  /\ req[r].at = "handling"
  /\ active_requests' = active_requests - 1
  /\ req' = [req EXCEPT ![r].at = "uncounted", ![r].body = body]
  /\ ended' = 0
  /\ UNCHANGED <<last_activity, wait, seen, quiet_for, set_back, set_ahead>>

(* Mutant of DropStamp: the end of a request is not stamped. *)
DropStamp_NoStamp(r) ==
  /\ req[r].at = "uncounted"
  /\ Goto(r, IF req[r].body THEN "streaming" ELSE "none")
  /\ UNCHANGED <<active_requests, last_activity, wait, ended, seen, quiet_for,
                 set_back, set_ahead>>

DropStamp(r) ==
  /\ req[r].at = "uncounted"
  /\ Stamp
  /\ Goto(r, IF req[r].body THEN "streaming" ELSE "none")
  /\ UNCHANGED <<active_requests, wait, ended, seen, quiet_for>>

(* Mutant of EndBody: the guard is dropped again with the body. *)
EndBody_Decrements(r) ==
  /\ req[r].at = "streaming"
  /\ active_requests' = active_requests - 1
  /\ req' = [req EXCEPT ![r] = NoRequest]
  /\ UNCHANGED <<last_activity, wait, ended, seen, quiet_for, set_back, set_ahead>>

EndBody(r) ==
  /\ req[r].at = "streaming"
  /\ req' = [req EXCEPT ![r] = NoRequest]
  /\ UNCHANGED <<active_requests, last_activity, wait, ended, seen, quiet_for,
                 set_back, set_ahead>>

-----------------------------------------------------------------------------
(* is_busy, as wait_until_idle evaluates it: active_requests first, then   *)
(* last_activity if that was zero.                                         *)
LoadActive ==
  /\ wait.at = "load_active"
  /\ wait' = [at |-> IF active_requests > 0 THEN "sleep" ELSE "load_last", slept |-> 0]
  /\ seen' = Seen
  /\ UNCHANGED <<active_requests, last_activity, req, ended, quiet_for,
                 set_back, set_ahead>>

(* now_unix().saturating_sub(last_activity): a stamp ahead of the clock is *)
(* taken for one of this second.                                           *)
SinceActivity == IF last_activity < 0 THEN 0 ELSE last_activity

(* Mutant of LoadLast: the grace period is taken in milliseconds. *)
LoadLast_Millis ==
  /\ wait.at = "load_last"
  /\ wait' = [at |-> IF SinceActivity < 1000 * Grace THEN "sleep" ELSE "pass", slept |-> 0]
  /\ seen' = seen \cup Seen
  /\ UNCHANGED <<active_requests, last_activity, req, ended, quiet_for,
                 set_back, set_ahead>>

(* Mutant of LoadLast: a stamp ahead of the clock wraps around. *)
LoadLast_Wraps ==
  /\ wait.at = "load_last"
  /\ wait' = [at |-> IF last_activity \in 0 .. Grace - 1 THEN "sleep" ELSE "pass", slept |-> 0]
  /\ seen' = seen \cup Seen
  /\ UNCHANGED <<active_requests, last_activity, req, ended, quiet_for,
                 set_back, set_ahead>>

LoadLast ==
  /\ wait.at = "load_last"
  /\ wait' = [at |-> IF SinceActivity < Grace THEN "sleep" ELSE "pass", slept |-> 0]
  /\ seen' = seen \cup Seen
  /\ UNCHANGED <<active_requests, last_activity, req, ended, quiet_for,
                 set_back, set_ahead>>

(* Mutant of WakeUp: is_busy is asked once, before the loop. *)
WakeUp_AskedOnce ==
  /\ wait.at = "sleep" /\ wait.slept = BusyRetry
  /\ wait' = [wait EXCEPT !.slept = 0]
  /\ UNCHANGED <<active_requests, last_activity, req, ended, seen, quiet_for,
                 set_back, set_ahead>>

WakeUp ==
  /\ wait.at = "sleep" /\ wait.slept = BusyRetry
  /\ wait' = [at |-> "load_active", slept |-> 0]
  /\ UNCHANGED <<active_requests, last_activity, req, ended, seen, quiet_for,
                 set_back, set_ahead>>

(* The pass runs, and the loop comes back to wait for the next one. *)
WaitAgain ==
  /\ wait.at = "pass"
  /\ wait' = [at |-> "load_active", slept |-> 0]
  /\ quiet_for' = 0
  /\ UNCHANGED <<active_requests, last_activity, req, ended, seen, set_back,
                 set_ahead>>

SomethingDue ==
  \/ \E r \in Requests : req[r].at \in {"counted", "uncounted"}
  \/ \E r \in Requests : req[r].at = "handling" /\ req[r].age = HandlerLimit
  \/ wait.at \in {"load_active", "load_last"}
  \/ wait.at = "sleep" /\ wait.slept = BusyRetry

Tick ==
  /\ ~ SomethingDue
  /\ last_activity' = AtMost(last_activity + 1, Oldest)
  /\ ended' = AtMost(ended + 1, Grace)
  /\ req' = [r \in Requests |->
               IF req[r].at = "handling" THEN [req[r] EXCEPT !.age = @ + 1] ELSE req[r]]
  /\ wait' = IF wait.at = "sleep" THEN [wait EXCEPT !.slept = @ + 1] ELSE wait
  /\ quiet_for' = IF IsQuiet THEN AtMost(quiet_for + 1, BusyRetry + MaxBack + 1) ELSE 0
  /\ UNCHANGED <<active_requests, seen, set_back, set_ahead>>

(* Somebody, or a time server, sets the wall clock. *)
ClockSetBack(by) ==
  /\ set_back + by <= MaxBack
  /\ last_activity' = last_activity - by
  /\ set_back' = set_back + by
  /\ UNCHANGED <<active_requests, req, wait, ended, seen, quiet_for, set_ahead>>

ClockSetForward(by) ==
  /\ last_activity' = AtMost(last_activity + by, Oldest)
  /\ set_ahead' = TRUE
  /\ UNCHANGED <<active_requests, req, wait, ended, seen, quiet_for, set_back>>

Next ==
  \/ \E r \in Requests : BeginCount(r)
  \/ \E r \in Requests : BeginStamp(r)
  \/ \E r \in Requests, body \in BOOLEAN : DropCount(r, body)
  \/ \E r \in Requests : DropStamp(r)
  \/ \E r \in Requests : EndBody(r)
  \/ LoadActive
  \/ LoadLast
  \/ WakeUp
  \/ WaitAgain
  \/ Tick
  \/ \E by \in 1 .. MaxBack : ClockSetBack(by)
  \/ \E by \in 1 .. Oldest + MaxBack : ClockSetForward(by)

(* Time passes, the runtime polls the loop, and a handler ends: its        *)
(* attempts time out and a dropped guard runs to its end.                  *)
Fairness ==
  /\ WF_vars(Tick)
  /\ WF_vars(LoadActive \/ LoadLast \/ WakeUp)
  /\ \A r \in Requests :
       WF_vars(BeginStamp(r) \/ (\E body \in BOOLEAN : DropCount(r, body)) \/ DropStamp(r))

Spec == Init /\ [][Next]_vars

FairSpec == Spec /\ Fairness

-----------------------------------------------------------------------------
(* The counter is the number of requests in flight, however begins and     *)
(* drops interleave and whichever way a handler ends (ActivityGuard).      *)
InFlightIsCounted == active_requests = Cardinality(InFlight)

(* is_busy says idle only if the proxy was quiet at some moment of the     *)
(* call: nothing in flight, nothing finished within Grace.  There are two  *)
(* exceptions.  A guard dropped half way after a handler that outlived     *)
(* Grace has left the counter, and its only stamp is that of its begin;    *)
(* and a clock set forward makes the last stamp look older than it is.     *)
IdleOnlyIfQuiet == wait.at = "pass" => seen # {}

(* wait_until_idle notices a quiet proxy within BusyRetry: it does not     *)
(* sleep through a lull that lasts longer, except for as long as the clock *)
(* was set back since the last stamp, when is_busy cannot know better.     *)
WaitEndsInTime == wait.at # "pass" /\ IsQuiet => quiet_for <= BusyRetry + set_back

(* When requests stop, the pass that wait_until_idle postponed runs.       *)
LullLetsPassRun ==
  <>[](\A r \in Requests : req[r].at \in {"none", "streaming"}) => <>(wait.at = "pass")

(* wait_until_idle exists "so a pass never runs while a download is        *)
(* active" (its doc comment): at least, none starts during one.            *)
NoPassStartsInDownload ==
  [][wait.at # "pass" /\ wait'.at = "pass"
       => \A r \in Requests : req[r].at # "streaming"]_vars
=============================================================================
