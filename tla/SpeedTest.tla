------------------------------ MODULE SpeedTest ------------------------------
(***************************************************************************)
(* The speed-test loop (run_forever, src/speedtest.rs) and the dashboard   *)
(* calls that trigger it (run_speedtest, src/dashboard.rs; trigger).       *)
(*                                                                         *)
(* They share three cells: pending_url (a mutex), the permit of a Notify,  *)
(* and running (an atomic).  Each access is a step.  is_busy is an input:  *)
(* Metrics.tla says what it means, here it may change at any moment.  A    *)
(* URL stands for the group that owns its host, None for every group.      *)
(*                                                                         *)
(* The program is not pinned (else the loop is never spawned and every     *)
(* call is refused), and warmup_passes is 1, its value in every build.     *)
(***************************************************************************)
EXTENDS Integers, FiniteSets

CONSTANTS
  Groups,          \* endpoint groups
  None,            \* no URL: every group
  Addresses,       \* how many addresses each group has
  MaxConcurrency,  \* max_concurrency: tests in one wave
  Callers,         \* dashboard calls that can be in flight at a time
  Asked            \* what the calls ask for: groups, or None

ASSUME SpeedTestAssumption ==
  /\ None \notin Groups /\ IsFiniteSet(Groups)
  /\ Addresses \in [Groups -> Nat]
  /\ MaxConcurrency \in Nat
  /\ Asked \subseteq Groups \cup {None}

VARIABLES
  auto,         \* automatic warmup and hourly passes are on: fixed at start
  busy,         \* what metrics.is_busy answers
  permit,       \* Notify: a notify_one nobody has consumed
  pending_url,
  running,
  loop,         \* where run_forever is
  pass,         \* its current pass
  caller,       \* per dashboard call: where it is, what it asks for
  owed,         \* history: what was triggered and not taken up since
  tested,       \* history: what the current pass has reported
  under_load    \* history: reports of the current pass since downloads began

shared == <<permit, pending_url, running>>
history == <<owed, tested, under_load>>
vars == <<auto, busy, shared, loop, pass, caller, history>>

Urls == Groups \cup {None}

TestsOf(g) == {g} \X (1 .. Addresses[g])

AllTests == UNION {TestsOf(g) : g \in Groups}

(* target_defs.  A URL that reaches it was accepted by run_speedtest, so   *)
(* its host is managed.                                                    *)
Targets(url) == IF url = None THEN AllTests ELSE TestsOf(url)

NoPass == [forced |-> FALSE, url |-> None, todo |-> {}, wave |-> {}]

CallerIdle == [at |-> "idle", url |-> None]

TypeOK ==
  /\ auto \in BOOLEAN /\ busy \in BOOLEAN /\ permit \in BOOLEAN
  /\ running \in BOOLEAN
  /\ pending_url \in Urls
  /\ loop \in {"wait_idle", "sleep", "select", "woken", "start", "targets", "waves",
               "measure", "apply", "finish"}
  /\ pass \in [forced : BOOLEAN, url : Urls,
               todo : SUBSET AllTests, wave : SUBSET AllTests]
  /\ caller \in [Callers -> [at : {"idle", "store", "notify"}, url : Urls]]
  /\ owed \subseteq Asked
  /\ tested \subseteq AllTests
  /\ under_load \in 0 .. Cardinality(AllTests)

Init ==
  /\ auto \in BOOLEAN
  /\ busy \in BOOLEAN
  /\ permit = FALSE
  /\ pending_url = None
  /\ running = FALSE
  /\ loop = IF auto THEN "wait_idle" ELSE "select"
  /\ pass = NoPass
  /\ caller = [c \in Callers |-> CallerIdle]
  /\ owed = {}
  /\ tested = {}
  /\ under_load = 0

-----------------------------------------------------------------------------
(* Proxied traffic comes and goes. *)
TrafficChanges ==
  /\ busy' = ~ busy
  /\ under_load' = 0
  /\ UNCHANGED <<auto, shared, loop, pass, caller, owed, tested>>

(* run_speedtest: refused while a pass is running, else trigger(url), a    *)
(* store and a notify.  The call then answers started: true.               *)
Ask(c, url) ==
  /\ caller[c] = CallerIdle
  /\ ~ running
  /\ caller' = [caller EXCEPT ![c] = [at |-> "store", url |-> url]]
  /\ UNCHANGED <<auto, busy, shared, loop, pass, history>>

TriggerStore(c) ==
  /\ caller[c].at = "store"
  /\ pending_url' = caller[c].url
  /\ owed' = owed \cup {caller[c].url}
  /\ caller' = [caller EXCEPT ![c].at = "notify"]
  /\ UNCHANGED <<auto, busy, permit, running, loop, pass, tested, under_load>>

(* Mutant of TriggerNotify: notify_waiters, which leaves no permit. *)
TriggerNotify_WaitersOnly(c) ==
  /\ caller[c].at = "notify"
  /\ permit' = (permit \/ loop = "select")
  /\ caller' = [caller EXCEPT ![c] = CallerIdle]
  /\ UNCHANGED <<auto, busy, pending_url, running, loop, pass, history>>

TriggerNotify(c) ==
  /\ caller[c].at = "notify"
  /\ permit' = TRUE
  /\ caller' = [caller EXCEPT ![c] = CallerIdle]
  /\ UNCHANGED <<auto, busy, pending_url, running, loop, pass, history>>

-----------------------------------------------------------------------------
(* The select of run_forever.  When both are ready it takes either. *)
IntervalDue ==
  /\ loop = "select" /\ auto
  /\ loop' = "wait_idle"
  /\ UNCHANGED <<auto, busy, shared, pass, caller, history>>

Notified ==
  /\ loop = "select" /\ permit
  /\ permit' = FALSE
  /\ loop' = "woken"
  /\ UNCHANGED <<auto, busy, pending_url, running, pass, caller, history>>

TakeUrl ==
  /\ loop = "woken"
  /\ pass' = [NoPass EXCEPT !.forced = TRUE, !.url = pending_url]
  /\ pending_url' = None
  /\ owed' = IF pending_url = None THEN {} ELSE owed \ {pending_url}
  /\ loop' = "start"
  /\ UNCHANGED <<auto, busy, permit, running, caller, tested, under_load>>

(* wait_until_idle *)
CheckIdle ==
  /\ loop = "wait_idle"
  /\ loop' = IF busy THEN "sleep" ELSE "start"
  /\ UNCHANGED <<auto, busy, shared, pass, caller, history>>

(* Mutant of WakeUp: is_busy is not asked again. *)
WakeUp_NoRecheck ==
  /\ loop = "sleep"
  /\ UNCHANGED vars

WakeUp ==
  /\ loop = "sleep"
  /\ loop' = "wait_idle"
  /\ UNCHANGED <<auto, busy, shared, pass, caller, history>>

-----------------------------------------------------------------------------
(* run_controlled_pass and run_pass *)
SetRunning ==
  /\ loop = "start"
  /\ running' = TRUE
  /\ loop' = "targets"
  /\ UNCHANGED <<auto, busy, permit, pending_url, pass, caller, history>>

(* Mutant of BuildTasks: the URL does not select a group. *)
BuildTasks_EveryGroup ==
  /\ loop = "targets"
  /\ pass' = [pass EXCEPT !.todo = AllTests]
  /\ loop' = "waves"
  /\ UNCHANGED <<auto, busy, shared, caller, history>>

BuildTasks ==
  /\ loop = "targets"
  /\ pass' = [pass EXCEPT !.todo = Targets(pass.url)]
  /\ loop' = "waves"
  /\ UNCHANGED <<auto, busy, shared, caller, history>>

(* The chunks of the task list.  Tasks are listed group by group in no     *)
(* order that matters, so a chunk is any MaxConcurrency of them (at least  *)
(* one), the last one what is left.                                        *)
ChunkSize == IF MaxConcurrency = 0 THEN 1 ELSE MaxConcurrency

IsChunk(wave, todo) ==
  /\ wave \subseteq todo
  /\ Cardinality(wave) =
       IF Cardinality(todo) < ChunkSize THEN Cardinality(todo) ELSE ChunkSize

(* Mutant of StartWave: no check for downloads between waves. *)
StartWave_Unchecked ==
  /\ loop = "waves"
  /\ pass.todo # {}
  /\ \E wave \in SUBSET pass.todo :
       /\ IsChunk(wave, pass.todo)
       /\ pass' = [pass EXCEPT !.todo = @ \ wave, !.wave = wave]
  /\ loop' = "measure"
  /\ UNCHANGED <<auto, busy, shared, caller, history>>

(* Mutant of StartWave: the wave stays in the task list. *)
StartWave_NotAdvanced ==
  /\ loop = "waves"
  /\ pass.todo # {}
  /\ pass.forced \/ ~ busy
  /\ \E wave \in SUBSET pass.todo :
       /\ IsChunk(wave, pass.todo)
       /\ pass' = [pass EXCEPT !.wave = wave]
  /\ loop' = "measure"
  /\ UNCHANGED <<auto, busy, shared, caller, history>>

StartWave ==
  /\ loop = "waves"
  /\ pass.todo # {}
  /\ pass.forced \/ ~ busy
  /\ \E wave \in SUBSET pass.todo :
       /\ IsChunk(wave, pass.todo)
       /\ pass' = [pass EXCEPT !.todo = @ \ wave, !.wave = wave]
  /\ loop' = "measure"
  /\ UNCHANGED <<auto, busy, shared, caller, history>>

(* Mutant of AbortPass: returns past the reset of running. *)
AbortPass_KeepsRunning ==
  /\ loop = "waves"
  /\ pass.todo # {} /\ ~ pass.forced /\ busy
  /\ pass' = NoPass
  /\ tested' = {}
  /\ under_load' = 0
  /\ loop' = "select"
  /\ UNCHANGED <<auto, busy, shared, caller, owed>>

AbortPass ==
  /\ loop = "waves"
  /\ pass.todo # {} /\ ~ pass.forced /\ busy
  /\ loop' = "finish"
  /\ UNCHANGED <<auto, busy, shared, pass, caller, history>>

WavesDone ==
  /\ loop = "waves" /\ pass.todo = {}
  /\ loop' = "finish"
  /\ UNCHANGED <<auto, busy, shared, pass, caller, history>>

(* Every test of a wave ends, by its timeouts if by nothing else; then     *)
(* their results are applied one by one, in the order they came in.        *)
WaveMeasured ==
  /\ loop = "measure"
  /\ loop' = "apply"
  /\ UNCHANGED <<auto, busy, shared, pass, caller, history>>

ApplyResult(t) ==
  /\ loop = "apply" /\ t \in pass.wave
  /\ pass' = [pass EXCEPT !.wave = @ \ {t}]
  /\ tested' = tested \cup {t}
  /\ under_load' = IF busy THEN under_load + 1 ELSE 0
  /\ loop' = IF pass.wave = {t} THEN "waves" ELSE "apply"
  /\ UNCHANGED <<auto, busy, shared, caller, owed>>

ClearRunning ==
  /\ loop = "finish"
  /\ running' = FALSE
  /\ pass' = NoPass
  /\ tested' = {}
  /\ under_load' = 0
  /\ loop' = "select"
  /\ UNCHANGED <<auto, busy, permit, pending_url, caller, owed>>

RunPass ==
  \/ SetRunning
  \/ BuildTasks
  \/ StartWave
  \/ AbortPass
  \/ WavesDone
  \/ WaveMeasured
  \/ \E t \in AllTests : ApplyResult(t)
  \/ ClearRunning

Next ==
  \/ TrafficChanges
  \/ \E c \in Callers, url \in Asked : Ask(c, url)
  \/ \E c \in Callers : TriggerStore(c)
  \/ \E c \in Callers : TriggerNotify(c)
  \/ IntervalDue
  \/ Notified
  \/ TakeUrl
  \/ CheckIdle
  \/ WakeUp
  \/ RunPass

(* The runtime polls the loop while it has something to do, timers fire    *)
(* and every test of a wave is bounded by timeouts; a call that passed its *)
(* checks triggers without awaiting anything.  Notified is strongly fair:  *)
(* the timer it races is a new one at each select, so a permit that is     *)
(* there when select is entered wins.  Nothing is assumed of traffic or of *)
(* when dashboards call.                                                   *)
Fairness ==
  /\ WF_vars(IntervalDue)
  /\ SF_vars(Notified)
  /\ WF_vars(TakeUrl)
  /\ WF_vars(CheckIdle)
  /\ WF_vars(WakeUp)
  /\ WF_vars(RunPass)
  /\ \A c \in Callers : WF_vars(TriggerStore(c)) /\ WF_vars(TriggerNotify(c))

Spec == Init /\ [][Next]_vars /\ Fairness

-----------------------------------------------------------------------------
(* A pass reports only the group it was asked to test, and a forced pass   *)
(* reports every address of it, whatever traffic does meanwhile (run_pass, *)
(* target_defs).                                                           *)
PassTestsItsTargets ==
  /\ tested \subseteq Targets(pass.url)
  /\ loop = "finish" /\ pass.forced => tested = Targets(pass.url)

(* A scheduled pass stops once downloads begin: no more results than one   *)
(* wave come in after that, however long the pass (run_pass checks is_busy *)
(* between waves).                                                         *)
ScheduledPassYields == ~ pass.forced => under_load <= ChunkSize

(* Every pass comes to an end, and the dashboard can start one again.      *)
PassEnds == running ~> ~ running

(* A call that was answered started: true is followed by a forced pass     *)
(* (README: whatever is being downloaded).                                 *)
TriggerForcesPass == \A c \in Callers : caller[c].at = "notify" ~> loop = "woken"

(* What holds of it: no permit of Notify is lost, so a forced pass follows *)
(* if automatic passes are off, whatever traffic does, and if they are on, *)
(* provided that traffic stops some day (trigger, run_forever).            *)
TriggerForcesPassInLull == (~ auto \/ <>[]~ busy) => TriggerForcesPass

(* While nobody calls and nothing is downloaded, scheduled passes recur.   *)
ScheduledPassesRecur ==
  auto /\ <>[](~ busy /\ \A c \in Callers : caller[c] = CallerIdle)
    => []<>(loop = "start" /\ ~ pass.forced)

-----------------------------------------------------------------------------
(* What the next manual pass tests is what was asked for (doc comments of  *)
(* pending_url and trigger): whatever a call asked for is taken up some    *)
(* day by a pass that covers it, traffic permitting.                       *)
AskedIsTakenUp ==
  (~ auto \/ <>[]~ busy) => \A url \in Asked : url \in owed ~> url \notin owed

(* A forced pass over all groups has been asked for.                       *)
AllGroupsOnlyIfAsked == loop = "start" /\ pass.forced => pass.url \in Asked
=============================================================================
