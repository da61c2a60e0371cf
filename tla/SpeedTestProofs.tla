---------------------------- MODULE SpeedTestProofs ----------------------------
(***************************************************************************)
(* Theorems about SpeedTest, for every finite set of groups, every number  *)
(* of addresses, every wave size and any number of dashboard calls.        *)
(***************************************************************************)
EXTENDS SpeedTest, FiniteSetTheorems, TLAPS

PassState ==
  [forced : BOOLEAN, url : Urls, todo : SUBSET AllTests, wave : SUBSET AllTests]

CallerState == [at : {"idle", "store", "notify"}, url : Urls]

Between == {"wait_idle", "sleep", "select", "woken"}

(* The cells, and what calls ask for.                                      *)
Cells ==
  /\ auto \in BOOLEAN /\ busy \in BOOLEAN /\ permit \in BOOLEAN
  /\ running \in BOOLEAN
  /\ pending_url \in Urls
  /\ loop \in Between \cup {"start", "targets", "waves", "measure", "apply", "finish"}
  /\ caller \in [Callers -> CallerState]
  /\ \A c \in Callers : caller[c].at # "idle" => caller[c].url \in Asked
  /\ owed \subseteq Asked
  /\ tested \subseteq AllTests

(* A pass splits its targets into what is tested, what is being tested and *)
(* what is left, until it is finished or aborted; before it starts there   *)
(* is nothing of any.                                                      *)
Splits(p, at, done) ==
  /\ p \in PassState
  /\ done \cap p.todo = {} /\ done \cap p.wave = {} /\ p.todo \cap p.wave = {}
  /\ at \in Between => p = NoPass
  /\ at \in Between \cup {"start", "targets"} => done = {} /\ p.todo = {} /\ p.wave = {}
  /\ at \in {"waves", "measure", "apply"} => done \cup p.todo \cup p.wave = Targets(p.url)
  /\ at \in {"waves", "finish"} => p.wave = {}
  /\ at = "finish" => /\ done \subseteq Targets(p.url)
                      /\ p.forced => done = Targets(p.url)

(* A wave is no larger than a chunk, and an unforced one is only started   *)
(* while nothing is downloaded: what is left of it and what it has         *)
(* reported since downloads began are a chunk at most.                     *)
Yields(p, done, reports, downloads) ==
  /\ reports \in Nat /\ reports <= Cardinality(done)
  /\ ~ downloads => reports = 0
  /\ Cardinality(p.wave) <= ChunkSize
  /\ ~ p.forced => reports + Cardinality(p.wave) <= ChunkSize

Passes ==
  /\ Cells
  /\ Splits(pass, loop, tested)
  /\ Yields(pass, tested, under_load, busy)

(* The tests of a pass are some of finitely many.                          *)
LEMMA TestsFinite ==
  /\ IsFiniteSet(AllTests)
  /\ \A s \in SUBSET AllTests :
       /\ IsFiniteSet(s) /\ Cardinality(s) \in Nat
       /\ Cardinality(s) <= Cardinality(AllTests)
  /\ \A url \in Urls : Targets(url) \subseteq AllTests
  /\ ChunkSize \in Nat \ {0}
<1> USE SpeedTestAssumption
<1>1. \A g \in Groups : IsFiniteSet(TestsOf(g))
  <2> SUFFICES ASSUME NEW g \in Groups PROVE IsFiniteSet(TestsOf(g))
    OBVIOUS
  <2>1. 1 \in Int /\ Addresses[g] \in Int
    OBVIOUS
  <2>2. IsFiniteSet(1 .. Addresses[g])
    BY <2>1, FS_Interval
  <2>3. IsFiniteSet({g})
    BY FS_Singleton
  <2> QED
    BY <2>2, <2>3, FS_Product DEF TestsOf
<1>2. IsFiniteSet({TestsOf(g) : g \in Groups})
  <2> DEFINE T == {TestsOf(g) : g \in Groups}
             f == [g \in Groups |-> TestsOf(g)]
  <2>1. f \in Surjection(Groups, T)
    BY DEF Surjection
  <2> HIDE DEF T, f
  <2>2. IsFiniteSet(T)
    BY <2>1, FS_Surjection
  <2> QED
    BY <2>2 DEF T
<1>3. IsFiniteSet(AllTests)
  BY <1>1, <1>2, FS_UNION DEF AllTests
<1>4. ASSUME NEW s \in SUBSET AllTests
      PROVE  /\ IsFiniteSet(s) /\ Cardinality(s) \in Nat
             /\ Cardinality(s) <= Cardinality(AllTests)
  <2>1. IsFiniteSet(s) /\ Cardinality(s) <= Cardinality(AllTests)
    BY <1>3, FS_Subset
  <2> QED
    BY <2>1, FS_CardinalityType
<1>5. \A url \in Urls : Targets(url) \subseteq AllTests
  BY DEF Urls, Targets, AllTests
<1>6. ChunkSize \in Nat \ {0}
  BY DEF ChunkSize
<1> QED
  BY <1>3, <1>4, <1>5, <1>6

LEMMA PassesInit == Init => Passes
<1> SUFFICES ASSUME Init PROVE Passes
  OBVIOUS
<1> USE SpeedTestAssumption
<1>1. NoPass \in PassState /\ NoPass.todo = {} /\ NoPass.wave = {} /\ NoPass.forced = FALSE
  BY DEF NoPass, PassState, Urls
<1>2. Cells
  BY DEF Init, Cells, CallerIdle, CallerState, Urls, Between
<1>3. Splits(pass, loop, tested)
  BY <1>1 DEF Init, Splits, Between
<1>4. Yields(pass, tested, under_load, busy)
  <2>1. Cardinality({}) = 0
    BY FS_EmptySet
  <2> QED
    BY <1>1, <2>1, TestsFinite DEF Init, Yields
<1> QED
  BY <1>2, <1>3, <1>4 DEF Passes

(* The steps that are not the pass's own leave it as it is.                *)
LEMMA CellsStep ==
  ASSUME Passes, [Next]_vars
  PROVE  Cells'
<1> USE SpeedTestAssumption DEF Cells
<1>0. Cells /\ NoPass.url = None /\ None \in Urls
  BY DEF Passes, NoPass, Urls
<1>1. CASE TrafficChanges
  BY <1>0, <1>1 DEF TrafficChanges, shared
<1>2. ASSUME NEW c \in Callers, NEW url \in Asked, Ask(c, url)
      PROVE  Cells'
  BY <1>0, <1>2 DEF Ask, shared, history, CallerState, Urls
<1>3. ASSUME NEW c \in Callers, TriggerStore(c)
      PROVE  Cells'
  BY <1>0, <1>3 DEF TriggerStore, CallerState
<1>4. ASSUME NEW c \in Callers, TriggerNotify(c)
      PROVE  Cells'
  BY <1>0, <1>4 DEF TriggerNotify, history, CallerState, CallerIdle
<1>5. CASE IntervalDue \/ CheckIdle \/ WakeUp \/ SetRunning \/ BuildTasks
           \/ AbortPass \/ WavesDone \/ WaveMeasured \/ StartWave
  BY <1>0, <1>5 DEF IntervalDue, CheckIdle, WakeUp, SetRunning, BuildTasks, AbortPass,
     WavesDone, WaveMeasured, StartWave, shared, history, Between
<1>6. CASE Notified
  BY <1>0, <1>6 DEF Notified, history, Between
<1>7. CASE TakeUrl
  BY <1>0, <1>7 DEF TakeUrl
<1>8. ASSUME NEW t \in AllTests, ApplyResult(t)
      PROVE  Cells'
  BY <1>0, <1>8 DEF ApplyResult, shared
<1>9. CASE ClearRunning
  BY <1>0, <1>9 DEF ClearRunning, Between
<1>10. CASE UNCHANGED vars
  BY <1>0, <1>10 DEF vars, shared, history
<1> QED
  BY <1>1, <1>2, <1>3, <1>4, <1>5, <1>6, <1>7, <1>8, <1>9, <1>10 DEF Next, RunPass

LEMMA SplitsStep ==
  ASSUME Passes, [Next]_vars
  PROVE  Splits(pass', loop', tested')
<1> USE SpeedTestAssumption
<1>0. Cells /\ Splits(pass, loop, tested)
  BY DEF Passes
<1>1. ASSUME UNCHANGED <<pass, tested>>,
             \/ loop' = loop
             \/ loop \in Between /\ loop' \in Between \cup {"start"}
             \/ loop = "start" /\ loop' = "targets"
             \/ loop = "measure" /\ loop' = "apply"
      PROVE  Splits(pass', loop', tested')
  BY <1>0, <1>1 DEF Splits, Between
<1>2. CASE \/ TrafficChanges
           \/ \E c \in Callers, url \in Asked : Ask(c, url)
           \/ \E c \in Callers : TriggerStore(c)
           \/ \E c \in Callers : TriggerNotify(c)
           \/ UNCHANGED vars
  BY <1>1, <1>2
  DEF TrafficChanges, Ask, TriggerStore, TriggerNotify, vars, history
<1>3. CASE IntervalDue \/ CheckIdle \/ WakeUp \/ Notified \/ SetRunning \/ WaveMeasured
  BY <1>1, <1>3
  DEF IntervalDue, CheckIdle, WakeUp, Notified, SetRunning, WaveMeasured, history, Between
<1>4. CASE TakeUrl
  <2>1. /\ pass' = [NoPass EXCEPT !.forced = TRUE, !.url = pending_url]
        /\ loop' = "start" /\ tested' = tested /\ tested = {} /\ pending_url \in Urls
    BY <1>0, <1>4 DEF TakeUrl, Cells, Splits, Between
  <2> QED
    BY <2>1 DEF Splits, NoPass, PassState, Between
<1>5. CASE BuildTasks
  <2>1. /\ pass' = [pass EXCEPT !.todo = Targets(pass.url)] /\ loop' = "waves"
        /\ tested' = {} /\ pass.wave = {} /\ pass \in PassState
    BY <1>0, <1>5 DEF BuildTasks, history, Splits
  <2>2. Targets(pass.url) \subseteq AllTests
    BY <2>1, TestsFinite DEF PassState
  <2>3. /\ pass' \in PassState /\ pass'.todo = Targets(pass.url) /\ pass'.wave = {}
        /\ pass'.url = pass.url
    BY <2>1, <2>2 DEF PassState
  <2> QED
    BY <2>1, <2>3 DEF Splits, Between
<1>6. CASE StartWave
  <2>1. PICK wave \in SUBSET pass.todo :
          pass' = [pass EXCEPT !.todo = @ \ wave, !.wave = wave]
    BY <1>6 DEF StartWave
  <2>2. loop = "waves" /\ loop' = "measure" /\ tested' = tested /\ pass \in PassState
    BY <1>0, <1>6 DEF StartWave, history, Splits
  <2>3. /\ pass' \in PassState /\ pass'.todo = pass.todo \ wave /\ pass'.wave = wave
        /\ pass'.url = pass.url
    BY <2>1, <2>2 DEF PassState
  <2> QED
    BY <1>0, <2>2, <2>3 DEF Splits, Between
<1>7. CASE AbortPass \/ WavesDone
  <2>1. UNCHANGED <<pass, tested>> /\ loop = "waves" /\ loop' = "finish"
        /\ (pass.todo = {} \/ ~ pass.forced)
    BY <1>7 DEF AbortPass, WavesDone, history
  <2>2. pass.wave = {} /\ tested \cup pass.todo \cup pass.wave = Targets(pass.url)
    BY <1>0, <2>1 DEF Splits
  <2> QED
    BY <1>0, <2>1, <2>2 DEF Splits, Between
<1>8. ASSUME NEW t \in AllTests, ApplyResult(t)
      PROVE  Splits(pass', loop', tested')
  <2>1. /\ loop = "apply" /\ t \in pass.wave /\ tested' = tested \cup {t}
        /\ loop' = IF pass.wave = {t} THEN "waves" ELSE "apply"
        /\ pass \in PassState
    BY <1>0, <1>8 DEF ApplyResult, Splits
  <2>2. /\ pass' \in PassState /\ pass'.todo = pass.todo /\ pass'.wave = pass.wave \ {t}
        /\ pass'.url = pass.url
    BY <1>8, <2>1 DEF ApplyResult, PassState
  <2>3. /\ tested \cap pass.todo = {} /\ tested \cap pass.wave = {}
        /\ pass.todo \cap pass.wave = {}
        /\ tested \cup pass.todo \cup pass.wave = Targets(pass.url)
    BY <1>0, <2>1 DEF Splits
  <2>4. /\ tested' \cap pass'.todo = {} /\ tested' \cap pass'.wave = {}
        /\ pass'.todo \cap pass'.wave = {}
        /\ tested' \cup pass'.todo \cup pass'.wave = Targets(pass'.url)
    BY <2>1, <2>2, <2>3
  <2>5. loop' = "waves" => pass'.wave = {}
    BY <2>1, <2>2
  <2> QED
    BY <2>1, <2>2, <2>4, <2>5 DEF Splits, Between
<1>9. CASE ClearRunning
  BY <1>9 DEF ClearRunning, Splits, NoPass, PassState, Between, Urls
<1> QED
  BY <1>2, <1>3, <1>4, <1>5, <1>6, <1>7, <1>8, <1>9 DEF Next, RunPass

LEMMA YieldsStep ==
  ASSUME Passes, [Next]_vars
  PROVE  Yields(pass', tested', under_load', busy')
<1> USE SpeedTestAssumption
<1>0. /\ Cells /\ Splits(pass, loop, tested) /\ Yields(pass, tested, under_load, busy)
      /\ IsFiniteSet(tested) /\ IsFiniteSet(pass.wave) /\ IsFiniteSet(pass.todo)
      /\ Cardinality(tested) \in Nat /\ Cardinality(pass.wave) \in Nat
      /\ Cardinality(pass.todo) \in Nat
      /\ ChunkSize \in Nat \ {0} /\ Cardinality({}) = 0
      /\ pass \in PassState
  <2>1. pass \in PassState /\ tested \subseteq AllTests
    BY DEF Passes, Splits, Cells
  <2>2. pass.wave \in SUBSET AllTests /\ pass.todo \in SUBSET AllTests
    BY <2>1 DEF PassState
  <2> QED
    BY <2>1, <2>2, TestsFinite, FS_EmptySet DEF Passes
<1>1. ASSUME UNCHANGED <<busy, pass, history>>
      PROVE  Yields(pass', tested', under_load', busy')
  BY <1>0, <1>1 DEF history
<1>2. CASE TrafficChanges
  BY <1>0, <1>2 DEF TrafficChanges, Yields
<1>3. ASSUME NEW c \in Callers, TriggerStore(c)
      PROVE  Yields(pass', tested', under_load', busy')
  BY <1>0, <1>3 DEF TriggerStore
<1>4. CASE TakeUrl
  <2>1. /\ pass' = [NoPass EXCEPT !.forced = TRUE, !.url = pending_url]
        /\ UNCHANGED <<busy, tested, under_load>>
    BY <1>4 DEF TakeUrl
  <2>2. pass'.forced /\ pass'.wave = {}
    BY <2>1 DEF NoPass
  <2> QED
    BY <1>0, <2>1, <2>2 DEF Yields
<1>5. CASE BuildTasks
  <2>1. pass'.wave = pass.wave /\ pass'.forced = pass.forced
    BY <1>0, <1>5 DEF BuildTasks, PassState
  <2> QED
    BY <1>0, <1>5, <2>1 DEF BuildTasks, history, Yields
<1>6. CASE StartWave
  <2>1. PICK wave \in SUBSET pass.todo :
          /\ IsChunk(wave, pass.todo)
          /\ pass' = [pass EXCEPT !.todo = @ \ wave, !.wave = wave]
    BY <1>6 DEF StartWave
  <2>2. /\ pass'.wave = wave /\ pass'.forced = pass.forced
        /\ pass.forced \/ ~ busy
        /\ UNCHANGED <<busy, tested, under_load>>
    BY <1>0, <1>6, <2>1 DEF StartWave, PassState, history
  <2>3. Cardinality(wave) \in Nat /\ Cardinality(wave) <= ChunkSize
    BY <1>0, <2>1 DEF IsChunk
  <2> QED
    BY <1>0, <2>2, <2>3 DEF Yields
<1>7. ASSUME NEW t \in AllTests, ApplyResult(t)
      PROVE  Yields(pass', tested', under_load', busy')
  <2>1. /\ t \in pass.wave /\ loop = "apply" /\ tested' = tested \cup {t} /\ busy' = busy
        /\ under_load' = IF busy THEN under_load + 1 ELSE 0
        /\ pass'.wave = pass.wave \ {t} /\ pass'.forced = pass.forced
    BY <1>0, <1>7 DEF ApplyResult, PassState
  <2>2. t \notin tested
    BY <1>0, <2>1 DEF Splits
  <2>3. Cardinality(tested') = Cardinality(tested) + 1
    BY <1>0, <2>1, <2>2, FS_AddElement
  <2>4. Cardinality(pass'.wave) = Cardinality(pass.wave) - 1
    <3>1. Cardinality(pass.wave \ {t}) = Cardinality(pass.wave) - 1
      <4>1. IsFiniteSet(pass.wave) /\ t \in pass.wave
        BY <1>0, <2>1
      <4> QED
        BY <4>1, FS_RemoveElement
    <3> QED
      BY <2>1, <3>1
  <2> QED
    BY <1>0, <2>1, <2>3, <2>4 DEF Yields
<1>8. CASE ClearRunning
  <2>1. pass'.wave = {} /\ tested' = {} /\ under_load' = 0 /\ busy' = busy
    BY <1>8 DEF ClearRunning, NoPass
  <2> QED
    BY <1>0, <2>1 DEF Yields
<1>9. CASE \/ \E c \in Callers, url \in Asked : Ask(c, url)
           \/ \E c \in Callers : TriggerNotify(c)
           \/ IntervalDue \/ Notified \/ CheckIdle \/ WakeUp \/ SetRunning
           \/ AbortPass \/ WavesDone \/ WaveMeasured \/ UNCHANGED vars
  <2>1. UNCHANGED <<busy, pass, history>>
    BY <1>9 DEF Ask, TriggerNotify, IntervalDue, Notified, CheckIdle, WakeUp, SetRunning,
       AbortPass, WavesDone, WaveMeasured, vars
  <2> QED
    BY <1>1, <2>1
<1> QED
  BY <1>2, <1>3, <1>4, <1>5, <1>6, <1>7, <1>8, <1>9 DEF Next, RunPass

LEMMA PassesInductive == Spec => []Passes
<1>1. Passes /\ [Next]_vars => Passes'
  BY CellsStep, SplitsStep, YieldsStep DEF Passes
<1> QED
  BY <1>1, PassesInit, PTL DEF Spec

-----------------------------------------------------------------------------
(* The cells and the locals of the loop are well typed, and a pass reports *)
(* no more results than there are addresses (run_forever, run_pass).       *)
THEOREM SpeedTestTyped == Spec => []TypeOK
<1>1. Passes => TypeOK
  <2> SUFFICES ASSUME Passes PROVE TypeOK
    OBVIOUS
  <2>1. Cells /\ pass \in PassState /\ Yields(pass, tested, under_load, busy)
    BY DEF Passes, Splits
  <2>2. /\ Cardinality(tested) \in Nat /\ Cardinality(AllTests) \in Nat
        /\ Cardinality(tested) <= Cardinality(AllTests)
    BY <2>1, TestsFinite DEF Cells
  <2>3. under_load \in 0 .. Cardinality(AllTests)
    BY <2>1, <2>2 DEF Yields
  <2> QED
    BY <2>1, <2>3 DEF TypeOK, Cells, PassState, CallerState, Between
<1> QED
  BY <1>1, PassesInductive, PTL

(* A pass reports addresses of the group it was asked to test and of no    *)
(* other, and a forced pass reports all of them, however traffic comes and *)
(* goes and whatever is triggered meanwhile (run_pass, target_defs).       *)
THEOREM PassIsComplete == Spec => []PassTestsItsTargets
<1>1. Passes => PassTestsItsTargets
  BY DEF Passes, Cells, Splits, PassTestsItsTargets, Between
<1> QED
  BY <1>1, PassesInductive, PTL

(* A scheduled pass gives way to downloads after one wave at most          *)
(* (run_pass asks is_busy between waves).                                  *)
THEOREM PassYields == Spec => []ScheduledPassYields
<1>1. Passes => ScheduledPassYields
  <2> SUFFICES ASSUME Passes, ~ pass.forced PROVE under_load <= ChunkSize
    BY DEF ScheduledPassYields
  <2>1. /\ under_load \in Nat /\ under_load + Cardinality(pass.wave) <= ChunkSize
        /\ pass.wave \in SUBSET AllTests
    BY DEF Passes, Yields, Splits, PassState
  <2>2. Cardinality(pass.wave) \in Nat /\ ChunkSize \in Nat
    BY <2>1, TestsFinite
  <2> QED
    BY <2>1, <2>2
<1> QED
  BY <1>1, PassesInductive, PTL
=============================================================================
