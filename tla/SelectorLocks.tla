----------------------------- MODULE SelectorLocks -----------------------------
(***************************************************************************)
(* The two locks of one endpoint group (src/selector.rs, HostStateInner):  *)
(* tokio RwLocks around pinned_ip and around candidates, each with a FIFO  *)
(* queue in which a reader waits behind a writer that came first.  An      *)
(* operation can be dropped at any await, as it is when the client of the  *)
(* handler that runs it goes away; its place in a queue and the guard it   *)
(* holds go with it.                                                       *)
(*                                                                         *)
(* Selector.tla takes each operation, and each of the two writes of        *)
(* set_pinned_ip, as one step; here a step is one critical section or one  *)
(* request for a lock, and the result is shown to be a behaviour of        *)
(* Selector.  Giving up one lock and asking for the next are two steps: on *)
(* a runtime of several threads another pin can write pinned_ip and ask    *)
(* for candidates in between, and so write the list first.                 *)
(* No operation holds guards of two groups at a time (snapshot and defs    *)
(* visit the groups one after the other), so one group is enough.          *)
(***************************************************************************)
EXTENDS Candidates, SequencesExt

CONSTANTS
  Group,        \* the group
  Bundled,      \* its bundled_ips
  Pinners,      \* tasks that call set_pinned_ip
  Reporters,    \* tasks that call update_result or mark_failure
  Viewers,      \* tasks that call snapshot, or best_ip, defs, def_for_host
  StartTime,
  MaxTime       \* bound on the clock

Tasks == Pinners \cup Reporters \cup Viewers

ASSUME SelectorLocksAssumption ==
  /\ Bundled \in Seq(Ips) \ {<< >>}
  /\ \A i, j \in DOMAIN Bundled : Bundled[i] = Bundled[j] => i = j
  /\ StartTime \in Nat /\ MaxTime \in Nat /\ StartTime > Penalty
  /\ Pinners \cap Reporters = {}
  /\ (Pinners \cup Reporters) \cap Viewers = {}

VARIABLES
  now,
  pinned_ip,
  candidates,
  call,         \* per task: where it is, and its arguments and locals
  queue,        \* per lock: who waits for it, in order, and how
  settled       \* history: the last pin call to finish ran alone, and no call
                \* has written pinned_ip since

vars == <<now, pinned_ip, candidates, call, queue, settled>>

Locks == {"pinned_ip", "candidates"}

Idle == [at |-> "idle"]

ListFor(ip) == IF ip = None THEN Bundled ELSE <<ip>>

Wait(t, mode) == [by |-> t, mode |-> mode]

(* The lock a task waits for, and how, at each await. *)
Awaits(c) ==
  CASE c.at = "pin_pinned_ip" -> {<<"pinned_ip", "write">>}
    [] c.at \in {"pin_candidates", "report"} -> {<<"candidates", "write">>}
    [] c.at \in {"snapshot", "read"} -> {<<"candidates", "read">>}
    [] c.at = "snapshot_pinned_ip" -> {<<"pinned_ip", "read">>}
    [] OTHER -> {}

TypeOK ==
  /\ now \in Nat
  /\ pinned_ip \in Ips \cup {None}
  /\ candidates \in Seq(CandidateState) \ {<< >>}
  /\ settled \in BOOLEAN
  /\ call \in [Tasks ->
       {Idle}
         \cup [at : {"pin_pinned_ip", "pin_between", "pin_candidates", "abandoned"},
               ip : Ips \cup {None}, alone : BOOLEAN]
         \cup [at : {"report"}, ip : Ips, m : MeasureResult]
         \cup [at : {"read", "snapshot"}]
         \cup [at : {"snapshot_copied", "snapshot_pinned_ip"}, seen : Seq(Ips)]]
  /\ queue \in [Locks -> Seq([by : Tasks, mode : {"read", "write"}])]
  /\ \A l \in Locks :                       \* who waits is queued, and once
       /\ \A i, j \in DOMAIN queue[l] : queue[l][i].by = queue[l][j].by => i = j
       /\ \A t \in Tasks, mode \in {"read", "write"} :
            <<l, mode>> \in Awaits(call[t])
              <=> \E i \in DOMAIN queue[l] : queue[l][i] = Wait(t, mode)

Init ==
  /\ now = StartTime
  /\ pinned_ip = None
  /\ candidates = FreshCandidates(Bundled)
  /\ call = [t \in Tasks |-> Idle]
  /\ queue = [l \in Locks |-> << >>]
  /\ settled = TRUE

-----------------------------------------------------------------------------
SnapshotHasCopied(t) == call[t].at \in {"snapshot_copied", "snapshot_pinned_ip"}

(* Mutant of Holds: set_pinned_ip keeps the guard of its first write. *)
Holds_PinKeepsTheFirst(t) ==
  CASE SnapshotHasCopied(t) -> {<<"candidates", "read">>}
    [] call[t].at \in {"pin_between", "pin_candidates"} -> {<<"pinned_ip", "write">>}
    [] OTHER -> {}

(* Mutant of Holds: snapshot drops the list's guard once it has copied it. *)
Holds_SnapshotCopies(t) == {}

(* The guards a task holds from one step to the next.  Both guards of      *)
(* set_pinned_ip are temporaries, dropped in the statement that took them; *)
(* update_result and best_ip await nothing under theirs; snapshot's lives  *)
(* to the end of the loop body, across the await of pinned_ip.             *)
Holds(t) ==
  IF SnapshotHasCopied(t) THEN {<<"candidates", "read">>} ELSE {}

HeldModes(l) == {mode \in {"read", "write"} : \E t \in Tasks : <<l, mode>> \in Holds(t)}

(* tokio's RwLock: first come, first served; readers share.  *)
Granted(t, l, mode) ==
  /\ queue[l] # << >> /\ Head(queue[l]) = Wait(t, mode)
  /\ HeldModes(l) \subseteq (IF mode = "read" THEN {"read"} ELSE {})

Queued(t, l, mode) == [queue EXCEPT ![l] = Append(@, Wait(t, mode))]

Begin(t, c, l, mode) ==
  /\ call[t] = Idle
  /\ call' = [call EXCEPT ![t] = c]
  /\ queue' = Queued(t, l, mode)

Return(t) == call' = [call EXCEPT ![t] = Idle]

Pinning(t) == call[t].at \in {"pin_pinned_ip", "pin_between", "pin_candidates"}

-----------------------------------------------------------------------------
(* set_pinned_ip: the new list is computed before the first lock is taken. *)
PinStart(t, ip) ==
  /\ ListFor(ip) # << >>
  /\ call[t] = Idle
  /\ call' = [u \in Tasks |->
       IF u = t
       THEN [at |-> "pin_pinned_ip", ip |-> ip, alone |-> \A v \in Tasks : ~ Pinning(v)]
       ELSE IF Pinning(u) THEN [call[u] EXCEPT !.alone = FALSE] ELSE call[u]]
  /\ queue' = Queued(t, "pinned_ip", "write")
  /\ UNCHANGED <<now, pinned_ip, candidates, settled>>

(* Mutant of PinWritePinnedIp: a group pinned to this address already is   *)
(* left as it is.                                                          *)
PinWritePinnedIp_SkipsTheSame(t) ==
  /\ call[t].at = "pin_pinned_ip" /\ Granted(t, "pinned_ip", "write")
  /\ pinned_ip' = call[t].ip
  /\ queue' = [queue EXCEPT !["pinned_ip"] = Tail(@)]
  /\ IF pinned_ip = call[t].ip
     THEN settled' = call[t].alone /\ Return(t)
     ELSE settled' = FALSE /\ call' = [call EXCEPT ![t].at = "pin_between"]
  /\ UNCHANGED <<now, candidates>>

PinWritePinnedIp(t) ==
  /\ call[t].at = "pin_pinned_ip" /\ Granted(t, "pinned_ip", "write")
  /\ pinned_ip' = call[t].ip
  /\ queue' = [queue EXCEPT !["pinned_ip"] = Tail(@)]
  /\ call' = [call EXCEPT ![t].at = "pin_between"]
  /\ settled' = FALSE
  /\ UNCHANGED <<now, candidates>>

PinQueueCandidates(t) ==
  /\ call[t].at = "pin_between"
  /\ queue' = Queued(t, "candidates", "write")
  /\ call' = [call EXCEPT ![t].at = "pin_candidates"]
  /\ UNCHANGED <<now, pinned_ip, candidates, settled>>

PinWriteCandidates(t) ==
  /\ call[t].at = "pin_candidates" /\ Granted(t, "candidates", "write")
  /\ candidates' = FreshCandidates(ListFor(call[t].ip))
  /\ queue' = [queue EXCEPT !["candidates"] = Tail(@)]
  /\ settled' = call[t].alone
  /\ Return(t)
  /\ UNCHANGED <<now, pinned_ip>>

-----------------------------------------------------------------------------
(* update_result and mark_failure.  The address was picked before the call *)
(* and may have left the list by the time the lock is granted.             *)
ReportStart(t, ip, m) ==
  /\ Begin(t, [at |-> "report", ip |-> ip, m |-> m], "candidates", "write")
  /\ UNCHANGED <<now, pinned_ip, candidates, settled>>

(* Mutant of Report: an address that has left the list is put back.        *)
Report_PutsBack(t) ==
  /\ call[t].at = "report" /\ Granted(t, "candidates", "write")
  /\ candidates' =
       IF \E i \in DOMAIN candidates : candidates[i].ip = call[t].ip
       THEN UpdateResult(candidates, call[t].ip, call[t].m, now)
       ELSE Append(candidates, WithResult(Fresh(call[t].ip), call[t].m, now))
  /\ queue' = [queue EXCEPT !["candidates"] = Tail(@)]
  /\ Return(t)
  /\ UNCHANGED <<now, pinned_ip, settled>>

Report(t) ==
  /\ call[t].at = "report" /\ Granted(t, "candidates", "write")
  /\ candidates' = UpdateResult(candidates, call[t].ip, call[t].m, now)
  /\ queue' = [queue EXCEPT !["candidates"] = Tail(@)]
  /\ Return(t)
  /\ UNCHANGED <<now, pinned_ip, settled>>

-----------------------------------------------------------------------------
(* best_ip, defs, def_for_host: one read of the list under its guard. *)
ReadStart(t) ==
  /\ Begin(t, [at |-> "read"], "candidates", "read")
  /\ UNCHANGED <<now, pinned_ip, candidates, settled>>

Read(t) ==
  /\ call[t].at = "read" /\ Granted(t, "candidates", "read")
  /\ queue' = [queue EXCEPT !["candidates"] = Tail(@)]
  /\ Return(t)
  /\ UNCHANGED <<now, pinned_ip, candidates, settled>>

(* snapshot: copies the list, then asks for pinned_ip and reads it. *)
SnapshotStart(t) ==
  /\ Begin(t, [at |-> "snapshot"], "candidates", "read")
  /\ UNCHANGED <<now, pinned_ip, candidates, settled>>

SnapshotCopy(t) ==
  /\ call[t].at = "snapshot" /\ Granted(t, "candidates", "read")
  /\ call' = [call EXCEPT ![t] = [at |-> "snapshot_copied", seen |-> IpList(candidates)]]
  /\ queue' = [queue EXCEPT !["candidates"] = Tail(@)]
  /\ UNCHANGED <<now, pinned_ip, candidates, settled>>

SnapshotQueuePinnedIp(t) ==
  /\ call[t].at = "snapshot_copied"
  /\ queue' = Queued(t, "pinned_ip", "read")
  /\ call' = [call EXCEPT ![t].at = "snapshot_pinned_ip"]
  /\ UNCHANGED <<now, pinned_ip, candidates, settled>>

SnapshotReadPinnedIp(t) ==
  /\ call[t].at = "snapshot_pinned_ip" /\ Granted(t, "pinned_ip", "read")
  /\ queue' = [queue EXCEPT !["pinned_ip"] = Tail(@)]
  /\ Return(t)
  /\ UNCHANGED <<now, pinned_ip, candidates, settled>>

-----------------------------------------------------------------------------
(* A queue that t has left; t is in it at most once. *)
Without(q, t) ==
  IF \E i \in DOMAIN q : q[i].by = t
  THEN RemoveAt(q, CHOOSE i \in DOMAIN q : q[i].by = t)
  ELSE q

(* The future is dropped at an await.  A pin dropped between its writes is *)
(* never completed: the task stays "abandoned" so that the model knows it. *)
Drop(t) ==
  /\ Awaits(call[t]) # {}
  /\ queue' = [l \in Locks |-> Without(queue[l], t)]
  /\ call' = [call EXCEPT ![t] =
                IF @.at = "pin_candidates" THEN [@ EXCEPT !.at = "abandoned"] ELSE Idle]
  /\ UNCHANGED <<now, pinned_ip, candidates, settled>>

Tick ==
  /\ now < MaxTime
  /\ now' = now + 1
  /\ UNCHANGED <<pinned_ip, candidates, call, queue, settled>>

ClockSetBack ==
  /\ now > StartTime
  /\ now' = now - 1
  /\ UNCHANGED <<pinned_ip, candidates, call, queue, settled>>

(* What a task does once it is polled. *)
Step(t) ==
  \/ PinWritePinnedIp(t)
  \/ PinQueueCandidates(t)
  \/ PinWriteCandidates(t)
  \/ Report(t)
  \/ Read(t)
  \/ SnapshotCopy(t)
  \/ SnapshotQueuePinnedIp(t)
  \/ SnapshotReadPinnedIp(t)

Next ==
  \/ \E t \in Pinners, ip \in Ips \cup {None} : PinStart(t, ip)
  \/ \E t \in Reporters, ip \in Ips, m \in MeasureResult : ReportStart(t, ip, m)
  \/ \E t \in Viewers : ReadStart(t) \/ SnapshotStart(t)
  \/ \E t \in Tasks : Step(t)
  \/ \E t \in Tasks : Drop(t)
  \/ Tick
  \/ ClockSetBack

(* A task that can go on is polled: tokio's scheduler wakes the next task  *)
(* of a lock's queue, and runs every task that was woken.                  *)
Fairness == \A t \in Tasks : WF_vars(Step(t))

Spec == Init /\ [][Next]_vars /\ Fairness

-----------------------------------------------------------------------------
(* The list a snapshot has copied is still the group's list when it reads  *)
(* pinned_ip: the pair shown on the dashboard is the state of the group at *)
(* one moment, however long the snapshot had to wait for a pin call        *)
(* (snapshot holds its first guard across the second await).               *)
SnapshotSeesOneMoment ==
  \A t \in Viewers :
    SnapshotHasCopied(t) => call[t].seen = IpList(candidates)

(* Whatever earlier pin calls were dropped half-way, one that runs alone   *)
(* and to its end leaves pinned_ip and the list in agreement, until the    *)
(* next one writes: pinning again is how a half-done pin is repaired.      *)
PinningAgainRepairs ==
  settled => IpList(candidates) = ListFor(pinned_ip)

(* No two operations wait on each other and none is starved: whatever a    *)
(* task has called, it has returned from it, or was dropped, at some later *)
(* time (set_pinned_ip takes pinned_ip then candidates, snapshot           *)
(* candidates then pinned_ip).                                             *)
EveryCallReturns ==
  \A t \in Tasks : []<>(call[t].at \in {"idle", "abandoned"})

(* To everyone else the operations are the single steps of Selector.  What *)
(* was reported of an address can be read off its candidate; a pin dropped *)
(* between its writes is a call that never gets to the second.             *)
PinOf(t) ==
  IF Pinning(t) \/ call[t].at = "abandoned"
  THEN [at |-> IF call[t].at = "pin_pinned_ip" THEN "pinned_ip" ELSE "candidates",
        group |-> Group, ip |-> call[t].ip]
  ELSE [at |-> "idle", group |-> None, ip |-> None]

ReportedOf(ip) ==
  IF \E i \in DOMAIN candidates : candidates[i].ip = ip
  THEN LET c == candidates[CHOOSE i \in DOMAIN candidates : candidates[i].ip = ip]
       IN  [failed |-> c.last_fail_ts,
            last |-> IF c.fails > 0 THEN "fail"
                     ELSE IF c.latency_ms # None THEN "ok" ELSE "none"]
  ELSE [failed |-> 0, last |-> "none"]

Ops == INSTANCE Selector WITH
         Groups <- {Group},
         Bundled <- [g \in {Group} |-> Bundled],
         pinned_ip <- [g \in {Group} |-> pinned_ip],
         candidates <- [g \in {Group} |-> candidates],
         pin <- [t \in Pinners |-> PinOf(t)],
         reported <- [g \in {Group} |-> [ip \in Ips |-> ReportedOf(ip)]]

OperationsAreAtomic == Ops!Spec
=============================================================================
