# A TLA+ model of xboxproxy

xboxproxy is a reverse proxy for Xbox downloads. It picks one CDN address out
of a bundled list for each request, measures the addresses now and then, and
keeps a record of both in SQLite. Most of its code is sequential; what is hard
about it is that proxied requests, a speed-test loop, dashboard calls and a
database writer share a few cells of state, and that everything that fails is
retried, timed out or dropped somewhere.

This directory models that shared state and the handlers that touch it, checks
it with TLC on small instances, and proves the safety of every part for every
instance. Source paths below are relative to the repository
(`src/selector.rs` and so on).

## Inventory

| Part | State it keeps | Operations | Used by |
| --- | --- | --- | --- |
| Selector, `src/selector.rs` | per group: bundled list (fixed), `pinned_ip`, `candidates` (each under its own RwLock) | `best_ip`, `update_result`, `mark_failure`, `set_pinned_ip`, `snapshot`, `defs`, host matching | proxy, connector, speed test, dashboard |
| Live-traffic tracking, `src/metrics.rs` | two atomics: `active_requests`, `last_activity` | `begin_request`, drop of the guard, `is_busy` | proxy (writes), speed test (reads) |
| Speed-test control and loop, `src/speedtest.rs` | `Notify` permit, `pending_url` mutex, `running` flag; the loop's locals | `trigger`, `run_forever`, `wait_until_idle`, `run_controlled_pass`, `run_pass`, `measure` | dashboard (triggers), selector (results), database (rows) |
| Proxy handler, `src/proxy.rs` | locals per request; one `RecordState` shared by the handler and the response stream | retry loop, `CountingStream`, `finalize` | selector, metrics, database |
| Upstream connector, `src/proxy.rs`, and `measure`, `src/speedtest.rs` | a task-local address per request; the locals of a measurement | `request_with_ip`, `request_upstream`, `call`, `resolve`, `measure` | proxy and speed test |
| Database, `src/db.rs` | a channel, one writer connection, two tables | `record_*` (send), `writer_loop`, retention `Cleanup`, read queries | everything |
| Dashboard API, `src/dashboard.rs` | none | `summary`, `run_speedtest`, `pin_group`, listings | browser |
| Configuration, `src/endpoints.rs`, `src/main.rs` | none after start-up | `load`, `main` | everything |

They interact by calls on shared state (selector, metrics, control), by one
channel (rows to the writer), by one notification (dashboard to speed-test loop)
and by futures that may be dropped at any await (a client that goes away).

What makes each part correct, and what is hard about it:

- **Selector.** A group serves its bundled list or its pinned address and nothing
  else; an address that failed is avoided for the penalty if there is another;
  what the dashboard shows is what is served. Results arrive late, out of order,
  and for addresses that have left the list; a pin takes two locks; the wall
  clock is not monotonic.
- **Live-traffic tracking.** `is_busy` is true while the proxy is used, on two
  loads that race two writes at each end of each request; the counter never
  leaks; a quiet proxy is noticed. The stamp is of the wall clock, which may be set
  either way before it is read.
- **Speed-test loop.** A scheduled pass yields to downloads; a manual one is run,
  on the group that was asked for; `running` never sticks. Calls race the loop
  over a one-place mailbox and a one-place permit.
- **Proxy handler.** A retry goes elsewhere; the handler ends in time; a request is
  recorded once and correctly whether its body ends, fails or is dropped.
- **Upstream exchanges.** A request goes to the address that was picked for it, and
  ends by its timers. Several share one task and one task-local; an address may
  refuse, stay silent at any point, trickle or break off.
- **Front door.** A host is checked, rewritten and connected by three lookups that must
  agree; the length that is announced is of the body that is sent; headers meant for
  one connection stop at the proxy; a group serves what the dashboard, the environment or
  its file says, in this order, after any pins and restores.
- **Database.** Rows keep their order and their retention period across failed
  statements and restarts; a cleaned table stays clean; queries that share no
  transaction still add up.

The hazards behind these sentences are listed one by one, with their lines, in
`PROJECT.json`.

## Modules

| Module | Models | Extends |
| --- | --- | --- |
| `Candidates` | one candidate list as pure operators: `BestIp`, `ScoreAt`, `UpdateResult`, `WithResult`, the shown order | |
| `Selector` | the shared selector as a state machine | `Candidates` |
| `SelectorAbs` | what the selector promises: which addresses a group serves | |
| `SelectorLocks` | the selector of one group with its two lock queues, guards, readers and dropped calls; implements `Selector` | `Candidates` |
| `CandidatesProofs` | lemmas about the operators on a list | `Candidates`, TLAPS |
| `SelectorLocksProofs` | theorems about `SelectorLocks`, with the refinement of `Selector` | `SelectorLocks`, `CandidatesProofs` |
| `Metrics` | the two atomics, the request guard, `is_busy` and `wait_until_idle` | |
| `MetricsProofs` | theorems about `Metrics` | `Metrics`, TLAPS |
| `SpeedTest` | the speed-test loop and the dashboard calls that trigger it | |
| `SpeedTestProofs` | theorems about `SpeedTest` | `SpeedTest`, TLAPS |
| `Upstream` | exchanges with CDN addresses: connector, task-local, timers, the body a measurement reads | `Candidates` |
| `UpstreamProofs` | theorems about `Upstream` | `Upstream`, TLAPS |
| `Endpoints` | the endpoint table, the IP file, and the lookups by host name, as operators | |
| `FrontDoor` | start-up with its pin variables, routing and headers of a request, what dashboard calls may ask for | `Endpoints` |
| `FrontDoorProofs` | theorems about `FrontDoor` and the operators of `Endpoints` | `FrontDoor`, TLAPS |
| `Proxy` | requests composed with `Selector`: retries, stream, record, cancellation | `Selector` |
| `ProxyProofs` | theorems about `Selector` and about `Proxy`, with the refinement of the one by the other | `Proxy`, `CandidatesProofs` |
| `Db` | channel, writer, retention job, the summary's queries, crash and restart | |
| `DbProofs` | theorems about `Db` | `Db`, TLAPS |
| `MCSelector`, `MCSelectorLocks`, `MCUpstream`, `MCFrontDoor`, `MCSpeedTest`, `MCProxy` | constants for TLC | their module |

`PROJECT.json` maps every definition to its lines. Definitions named
`X_<something>` are variants of `X` with a plausible mistake in them; each shows
that some property notices that mistake.

**Candidates and Selector.** A list is a sequence of records in the order of the
IP file. `set_pinned_ip` writes `pinned_ip` and `candidates` under two locks taken
one after the other, so a call is three steps (`PinStart` computes the list and
refuses an empty one, `PinWritePinnedIp`, `PinWriteCandidates`) and calls
interleave; a call whose client goes away is dropped before its first write
(`PinDropped`) or stays between its two writes. `Report` is `update_result`, one step under one lock; `mark_failure`
is the report of `NoResponse`. Its address may have left the list. `best_ip`,
`defs` and `snapshot` only read and are state functions. `Tick` and `ClockSetBack`
move the Unix clock, which `SystemTime` lets go both ways. `reported` is a history
variable: the last outcome and last failure told to the selector of each address
since its list was built. `last_ok_ts` is written and never read, and left out.
`score_at` is over integers: speeds are members of a set of naturals.

**SelectorLocks.** A step is what an operation does under a lock, or one request for a
lock: the runtime has several threads, and others run between the two even where the
code has no await. So a pin that has given up `pinned_ip` asks for `candidates` in a
step of its own (`PinQueueCandidates`), and overlapping pins can overtake each other
there, as in `selector_overlapping_pins`; a snapshot that has copied the list asks
for `pinned_ip` likewise (`SnapshotQueuePinnedIp`). Each lock has
a FIFO queue, as tokio's `RwLock` has; `Holds` says which guards a task holds while
it waits for something else: only `snapshot` holds one (of `candidates`, until it has
read `pinned_ip`). `Drop` removes a task from its queue at any await (`Without`). The
refinement maps a queued call to one that has not taken its step yet, a pin dropped
half way to a call that stays between its writes, and reads the history variable
`reported` off the candidates. Groups share no lock, so one is modelled.

**Upstream.** An exchange is an attempt of the handler (`request_upstream`) or one
measurement (`measure`); each has its own `CURRENT_IP` cell, set by
`request_with_ip` and read by the connector, which is called later. Timers that are
due fire before the clock goes on. A body comes in pieces; the speed of a result is
"none" or "some", which is what tells successes apart, and latency is the tick at
which the headers came.

**Endpoints and FrontDoor.** A host name is the sequence of its labels; the table is
that of `src/endpoints.rs`, whole. Spelling is what the code normalises: upper-case
letters and trailing dots. The syntax of a `Host` header is reduced to three forms
(a host, a host and a port, one with user information). A header list is a sequence
of names and values, and the value of `Connection` the set of names it lists; what is
relayed of it is the headers that are kept, each at its place. `LoadBundled` takes a
file line by line (`TakeLine`). One
request or call is in hand at a time: what they share is the lists, which `Selector`
has under concurrent use.

**Metrics.** Each atomic access is a step: two writes when a request begins, two
when its guard is dropped, two loads in `is_busy`. The body is streamed after the
guard is gone, as in the code, where the guard is a local of the handler. Time is
kept as ages, capped where nothing tells larger ones apart; a step that takes a
few instructions is taken before time passes (`SomethingDue`). Sleeps and handlers
go by the time that passes (`Tick`); the stamp and `is_busy` read the wall clock
(`now_unix`), which `ClockSetBack` and `ClockSetForward` move at any moment, also
between the two loads: a stamp's age can jump and be negative, and the subtraction
of `is_busy` saturates (`SinceActivity`). `set_back` and `set_ahead` remember how the
clock was set since the last stamp.

**SpeedTest.** Each access to `pending_url`, the permit and `running` is a step;
`is_busy` is an input that may change at any moment. A URL stands for the group
that owns its host (`run_speedtest` has refused every other one). A wave is any
`MaxConcurrency` tests of those left; its results are applied one at a time. The
program is not pinned by its environment, since then the loop is never spawned.

**Proxy.** A step ends where the handler awaits: pick, send, answer or fail, mark,
reply; then the stream: chunk, error, end, drop. `Cancel` drops the handler at any
of its awaits. The same clock, pins and speed-test reports as in `Selector`
interleave with it, except that the clock is not set back. An attempt uses the
address the handler picked: connections are not pooled and the connector reads
the address from the task. The header timeout is assumed to be no longer than the
penalty (30 s and 60 s in the program). `build_req` cannot fail on a URI that parsed and is
left out, as are requests answered before the guard is taken (400 and 404).

**Db.** A table is a set of rows, and a row its id, its send number and its timestamp;
`last_id` is what AUTOINCREMENT remembers. Times are hours. A statement takes
effect at once and for good or fails and has none; that is what SQLite is assumed
to do. `CrashAndRestart` loses the channel and the rest of a cleanup and keeps the
tables. `summary` reads its clock and then queries one by one, with the writer in
between: two totals, the points of the chart (`SeriesSince`), the status counts and
the list of requests; `Answer` ends it, whether with an answer, a failed query (500)
or a client that left. Of the chart and the list the call keeps how many requests
they show. A cutoff before the model's time 0 counts as 0, since no row is older.
The clock is not set back.

## Runs

All runs of `PROJECT.json` use two workers or fewer and take at most about two
minutes each.

| Run | Shows |
| --- | --- |
| `selector_serial` | with one dashboard call at a time: a group serves what `pinned_ip` says, a failure is quarantined, the down flag is current, the address badged "best" is served unless it failed within the penalty, and `Selector` implements `SelectorAbs` |
| `locks` | with two pins that may overtake each other between the locks: a snapshot is of one moment; pinning again repairs a pin that was dropped half way; the operations are the single steps of `Selector`; no call waits for ever |
| `upstream` | each exchange dials what it asked for, ends within its timeouts, and reports what `Candidates` says a measurement can |
| `front_door` | the three host lookups agree; a group serves what the dashboard, the environment or its file says, in this order; lengths, hop-by-hop headers and forwarded-for headers are right on both sides |
| `metrics` | the counter is exact; idle means the proxy was quiet at some moment of the call; a lull is noticed within `busy_retry_sec`, but for as long as the clock was set back, and a pass runs |
| `speedtest` | passes test what they were asked to, yield, end and recur; an accepted call is followed by a forced pass if traffic permits |
| `proxy` | a retry moves on, a handler ends within its attempts' timeouts, one correct record per answered request |
| `db` | cleaned tables stay clean, order and retention survive failures and restarts, the parts of a summary add up |
| `selector_overlapping_pins` | violated: two overlapping pins of a group |
| `metrics_download` | violated: a pass starts while a body is streamed |
| `speedtest_overwritten` | violated: the second of two accepted URLs replaces the first |
| `speedtest_stale_permit` | violated: a permit left behind starts a pass over every group |

The runs marked violated state what a comment or the README of the repository says
and find the code doing otherwise; `PROJECT.json` quotes each sentence under
`findings`. None of these disagreements makes the others' properties vacuous: the
passing properties are stated so that they hold of the code as it is.

Some exceptions are part of passing properties and are worth knowing.

- `IdleOnlyIfQuiet` excepts a guard dropped half way after a handler that outlived
  the grace period: the drop decrements before it stamps, and in between `is_busy`
  answers false although a request has just ended. It also excepts a wall clock that
  was set forward since the last stamp, which makes a fresh stamp look old.
- `WaitEndsInTime` lets the wait be longer by as much as the wall clock was set back
  since the last stamp: until the clock has caught up with the stamp, the
  subtraction gives 0 and `is_busy` stays true on a quiet proxy.
- `BadgeIsServedUnlessItFailed`: `best_ip` filters on the last failure alone, the shown
  ranking looks at it only for candidates that are down. An address that failed and
  then succeeded within the penalty is shown first, up and badged, and gets no traffic.
- `TriggerForcesPassInLull` asks for a lull if automatic passes are on. README says that
  a forced pass "runs immediately even while a download is in progress"; while the
  loop is in `wait_until_idle` it does not look at the notification.
- `RecordTellsWhatHappened` says that a record has an error when an attempt *or* the
  body failed: `last_err` is not cleared by a retry that succeeds, so a response with
  status 200 may be recorded with an error.
- `RoutedToItsCdn` is about the table of the source, which has fourteen domains and
  everything under them; "Only these six hosts are accepted" (README) is not what
  the code does.
- `HeadersFitTheHop` says nothing of repeated headers: of a request header that comes
  twice only the last value is forwarded (`fwd.insert`), while every value of a
  response header is relayed. The model has both, the repository asks for neither.
- `ListFollowsThePins` says nothing of a group that the environment pinned and the
  dashboard restored, because code and docs disagree. The code gives it the
  environment's address: `bundled_ips` is a copy of the list made after that pin
  (selector.rs:77), and `pinned_ip` is `None` all the same. The comments of
  `pinned_ip` (selector.rs:51) and `set_pinned_ip` (selector.rs:217), README.md:42-43
  and 161 and the dashboard's message (dashboard.html:191) all say the bundled
  candidate list.
  A dashboard pin on a group that the environment pinned is allowed.

### Bounds

| Run | Bounds | Why they are enough |
| --- | --- | --- |
| `selector_*` | one group, a bundled list of two, a third address to pin, speeds 0 and 2, one latency, penalty 1, counter up to 2, clock 2 to 5 | groups share nothing but the clock; two candidates give ties, a quarantined one beside a clean one and an empty pool; the clock passes a penalty twice and goes back; the counter saturates |
| `locks` | one group, two tasks that pin, one that reports (a failure, the only result: its order is what matters to the locks), one that reads; clock 2 to 3 | a queue can hold readers and writers in every order, and every task can be dropped at every await; two pins overlap |
| `upstream` | two exchanges at a time, any number after each other; two addresses | two futures of a task race for the cell; one can trickle while the other connects; the three timeouts keep their order (2 s, 10 s and 30 s in the program), and a silent connect, silent headers and a slow body each meet the timer meant for it |
| `front_door` | the whole table, thirteen host names, five request and two response header lists, files with a duplicate and a line that is no address; each pin variable unset, blank, bad or an address | the names are listed ones of both groups, one below a listed one, parents, neighbours, a group's name, another spelling, an empty one; the header lists have each name that the code treats specially |
| `metrics*` | two requests that may come again for ever, grace 2, retry 2, handler limit 3, the clock set back by at most 2 between two stamps and forward by any amount | two requests overlap in every way at the counter; as in the code grace = retry (60 s) and a handler (90 s) may outlive both; a clock set back by the whole grace period makes the stamp negative and keeps a quiet proxy busy for longer than a retry |
| `speedtest*` | groups of three and one addresses, waves of two, one or two calls at a time | a pass of several waves with a partial last one, and two calls over a mailbox of one place; the loop has no other unbounded state |
| `proxy` | one request, two addresses, one call pinning, penalty 2, header timeout 1, clock 3 to 6, a body of one chunk | three attempts and more time than the penalty; the ratio of penalty to timeout is that of the code (60 s to 30 s); other requests act on this one through `SpeedTestReports`, whose failures are theirs too; a status of 502 from upstream is the one that must be told from the proxy's own |
| `db*` | two rows, a channel of two commands, a point of the chart 2, hour 2, day 3, retention 4, clock 0 to 5, a list of one request | a row can be older than the retention while another waits in the channel; the order of the windows is that of the code; the window of the chart starts in the middle of a point half of the time |

`MaxTime`, `MaxRows`, `MaxChannel`, `MaxChunks` and `MaxBack` bound what is unbounded in
the program, and only in guards (`MaxPiece` bounds what one frame of a body brings).
`proxy` does not check deadlock: its request is made once and its clock stops at
`MaxTime`. Nor does `front_door`: a process whose pin variable does not parse exits.

### Fairness

`Selector`, `FrontDoor`, `Proxy` and `Db` have safety properties only and assume no fairness.

`Metrics` (`FairSpec`): time passes; the runtime polls the loop; a handler that
has begun ends, because its attempts are bounded by `UPSTREAM_HEADER_TIMEOUT`
(`HandlerEndsInTime` in `Proxy` shows that bound) and a drop that has begun runs to
its end. Nothing is assumed of when requests come, bodies end or the clock is set.

`SelectorLocks`: weak fairness of each task's next step: tokio wakes the head of a
lock's queue and polls what was woken. Nothing is assumed of who calls or leaves.

`Upstream`: a started future is polled (`Resolve`), due timers fire (`TimesOut`), and
time passes. The clock is strongly fair because an exchange that begins disables it
until it is polled; it is not stopped by that. Nothing is assumed of the network.

`SpeedTest`: weak fairness on the steps of the loop, whose waits are timers or are
bounded by the timeouts of `measure`, and on the two steps of a call that has passed
its checks, which awaits nothing. `Notified` is strongly fair: the loop leaves and
re-enters its `select`, and each time it enters with a permit present that branch is
ready while the timer is a new one of `interval_sec`. Nothing is assumed of traffic
or callers.

## Proofs

The theorems below are checked by TLAPS and hold for every value of the constants
under the assumptions that the modules name: every set of groups, addresses, requests,
callers and tasks, every timeout and every bound. What the assumptions add is small,
and each is what the code ensures or what its constants are: bundled lists are
non-empty and without duplicates (`load_bundled`), `None` is not an address or a number,
there is a highest speed, `F64Min` is below every score, the clock starts later than
the penalty, so that `last_fail_ts = 0` means "long ago", the header timeout is no
longer than the penalty, there are finitely many groups, an hour is shorter than a day
and a day than the retention period; a file is a sequence of lines with an address
among them (else the build stops), a host name a sequence of labels, and no label of
the table has an upper-case letter. The bounds `MaxTime`, `MaxRows`, `MaxChannel`,
`MaxChunks` and `MaxBack` are arbitrary in the proofs.

Each safety property that the runs check is a theorem: every invariant, every action
property and both refinements.

**CandidatesProofs.** What the operators on a list return, for the three modules that
run them. `BestExists` and `ShownFirstIsFirst` show that the `CHOOSE` in `BestIp` and in
`ShownFirst` has a value: a finite, non-empty pool has a maximal score, and a last, or
first, candidate among the maximal ones. `OneUpdated` and `Stamped` say that a result
changes the one candidate with its address. `ScoreOrder` makes the comment "download
speed dominates, latency breaks ties" exact: of two candidates not shown down the one
with the higher score is the faster one unless it is slower to answer by at least
1000 ms for each kbps it gains, and every candidate that is up precedes one that is down.

**ProxyProofs, of the selector.**

- `TypeCorrect`: `Spec => []TypeOK`. No list is ever empty, so `best_ip` always
  answers for a managed host.
- `ServingRefinesAbs`: `Spec => ServesOnlyWhatIsPinned`, the refinement of
  `SelectorAbs`: what is served is the bundled list or one pinned address, and goes
  from one to the other in one step. This holds with overlapping pins too.
- `Quarantine`, `DownShownIsCurrent` and `BadgeIsServed`: `FailureIsQuarantined`,
  `DownIsCurrent` and `BadgeIsServedUnlessItFailed` as invariants.
- `SerialPins`: `PinnedIpTellsTheList` is an invariant provided that at most one
  pin call is in flight at a time. `selector_overlapping_pins` shows that the
  proviso is needed.

Neither `FailureIsQuarantined` nor `DownIsCurrent` is inductive: they relate what
was reported to what `BestIp` and the down flag say, but not to the fields these are
computed from. `Ledger` is the strengthening: no address is listed twice, and each
candidate's `last_fail_ts`, `fails` and `down` are what the reports since the list
was built make of them. `LedgerInductive` proves it, by `FreshLedger` for a rebuilt
list and `ReportLedger` for a result; no duplicates is what lets a result for one
address leave the others' fields alone. `SerialPins` needs `MidCall`: between its two
writes, the one call in flight is the one that wrote `pinned_ip` last.

**SelectorLocksProofs.**

- `LocksTyped`: `TypeOK`, of which the last conjunct is the point: a task is in the
  queue of a lock, once, exactly if its call is at an await of that lock.
- `SnapshotIsOneMoment` and `PinningRepairs`.
- `LocksImplementSelector`: `Spec => OperationsAreAtomic`. Each critical section,
  each request for a lock, each drop and each return is one step of `Selector` or none,
  under the mapping that the run uses, also where pins overtake each other between
  the two locks.

`LocksTyped` rests on `QueuesInLine`, which says of each queue that it holds exactly the
waiters of the lock, each once; `LineStep` shows it for a queue and a task that joins,
is served or is dropped, whatever operation does it. `SnapshotSeesOneMoment` is
inductive by itself: a writer is not `Granted` the list while a snapshot holds it. `PinningAgainRepairs` needs `PinState`: of calls that run alone there is one, and
what it wrote to `pinned_ip` is still there when it writes the list. `AtomicStep`
proves the mapping for a step; what a step of the locks does to the mapped history
`reported` is in `ToldFresh` and `ToldUpdate`, and rests on the candidates having no
duplicates. The mapping reads the history off the candidates, and so shows that
they hold what `Selector` says was reported.

**ProxyProofs, of the proxy.**

- `ProxyImplementsSelector`: `ProxySpec => Spec`. `ProxyKeepsTheSelector` draws from it
  that `ServesOnlyWhatIsPinned`, `FailureIsQuarantined`, `DownIsCurrent` and
  `BadgeIsServedUnlessItFailed` hold of the selector under the proxy's own traffic.
- `ProxyTyped`, `OneRecord` and `RecordIsTrue`, from `Attempts`: what has been recorded
  of a request is one record with what its locals say now, or nothing, and that
  depends on where the request is.
- `HandlersEndInTime`, from `Timely`: when an attempt began, by how many have been made.
- `RetriesMoveOn`, from `Marked`: each address the request has tried in vain and that
  the list still has carries a failure no older than the attempts made since. Three
  attempts of a header timeout each put the oldest of these failures at most one
  timeout before the last pick: here `HeaderTimeout <= Penalty` is used, and a retry
  could return to an address without it. The history `failed` starts afresh when a pin
  rebuilds the list, as the candidates do: what a pin was asked to serve is tried again.

**SpeedTestProofs.** `SpeedTestTyped`, `PassIsComplete` and `PassYields`, from one
invariant, `Passes`. It says that a pass splits its targets into what was tested, what
is being tested and what is left (`Splits`), so that a forced pass that finishes has
nothing left; and that a wave that was started when nothing was downloaded is all that can
still come in (`Yields`: what it has reported since and what is left of it are together
no more than a chunk). The action-by-action proof is over the locals of the pass alone.

**UpstreamProofs.** `UpstreamTyped`, `DialsTheAsked` and `ExchangesEndInTime`, from `Sound`,
an invariant of one exchange and its cell: the cell holds what the running exchange
asked for, and the age of a measurement that reads its body is at most the
time until the headers and the time on the clock of the read loop, which each
read's timeout is cut to. `EndsInTime` alone is not inductive: without the second
clock it could not be told when a read began. `Tick` is the one step that ages every
exchange, and preserves the bound because due timers fire before it (`TickSound`).

**FrontDoorProofs.**

- `BundledInFileOrder`: what `load_bundled` makes of any file has each address once, in
  the order in which they come first, and nothing else. `LoadBundled` is a recursive
  function; that it exists (`LoadingExists`) and what it has after `n` lines (`Loaded`)
  are shown by a least `n` for which they would fail, since the library's induction
  theorems cannot be instantiated. `TakeLineLoads` is the step of one line.
- `FrontDoorTyped` and `ListsFollowPins`, from `ListsInv`: what a group is restored to is
  its environment pin or the list of its file (`Restorable`), and what it serves is its
  last dashboard pin or that. `ListFollowsThePins` is not inductive: it speaks of the
  list that is served, and the next restore serves `bundled`.
- `HeadersFit`: for every list of headers, from what is kept of one (`ForwardedHas`,
  `RelayedFits`).
- `RoutedRight` and `OneMatch`, for every host name and spelling. `SuffixOfThree` says that
  a listed domain claims a name exactly if it is its last three labels, `Normalized` what
  normalising does to a name, and that it leaves the table's domains alone. So no two
  domains, all different (`ClientsDiffer`), claim one host (`OneMatch`), and the
  order in which the three lookups walk the table does not matter (`Lookups`). Every upstream Host is a domain
  of its own group (`UpstreamIsClient`), which is what the connector needs
  (`UpstreamLookup`). A group's name cannot be mistaken for a host that is claimed: it is
  one label. These proofs are about the table of the source; a domain added under
  another, or an upstream Host outside its group, would break `ThreeLabels`,
  `ClientsDiffer` or `UpstreamIsClient`.

**DbProofs.**

- `DbTyped` and `IdsFollowSending`, from `Numbered`: rows in the channel are in the
  order of sending and later than every row that was written, and ids are bounded by
  `last_id`. Without the order of the channel the next insert could have any number.
- `CleanStays`, from `Dated`: a row in the channel is at least as young as every cutoff in front
  of it, as the one being applied and as those that were applied, for the cutoff was
  taken from an earlier clock. That is why a row that waited brings nothing old back.
- `RowsAreKept`: the action property `KeptForRetention`, from the same invariant: every
  cutoff in the channel is of the retention period before now or older.
- `SummariesAddUp`, from `Counted`: for each call, how its numbers so far compare with
  what the next query would count now. A count only grows while its window is within
  the retention period (`CountGrows`, from `RowsAreKept`), and the points of the
  chart together are the rows of its window (`SeriesShowsAll`). `RecentShowsAll` shows
  that the list has every row of the hour unless it is full.

**MetricsProofs.**

- `MetricsTyped` and `CounterExact`: `Spec => []TypeOK`, `Spec => []InFlightIsCounted`.
  The two are proved as one invariant, `CountInv`: that the counter is never
  negative is a consequence of what it counts.
- `IdleMeansQuiet`: `IdleOnlyIfQuiet` is an invariant.
- `WaitInTime`: `WaitEndsInTime` is an invariant.

The last two rest on `Stamps`, proved inductive in `StampsInductive`: unless the clock
was set forward, the stamp is no older by it than a handler that is running or whose
guard is being dropped, and no older than the last drop once that is over; with
nothing in flight it is as old as the last drop, but for how far the clock was set
back. Without it a state in which the counter is zero
and the stamp unrelated to the requests could not be excluded. From it `OldStamp`
shows what the second load of `is_busy` tells. `IdleOnlyIfQuiet` speaks of the end of
a call only, so `BetweenLoads` adds what the first load left behind.
`WaitEndsInTime` needs `QuietInSleep`: when a sleep begins, the proxy is not quiet or has
been quiet for less than the clock was set back. That is so because on a quiet proxy
the stamp grows old at the pace of the lull but for the set-back (`QuietAges`), and
a stamp of at least the grace period ends the wait.

**Only model-checked.** The liveness properties (`EveryCallReturns`, `EveryExchangeEnds`,
`LullLetsPassRun`, `PassEnds`, `TriggerForcesPassInLull`, `ScheduledPassesRecur`):
temporal reasoning under fairness, with `ENABLED`, is beyond the prover.

## Not modelled

- HTTP and TCP inside hyper, timers and locks inside tokio, SQLite: external, assumed
  to do what the modules that use them say.
- The syntax of addresses, URLs and authorities beyond the forms named above, the
  `Range` header of a measurement, and the speed in kbps beyond what ranks.
- The calls `requests` and `speedtests` of the dashboard: one query each of those that
  `summary` makes.
- A writer thread that panics while it prepares its statements; the length of the
  channel to it.
- The dashboard page, logging, packaging, CI.

## Plan

Done: `Candidates`, `Selector`, `SelectorAbs`, `Metrics`, `SpeedTest`, `Proxy`, `Db`,
`SelectorLocks`, `Upstream`, `Endpoints`, `FrontDoor`, and the proofs about all of them.
Left: a composition of `Metrics`, `SpeedTest` and `Proxy`'s request life cycle, with
`is_busy` computed instead of an input.
