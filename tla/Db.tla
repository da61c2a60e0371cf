--------------------------------- MODULE Db ----------------------------------
(***************************************************************************)
(* The database side (src/db.rs, the retention job of src/main.rs and the  *)
(* summary call of src/dashboard.rs).  Handlers and speed tests send rows  *)
(* over a channel to one writer thread, which commits each command by      *)
(* itself; dashboard calls read over connections of their own, a query at  *)
(* a time.  The process can die at any moment and be started again.        *)
(*                                                                         *)
(* A row is its id, its send number and its timestamp; what else it holds  *)
(* does not matter here.  Times are hours.  SQLite itself is external: a   *)
(* statement takes effect at once and for good, or fails and has none.     *)
(***************************************************************************)
EXTENDS Integers, Sequences, FiniteSets

CONSTANTS
  Bucket,        \* the width of one point of the chart
  Hour, Day,     \* the windows of the summary
  RecentLimit,   \* how many requests the summary lists
  Retention,     \* retention_days
  MaxTime,       \* bound on the clock
  MaxRows,       \* bound on the rows sent
  MaxChannel,    \* bound on the channel, which is unbounded
  Readers        \* dashboard calls of summary that can be running at a time

ASSUME DbAssumption ==
  /\ Bucket \in Nat \ {0} /\ Hour \in Nat \ {0} /\ Day \in Nat /\ Retention \in Nat
  /\ RecentLimit \in Nat
  /\ Hour < Day /\ Day < Retention
  /\ MaxTime \in Nat /\ MaxRows \in Nat /\ MaxChannel \in Nat

Tables == {"requests", "speedtests"}

VARIABLES
  now,
  channel,       \* commands sent and not received
  deleting,      \* the Cleanup that is between its two statements, if one is
  rows,          \* per table, the rows in it
  last_id,       \* per table, the last id given to a row (AUTOINCREMENT)
  next_cleanup,  \* when the retention job's ticker ticks next
  summary,       \* per dashboard call of summary: its now, its counts
  sent,          \* history: rows sent so far
  cleaned        \* history: per table, the last cutoff it was cleaned to

writerVars == <<channel, deleting, rows, last_id, next_cleanup, sent, cleaned>>
vars == <<now, summary, writerVars>>

Sent == [n : 1 .. MaxRows, ts : 0 .. MaxTime]

Row == [id : 1 .. MaxRows, n : 1 .. MaxRows, ts : 0 .. MaxTime]

(* No row is older than the model's clock: a cutoff before 0 is like 0.    *)
Cutoffs == 0 .. MaxTime

Ago(age) == IF age < now THEN now - age ELSE 0

Insert(table, row) == [kind |-> "insert", table |-> table, row |-> row]

Cleanup(cutoff) == [kind |-> "cleanup", cutoff |-> cutoff]

Command ==
  {Insert(table, row) : table \in Tables, row \in Sent} \cup {Cleanup(c) : c \in Cutoffs}

NoSummary ==
  [at |-> "none", now |-> 0, hour |-> 0, day |-> 0, series |-> 0, status |-> 0, recent |-> 0]

TypeOK ==
  /\ now \in 0 .. MaxTime
  /\ channel \in Seq(Command)
  /\ deleting \in {<< >>} \cup {<<c>> : c \in Cutoffs}
  /\ rows \in [Tables -> SUBSET Row]
  /\ last_id \in [Tables -> 0 .. MaxRows]
  /\ next_cleanup \in 0 .. MaxTime + Hour
  /\ summary \in [Readers ->
       [at : {"none", "hour", "day", "series", "status", "recent", "done"},
        now : 0 .. MaxTime, hour : 0 .. MaxRows, day : 0 .. MaxRows,
        series : 0 .. MaxRows, status : 0 .. MaxRows, recent : 0 .. MaxRows]]
  /\ sent \in 0 .. MaxRows
  /\ cleaned \in [Tables -> Cutoffs]

Init ==
  /\ now = 0
  /\ channel = << >>
  /\ deleting = << >>
  /\ rows = [table \in Tables |-> {}]
  /\ last_id = [table \in Tables |-> 0]
  /\ next_cleanup = 0
  /\ summary = [d \in Readers |-> NoSummary]
  /\ sent = 0
  /\ cleaned = [table \in Tables |-> 0]

-----------------------------------------------------------------------------
(* record_request, record_speedtest: the row is stamped and sent. *)
Record(table) ==
  /\ sent < MaxRows /\ Len(channel) < MaxChannel
  /\ sent' = sent + 1
  /\ channel' = Append(channel, Insert(table, [n |-> sent + 1, ts |-> now]))
  /\ UNCHANGED <<now, deleting, rows, last_id, next_cleanup, summary, cleaned>>

(* Mutant of RetentionTick: the cutoff has the wrong sign. *)
RetentionTick_WrongSign ==
  /\ next_cleanup <= now /\ Len(channel) < MaxChannel
  /\ next_cleanup' = next_cleanup + Hour
  /\ channel' = Append(channel, Cleanup(now + Retention))
  /\ UNCHANGED <<now, deleting, rows, last_id, summary, sent, cleaned>>

(* Mutant of RetentionTick: keeps a day. *)
RetentionTick_OneDay ==
  /\ next_cleanup <= now /\ Len(channel) < MaxChannel
  /\ next_cleanup' = next_cleanup + Hour
  /\ channel' = Append(channel, Cleanup(Ago(Day)))
  /\ UNCHANGED <<now, deleting, rows, last_id, summary, sent, cleaned>>

(* The retention job: a ticker whose first tick is immediate. *)
RetentionTick ==
  /\ next_cleanup <= now /\ Len(channel) < MaxChannel
  /\ next_cleanup' = next_cleanup + Hour
  /\ channel' = Append(channel, Cleanup(Ago(Retention)))
  /\ UNCHANGED <<now, deleting, rows, last_id, summary, sent, cleaned>>

-----------------------------------------------------------------------------
(* writer_loop *)
Receives == deleting = << >> /\ channel # << >>

(* An id is one more than the last one given in the table, even if that    *)
(* row is gone.                                                            *)
WriteRow ==
  /\ Receives
  /\ Head(channel).kind = "insert"
  /\ LET table == Head(channel).table
         row == Head(channel).row
         id == last_id[table] + 1
     IN  /\ rows' = [rows EXCEPT ![table] = @ \cup {[id |-> id, n |-> row.n, ts |-> row.ts]}]
         /\ last_id' = [last_id EXCEPT ![table] = id]
  /\ channel' = Tail(channel)
  /\ UNCHANGED <<now, deleting, next_cleanup, summary, sent, cleaned>>

(* Mutant of RowFails: a failed row goes to the back of the queue. *)
RowFails_Requeues ==
  /\ Receives
  /\ Head(channel).kind = "insert"
  /\ channel' = Append(Tail(channel), Head(channel))
  /\ UNCHANGED <<now, deleting, rows, last_id, next_cleanup, summary, sent, cleaned>>

(* The statement fails (busy, disk full): the row is dropped with a warning. *)
RowFails ==
  /\ Receives
  /\ Head(channel).kind = "insert"
  /\ channel' = Tail(channel)
  /\ UNCHANGED <<now, deleting, rows, last_id, next_cleanup, summary, sent, cleaned>>

(* Mutant of Delete: ts < cutoff - 1. *)
Delete_OffByOne(table, cutoff) ==
  /\ rows' = [rows EXCEPT ![table] = {row \in @ : row.ts >= cutoff - 1}]
  /\ cleaned' = [cleaned EXCEPT ![table] = cutoff]

Delete(table, cutoff) ==
  /\ rows' = [rows EXCEPT ![table] = {row \in @ : row.ts >= cutoff}]
  /\ cleaned' = [cleaned EXCEPT ![table] = cutoff]

DeleteFails == UNCHANGED <<rows, cleaned>>

DeleteRequests ==
  /\ Receives
  /\ Head(channel).kind = "cleanup"
  /\ Delete("requests", Head(channel).cutoff) \/ DeleteFails
  /\ deleting' = <<Head(channel).cutoff>>
  /\ channel' = Tail(channel)
  /\ UNCHANGED <<now, last_id, next_cleanup, summary, sent>>

(* Whether or not the first statement failed. *)
DeleteSpeedtests ==
  /\ deleting # << >>
  /\ Delete("speedtests", Head(deleting)) \/ DeleteFails
  /\ deleting' = << >>
  /\ UNCHANGED <<now, channel, last_id, next_cleanup, summary, sent>>

-----------------------------------------------------------------------------
(* summary: its clock is read first, then the queries run one by one.      *)
Requests == rows["requests"]

Since(ts) == {row \in Requests : row.ts >= ts}

(* stats_since and status_counts *)
CountSince(ts) == Cardinality(Since(ts))

BucketOf(ts) == (ts \div Bucket) * Bucket

(* series_since: the points of the chart, each the rows that it counts.    *)
(* The first one starts before the window if the window does not start at  *)
(* a multiple of Bucket.                                                   *)
SeriesSince(ts) ==
  [b \in {BucketOf(row.ts) : row \in Since(ts)} |->
     {row \in Since(ts) : BucketOf(row.ts) = b}]

(* recent_requests: the rows with the highest ids.                         *)
RecentSince(ts, limit) ==
  {row \in Since(ts) : Cardinality({later \in Since(ts) : later.id > row.id}) < limit}

SummaryStart(d) ==
  /\ summary[d].at = "none"
  /\ summary' = [summary EXCEPT ![d] = [NoSummary EXCEPT !.at = "hour", !.now = now]]
  /\ UNCHANGED <<now, writerVars>>

QueryHour(d) ==
  /\ summary[d].at = "hour"
  /\ summary' = [summary EXCEPT ![d].at = "day",
                                ![d].hour = CountSince(summary[d].now - Hour)]
  /\ UNCHANGED <<now, writerVars>>

QueryDay(d) ==
  /\ summary[d].at = "day"
  /\ summary' = [summary EXCEPT ![d].at = "series",
                                ![d].day = CountSince(summary[d].now - Day)]
  /\ UNCHANGED <<now, writerVars>>

(* Mutant of QuerySeries: only points that lie within the window. *)
QuerySeries_WholeBuckets(d) ==
  /\ summary[d].at = "series"
  /\ LET since == summary[d].now - Hour
         series == SeriesSince(since)
         whole == {b \in DOMAIN series : b >= since}
     IN  summary' = [summary EXCEPT ![d].at = "status",
                       ![d].series = Cardinality(UNION {series[b] : b \in whole})]
  /\ UNCHANGED <<now, writerVars>>

QuerySeries(d) ==
  /\ summary[d].at = "series"
  /\ LET series == SeriesSince(summary[d].now - Hour)
     IN  summary' = [summary EXCEPT ![d].at = "status",
                       ![d].series = Cardinality(UNION {series[b] : b \in DOMAIN series})]
  /\ UNCHANGED <<now, writerVars>>

QueryStatus(d) ==
  /\ summary[d].at = "status"
  /\ summary' = [summary EXCEPT ![d].at = "recent",
                                ![d].status = CountSince(summary[d].now - Day)]
  /\ UNCHANGED <<now, writerVars>>

(* After the locks of snapshot, which may take time. *)
QueryRecent(d) ==
  /\ summary[d].at = "recent"
  /\ summary' = [summary EXCEPT ![d].at = "done",
                    ![d].recent = Cardinality(RecentSince(summary[d].now - Hour, RecentLimit))]
  /\ UNCHANGED <<now, writerVars>>

(* The call ends: answered, or with a 500 because a query failed, or with  *)
(* its client gone.                                                        *)
Answer(d) ==
  /\ summary[d].at # "none"
  /\ summary' = [summary EXCEPT ![d] = NoSummary]
  /\ UNCHANGED <<now, writerVars>>

-----------------------------------------------------------------------------
(* The process dies and is started again (Db::start): what was not written *)
(* is lost, the tables are as they were.                                   *)
CrashAndRestart ==
  /\ channel' = << >>
  /\ deleting' = << >>
  /\ next_cleanup' = now
  /\ summary' = [d \in Readers |-> NoSummary]
  /\ UNCHANGED <<now, rows, last_id, sent, cleaned>>

(* A call of summary takes less than the days between Day and Retention.   *)
Tick ==
  /\ now < MaxTime
  /\ \A d \in Readers :
       summary[d].at = "none" \/ now < summary[d].now + (Retention - Day)
  /\ now' = now + 1
  /\ UNCHANGED <<summary, writerVars>>

Next ==
  \/ \E table \in Tables : Record(table)
  \/ RetentionTick
  \/ WriteRow
  \/ RowFails
  \/ DeleteRequests
  \/ DeleteSpeedtests
  \/ \E d \in Readers : SummaryStart(d)
  \/ \E d \in Readers : QueryHour(d)
  \/ \E d \in Readers : QueryDay(d)
  \/ \E d \in Readers : QuerySeries(d)
  \/ \E d \in Readers : QueryStatus(d)
  \/ \E d \in Readers : QueryRecent(d)
  \/ \E d \in Readers : Answer(d)
  \/ CrashAndRestart
  \/ Tick

Spec == Init /\ [][Next]_vars

-----------------------------------------------------------------------------
(* The summary adds up though its queries share no transaction, whatever   *)
(* is written or cleaned in between: the last hour is within the last day, *)
(* the status counts are at least those of the day, and the chart and the  *)
(* list show no less than the hour's total.  The first point of the chart  *)
(* is not cut though the window starts in the middle of it, and the list   *)
(* ends early only if it is full.                                          *)
SummaryAddsUp ==
  \A d \in Readers :
    LET s == summary[d]
    IN  /\ s.at \in {"series", "status", "recent", "done"} => s.hour <= s.day
        /\ s.at \in {"status", "recent", "done"} => s.hour <= s.series
        /\ s.at \in {"recent", "done"} => s.day <= s.status
        /\ s.at = "done" => s.recent >= s.hour \/ s.recent >= RecentLimit

(* A table that was cleaned to a cutoff holds no older row afterwards: no  *)
(* row that was waiting in the channel brings one back.                    *)
CleanedStaysClean ==
  \A table \in Tables : \A row \in rows[table] : row.ts >= cleaned[table]

(* Ids follow the order in which rows were sent, across failed statements  *)
(* and restarts (recent_requests and recent_speedtests order by id).       *)
RowsInSendOrder ==
  \A table \in Tables : \A row, other \in rows[table] :
    row.id < other.id <=> row.n < other.n

(* A row that was written is kept for Retention, across restarts.          *)
KeptForRetention ==
  [][\A table \in Tables : \A row \in rows[table] :
       row \in rows'[table] \/ row.ts < now - Retention]_vars
=============================================================================
