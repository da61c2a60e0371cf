------------------------------- MODULE DbProofs -------------------------------
(***************************************************************************)
(* Theorems about Db, for every width of a point and of the windows, every *)
(* retention period, number of rows, length of the channel and set of      *)
(* dashboard calls.                                                        *)
(***************************************************************************)
EXTENDS Db, SequenceTheorems, FiniteSetTheorems, WellFoundedInduction, TLAPS

Stages == {"none", "hour", "day", "series", "status", "recent", "done"}

SummaryState ==
  [at : Stages, now : 0 .. MaxTime, hour : 0 .. MaxRows, day : 0 .. MaxRows,
   series : 0 .. MaxRows, status : 0 .. MaxRows, recent : 0 .. MaxRows]

-----------------------------------------------------------------------------
(* What a command holds. *)
LEMMA CommandShape ==
  ASSUME NEW cmd \in Command
  PROVE  /\ cmd.kind \in {"insert", "cleanup"}
         /\ cmd.kind = "insert" => cmd.table \in Tables /\ cmd.row \in Sent
         /\ cmd.kind = "cleanup" => cmd.cutoff \in Cutoffs
<1>1. CASE \E table \in Tables, row \in Sent : cmd = Insert(table, row)
  BY <1>1 DEF Insert
<1>2. CASE \E cutoff \in Cutoffs : cmd = Cleanup(cutoff)
  BY <1>2 DEF Cleanup
<1> QED
  BY <1>1, <1>2 DEF Command

(* Receiving a command moves the others up. *)
LEMMA ChannelPops ==
  ASSUME NEW ch \in Seq(Command), ch # << >>
  PROVE  /\ 1 \in DOMAIN ch /\ Head(ch) = ch[1] /\ ch[1] \in Command
         /\ Tail(ch) \in Seq(Command)
         /\ \A i \in DOMAIN Tail(ch) :
              i \in Nat /\ i > 0 /\ i + 1 \in DOMAIN ch /\ Tail(ch)[i] = ch[i + 1]
<1>1. /\ Len(ch) \in Nat \ {0} /\ DOMAIN ch = 1 .. Len(ch)
      /\ Tail(ch) \in Seq(Command)
      /\ Len(Tail(ch)) = Len(ch) - 1
      /\ \A i \in 1 .. Len(Tail(ch)) : Tail(ch)[i] = ch[i + 1]
  BY EmptySeq, LenProperties, HeadTailProperties
<1>2. DOMAIN Tail(ch) = 1 .. Len(Tail(ch))
  BY <1>1, LenProperties
<1>3. Head(ch) = ch[1] /\ ch[1] \in Command
  BY <1>1, ElementOfSeq
<1> QED
  BY <1>1, <1>2, <1>3

(* Sending one puts it behind the others. *)
LEMMA ChannelGrows ==
  ASSUME NEW ch \in Seq(Command), NEW cmd \in Command
  PROVE  /\ Append(ch, cmd) \in Seq(Command)
         /\ \A i \in DOMAIN ch : i \in Nat
         /\ \A i \in DOMAIN Append(ch, cmd) :
              \/ i \in DOMAIN ch /\ Append(ch, cmd)[i] = ch[i]
              \/ Append(ch, cmd)[i] = cmd /\ \A j \in DOMAIN Append(ch, cmd) : j <= i
<1>1. /\ Append(ch, cmd) \in Seq(Command)
      /\ Len(Append(ch, cmd)) = Len(ch) + 1
      /\ \A i \in 1 .. Len(ch) : Append(ch, cmd)[i] = ch[i]
      /\ Append(ch, cmd)[Len(ch) + 1] = cmd
  BY AppendProperties
<1>2. Len(ch) \in Nat /\ DOMAIN ch = 1 .. Len(ch)
  BY LenProperties
<1>3. DOMAIN Append(ch, cmd) = 1 .. Len(ch) + 1
  BY <1>1, LenProperties
<1> QED
  BY <1>1, <1>2, <1>3

-----------------------------------------------------------------------------
(* Rows are numbered as they are sent.  Those in the channel are in order, *)
(* behind every row and every id of their table.                           *)
Waiting(i) == i \in DOMAIN channel /\ channel[i].kind = "insert"

ChannelInOrder ==
  \A i, j \in DOMAIN channel :
    Waiting(i) /\ Waiting(j) /\ i < j => channel[i].row.n < channel[j].row.n

WaitingIsNew ==
  \A i \in DOMAIN channel : Waiting(i) =>
    /\ channel[i].row.n <= sent
    /\ last_id[channel[i].table] < channel[i].row.n
    /\ \A row \in rows[channel[i].table] : row.n < channel[i].row.n

TablesNumbered ==
  \A table \in Tables :
    /\ last_id[table] <= sent
    /\ \A row \in rows[table] : row.id <= last_id[table] /\ row.n <= sent
    /\ IsFiniteSet(rows[table])
    /\ Cardinality(rows[table]) <= last_id[table]

Numbered == ChannelInOrder /\ WaitingIsNew /\ TablesNumbered /\ RowsInSendOrder

(* What a query counts is some of the rows of its table. *)
LEMMA CountTyped ==
  ASSUME TypeOK, TablesNumbered, NEW S, S \subseteq Requests
  PROVE  IsFiniteSet(S) /\ Cardinality(S) \in 0 .. MaxRows
<1> USE DbAssumption
<1>1. "requests" \in Tables
  BY DEF Tables
<1>2. /\ IsFiniteSet(Requests)
      /\ Cardinality(Requests) <= last_id["requests"]
      /\ last_id["requests"] \in 0 .. MaxRows
  BY <1>1 DEF TypeOK, TablesNumbered, Requests
<1>3. IsFiniteSet(S) /\ Cardinality(S) <= Cardinality(Requests)
  BY <1>2, FS_Subset
<1>4. Cardinality(S) \in Nat /\ Cardinality(Requests) \in Nat
  BY <1>2, <1>3, FS_CardinalityType
<1> QED
  BY <1>2, <1>3, <1>4

LEMMA InitTyped == Init => TypeOK /\ Numbered
<1> USE DbAssumption
<1> SUFFICES ASSUME Init PROVE TypeOK /\ Numbered
  OBVIOUS
<1>1. channel \in Seq(Command) /\ DOMAIN channel = {}
  BY DEF Init
<1>2. NoSummary \in SummaryState
  BY DEF NoSummary, SummaryState, Stages
<1>3. \A table \in Tables : rows[table] = {} /\ last_id[table] = 0
  BY DEF Init
<1>4. TypeOK
  BY <1>1, <1>2 DEF Init, TypeOK, SummaryState, Stages, Cutoffs
<1>5. Numbered
  BY <1>1, <1>3, FS_EmptySet
  DEF Init, Numbered, ChannelInOrder, WaitingIsNew, TablesNumbered, RowsInSendOrder
<1> QED
  BY <1>4, <1>5

(* A row that is written has a place in its table's types. *)
LEMMA WriteTyped ==
  ASSUME TypeOK, Numbered, WriteRow
  PROVE  LET cmd == Head(channel)
             row == [id |-> last_id[cmd.table] + 1, n |-> cmd.row.n, ts |-> cmd.row.ts]
         IN  /\ cmd.table \in Tables /\ cmd.row \in Sent
             /\ row \in Row
             /\ row.id = last_id[cmd.table] + 1 /\ row.n = cmd.row.n /\ row.ts = cmd.row.ts
             /\ row.id <= cmd.row.n /\ cmd.row.n <= sent
             /\ rows' = [rows EXCEPT ![cmd.table] = @ \cup {row}]
             /\ last_id' = [last_id EXCEPT ![cmd.table] = row.id]
<1> DEFINE cmd == Head(channel)
           id == last_id[cmd.table] + 1
           row == [id |-> id, n |-> cmd.row.n, ts |-> cmd.row.ts]
<1>1. channel \in Seq(Command) /\ channel # << >>
  BY DEF WriteRow, Receives, TypeOK
<1>2. cmd = channel[1] /\ 1 \in DOMAIN channel /\ cmd \in Command
  BY <1>1, ChannelPops
<1>3. cmd.kind = "insert"
  BY DEF WriteRow
<1>4. cmd.table \in Tables /\ cmd.row \in Sent
  BY <1>2, <1>3, CommandShape
<1>5. last_id[cmd.table] < cmd.row.n /\ cmd.row.n <= sent
  BY <1>2, <1>3 DEF Numbered, WaitingIsNew, Waiting
<1>6. last_id[cmd.table] \in 0 .. MaxRows /\ cmd.row.n \in 1 .. MaxRows /\ MaxRows \in Nat
      /\ cmd.row.ts \in 0 .. MaxTime
  BY <1>4, DbAssumption DEF TypeOK, Sent
<1>7. id \in 1 .. MaxRows /\ id <= cmd.row.n
  BY <1>5, <1>6
<1>8. rows' = [rows EXCEPT ![cmd.table] = @ \cup {row}]
      /\ last_id' = [last_id EXCEPT ![cmd.table] = id]
  BY DEF WriteRow
<1> HIDE DEF cmd, id
<1>9. row \in Row
  BY <1>6, <1>7 DEF Row
<1> QED
  BY <1>4, <1>5, <1>7, <1>8, <1>9 DEF cmd, id

LEMMA TypeStep ==
  ASSUME TypeOK, Numbered, [Next]_vars
  PROVE  TypeOK'
<1> USE DbAssumption
<1> DEFINE Clocks == now \in 0 .. MaxTime /\ next_cleanup \in 0 .. MaxTime + Hour
           Channel == channel \in Seq(Command)
           Deleting == deleting \in {<< >>} \cup {<<c>> : c \in Cutoffs}
           Rows == /\ rows \in [Tables -> SUBSET Row]
                   /\ last_id \in [Tables -> 0 .. MaxRows]
                   /\ sent \in 0 .. MaxRows
                   /\ cleaned \in [Tables -> Cutoffs]
           Summary == summary \in [Readers -> SummaryState]
<1>1. TypeOK <=> Clocks /\ Channel /\ Deleting /\ Rows /\ Summary
  BY DEF TypeOK, SummaryState, Stages
<1>2. TypeOK' <=> Clocks' /\ Channel' /\ Deleting' /\ Rows' /\ Summary'
  BY DEF TypeOK, SummaryState, Stages
<1>3. ASSUME NEW age \in Nat PROVE Ago(age) \in Cutoffs
  BY <1>1 DEF Ago, Cutoffs
<1>4. Clocks'
  <2>1. CASE RetentionTick
    BY <1>1, <2>1 DEF RetentionTick
  <2>2. CASE CrashAndRestart
    BY <1>1, <2>2 DEF CrashAndRestart
  <2>3. CASE Tick
    BY <1>1, <2>3 DEF Tick, writerVars
  <2>4. CASE UNCHANGED <<now, next_cleanup>>
    BY <1>1, <2>4
  <2> QED
    BY <2>1, <2>2, <2>3, <2>4 DEF Next, vars, writerVars, Record, WriteRow, RowFails,
      DeleteRequests, DeleteSpeedtests, SummaryStart, QueryHour, QueryDay, QuerySeries,
      QueryStatus, QueryRecent, Answer
<1>5. Channel'
  <2>1. ASSUME NEW table \in Tables, Record(table) PROVE Channel'
    <3>1. [n |-> sent + 1, ts |-> now] \in Sent
      BY <1>1, <2>1 DEF Record, Sent
    <3>2. Insert(table, [n |-> sent + 1, ts |-> now]) \in Command
      BY <3>1 DEF Command
    <3> QED
      BY <1>1, <2>1, <3>2, ChannelGrows DEF Record
  <2>2. CASE RetentionTick
    <3>1. Cleanup(Ago(Retention)) \in Command
      BY <1>3 DEF Command
    <3> QED
      BY <1>1, <2>2, <3>1, ChannelGrows DEF RetentionTick
  <2>3. CASE WriteRow \/ RowFails \/ DeleteRequests
    BY <1>1, <2>3, ChannelPops DEF WriteRow, RowFails, DeleteRequests, Receives
  <2>4. CASE CrashAndRestart
    BY <2>4 DEF CrashAndRestart
  <2>5. CASE UNCHANGED channel
    BY <1>1, <2>5
  <2> QED
    BY <2>1, <2>2, <2>3, <2>4, <2>5 DEF Next, vars, writerVars, DeleteSpeedtests,
      SummaryStart, QueryHour, QueryDay, QuerySeries, QueryStatus, QueryRecent, Answer, Tick
<1>6. Deleting'
  <2>1. CASE DeleteRequests
    <3>1. Head(channel) \in Command
      BY <1>1, <2>1, ChannelPops DEF DeleteRequests, Receives
    <3>2. Head(channel).cutoff \in Cutoffs
      BY <2>1, <3>1, CommandShape DEF DeleteRequests
    <3> QED
      BY <2>1, <3>2 DEF DeleteRequests
  <2>2. CASE deleting' = << >> \/ UNCHANGED deleting
    BY <1>1, <2>2
  <2> QED
    BY <2>1, <2>2 DEF Next, vars, writerVars, Record, RetentionTick, WriteRow, RowFails,
      DeleteSpeedtests, SummaryStart, QueryHour, QueryDay, QuerySeries, QueryStatus,
      QueryRecent, Answer, CrashAndRestart, Tick
<1>7. Rows'
  <2>1. ASSUME NEW table \in Tables, Record(table) PROVE Rows'
    BY <1>1, <2>1 DEF Record
  <2>2. CASE WriteRow
    <3>1. sent' = sent /\ cleaned' = cleaned
      BY <2>2 DEF WriteRow
    <3>2. PICK table \in Tables, row \in Row :
            /\ row.id <= sent
            /\ rows' = [rows EXCEPT ![table] = @ \cup {row}]
            /\ last_id' = [last_id EXCEPT ![table] = row.id]
      <4> DEFINE cmd == Head(channel)
                 row == [id |-> last_id[cmd.table] + 1, n |-> cmd.row.n, ts |-> cmd.row.ts]
      <4>1. /\ cmd.table \in Tables /\ row \in Row /\ row.id <= cmd.row.n /\ cmd.row.n <= sent
            /\ rows' = [rows EXCEPT ![cmd.table] = @ \cup {row}]
            /\ last_id' = [last_id EXCEPT ![cmd.table] = row.id]
            /\ cmd.row \in Sent
        BY <2>2, WriteTyped
      <4> HIDE DEF cmd, row
      <4>2. row.id \in Int /\ cmd.row.n \in Int /\ sent \in Int
        BY <1>1, <4>1 DEF Row, Sent
      <4>3. row.id <= sent
        BY <4>1, <4>2
      <4> QED
        BY <4>1, <4>3, Zenon
    <3>3. row.id \in 0 .. MaxRows
      BY DEF Row
    <3> QED
      BY <1>1, <3>1, <3>2, <3>3
  <2>3. ASSUME NEW table \in Tables, NEW cutoff \in Cutoffs, Delete(table, cutoff),
               UNCHANGED <<last_id, sent>>
        PROVE  Rows'
    BY <1>1, <2>3 DEF Delete
  <2>4. CASE DeleteRequests
    <3>1. Head(channel) \in Command
      BY <1>1, <2>4, ChannelPops DEF DeleteRequests, Receives
    <3>2. Head(channel).cutoff \in Cutoffs /\ "requests" \in Tables
      BY <2>4, <3>1, CommandShape DEF DeleteRequests, Tables
    <3> QED
      BY <1>1, <2>3, <2>4, <3>2 DEF DeleteRequests, DeleteFails
  <2>5. CASE DeleteSpeedtests
    <3>1. Head(deleting) \in Cutoffs /\ "speedtests" \in Tables
      BY <1>1, <2>5 DEF DeleteSpeedtests, Tables
    <3> QED
      BY <1>1, <2>3, <2>5, <3>1 DEF DeleteSpeedtests, DeleteFails
  <2>6. CASE UNCHANGED <<rows, last_id, sent, cleaned>>
    BY <1>1, <2>6
  <2> QED
    BY <2>1, <2>2, <2>4, <2>5, <2>6 DEF Next, vars, writerVars, RetentionTick, RowFails,
      SummaryStart, QueryHour, QueryDay, QuerySeries, QueryStatus, QueryRecent, Answer,
      CrashAndRestart, Tick
<1>8. Summary'
  <2>1. ASSUME NEW S, S \subseteq Requests PROVE Cardinality(S) \in 0 .. MaxRows
    BY <2>1, CountTyped DEF Numbered
  <2>2. ASSUME NEW since PROVE CountSince(since) \in 0 .. MaxRows
    BY <2>1 DEF CountSince, Since
  <2>3. NoSummary \in SummaryState
    BY DEF NoSummary, SummaryState, Stages
  <2>4. ASSUME NEW d \in Readers, SummaryStart(d) PROVE Summary'
    <3>1. "hour" \in Stages /\ now \in 0 .. MaxTime
      BY <1>1 DEF Stages
    <3>2. [NoSummary EXCEPT !.at = "hour", !.now = now] \in SummaryState
      BY <2>3, <3>1 DEF SummaryState
    <3> QED
      BY <1>1, <2>4, <3>2 DEF SummaryStart
  <2>5. ASSUME NEW d \in Readers, QueryHour(d) PROVE Summary'
    <3> DEFINE k == CountSince(summary[d].now - Hour)
    <3>1. k \in 0 .. MaxRows
      BY <2>2
    <3>2. summary' = [summary EXCEPT ![d].at = "day", ![d].hour = k]
      BY <2>5 DEF QueryHour
    <3> HIDE DEF k
    <3> QED
      BY <1>1, <3>1, <3>2 DEF SummaryState, Stages
  <2>6. ASSUME NEW d \in Readers, QueryDay(d) PROVE Summary'
    <3> DEFINE k == CountSince(summary[d].now - Day)
    <3>1. k \in 0 .. MaxRows
      BY <2>2
    <3>2. summary' = [summary EXCEPT ![d].at = "series", ![d].day = k]
      BY <2>6 DEF QueryDay
    <3> HIDE DEF k
    <3> QED
      BY <1>1, <3>1, <3>2 DEF SummaryState, Stages
  <2>7. ASSUME NEW d \in Readers, QuerySeries(d) PROVE Summary'
    <3> DEFINE series == SeriesSince(summary[d].now - Hour)
               k == Cardinality(UNION {series[b] : b \in DOMAIN series})
    <3>1. UNION {series[b] : b \in DOMAIN series} \subseteq Requests
      BY DEF SeriesSince, Since
    <3>2. k \in 0 .. MaxRows
      BY <2>1, <3>1
    <3>3. summary' = [summary EXCEPT ![d].at = "status", ![d].series = k]
      BY <2>7 DEF QuerySeries
    <3> HIDE DEF k
    <3> QED
      BY <1>1, <3>2, <3>3 DEF SummaryState, Stages
  <2>8. ASSUME NEW d \in Readers, QueryStatus(d) PROVE Summary'
    <3> DEFINE k == CountSince(summary[d].now - Day)
    <3>1. k \in 0 .. MaxRows
      BY <2>2
    <3>2. summary' = [summary EXCEPT ![d].at = "recent", ![d].status = k]
      BY <2>8 DEF QueryStatus
    <3> HIDE DEF k
    <3> QED
      BY <1>1, <3>1, <3>2 DEF SummaryState, Stages
  <2>9. ASSUME NEW d \in Readers, QueryRecent(d) PROVE Summary'
    <3> DEFINE k == Cardinality(RecentSince(summary[d].now - Hour, RecentLimit))
    <3>1. k \in 0 .. MaxRows
      BY <2>1 DEF RecentSince, Since
    <3>2. summary' = [summary EXCEPT ![d].at = "done", ![d].recent = k]
      BY <2>9 DEF QueryRecent
    <3> HIDE DEF k
    <3> QED
      BY <1>1, <3>1, <3>2 DEF SummaryState, Stages
  <2>10. ASSUME NEW d \in Readers, Answer(d) PROVE Summary'
    BY <1>1, <2>3, <2>10 DEF Answer
  <2>11. CASE CrashAndRestart
    BY <2>3, <2>11 DEF CrashAndRestart
  <2>12. CASE UNCHANGED summary
    BY <1>1, <2>12
  <2> QED
    BY <2>4, <2>5, <2>6, <2>7, <2>8, <2>9, <2>10, <2>11, <2>12
    DEF Next, vars, Record, RetentionTick, WriteRow, RowFails, DeleteRequests,
      DeleteSpeedtests, Tick
<1> QED
  BY <1>2, <1>4, <1>5, <1>6, <1>7, <1>8

LEMMA NumberedStep ==
  ASSUME TypeOK, Numbered, [Next]_vars
  PROVE  Numbered'
<1> USE DbAssumption
<1>0. /\ channel \in Seq(Command)
      /\ rows \in [Tables -> SUBSET Row] /\ last_id \in [Tables -> 0 .. MaxRows]
      /\ sent \in 0 .. MaxRows
  BY DEF TypeOK
<1>a. \A i \in DOMAIN channel :
        Waiting(i) => channel[i].table \in Tables /\ channel[i].row.n \in 1 .. MaxRows
  <2>1. \A i \in DOMAIN channel : channel[i] \in Command
    BY <1>0
  <2> QED
    BY <2>1, CommandShape DEF Waiting, Sent
<1>b. \A table \in Tables : \A row \in rows[table] :
        row.id \in 1 .. MaxRows /\ row.n \in 1 .. MaxRows
  BY <1>0 DEF Row
<1>1. ASSUME channel # << >>, channel' = Tail(channel), UNCHANGED <<rows, last_id, sent>>
      PROVE  ChannelInOrder' /\ WaitingIsNew'
  <2>1. \A i \in DOMAIN channel' :
          i \in Nat /\ i > 0 /\ i + 1 \in DOMAIN channel /\ channel'[i] = channel[i + 1]
    BY <1>0, <1>1, ChannelPops
  <2>2. \A i \in DOMAIN channel' : Waiting(i)' => Waiting(i + 1)
    BY <2>1 DEF Waiting
  <2>3. ChannelInOrder'
    BY <2>1, <2>2 DEF Numbered, ChannelInOrder
  <2>4. WaitingIsNew'
    BY <1>1, <2>1, <2>2 DEF Numbered, WaitingIsNew
  <2> QED
    BY <2>3, <2>4
<1>2. ASSUME NEW table \in Tables, Record(table) PROVE Numbered'
  <2> DEFINE row == [n |-> sent + 1, ts |-> now]
             cmd == Insert(table, row)
  <2>1. /\ channel' = Append(channel, cmd) /\ sent' = sent + 1
        /\ UNCHANGED <<rows, last_id>> /\ sent < MaxRows
    BY <1>2 DEF Record
  <2>2. row \in Sent
    BY <1>0, <2>1 DEF TypeOK, Sent
  <2>3. cmd \in Command /\ cmd.kind = "insert" /\ cmd.table = table /\ cmd.row.n = sent + 1
    BY <2>2 DEF Command, Insert
  <2> HIDE DEF cmd
  <2>4. /\ \A i \in DOMAIN channel : i \in Nat
        /\ \A i \in DOMAIN channel' :
             \/ i \in DOMAIN channel /\ channel'[i] = channel[i]
             \/ channel'[i] = cmd /\ \A j \in DOMAIN channel' : j <= i
    BY <1>0, <2>1, <2>3, ChannelGrows
  <2>5. \A i \in DOMAIN channel' : i \in Nat
    <3>1. channel' \in Seq(Command)
      BY <1>0, <2>1, <2>3, ChannelGrows
    <3> QED
      BY <3>1, LenProperties
  <2>6. \A i \in DOMAIN channel' : Waiting(i)' =>
          \/ Waiting(i) /\ channel'[i] = channel[i]
          \/ channel'[i] = cmd /\ \A j \in DOMAIN channel' : j <= i
    BY <2>4 DEF Waiting
  <2>7. \A i \in DOMAIN channel : Waiting(i) => channel[i].row.n <= sent
    BY DEF Numbered, WaitingIsNew
  <2>8. ChannelInOrder'
    BY <1>0, <1>a, <2>3, <2>5, <2>6, <2>7 DEF Numbered, ChannelInOrder, Waiting
  <2>9. WaitingIsNew'
    <3>1. \A i \in DOMAIN channel : Waiting(i) => channel[i].row.n <= sent'
      BY <1>0, <1>a, <2>1, <2>7
    <3>2. \A r \in rows[table] : r.n < sent + 1
      BY <1>0, <1>b DEF Numbered, TablesNumbered
    <3>3. last_id[table] < sent + 1
      BY <1>0 DEF Numbered, TablesNumbered
    <3> SUFFICES ASSUME NEW i \in DOMAIN channel', Waiting(i)'
                 PROVE  /\ channel'[i].row.n <= sent'
                        /\ last_id'[channel'[i].table] < channel'[i].row.n
                        /\ \A r \in rows'[channel'[i].table] : r.n < channel'[i].row.n
      BY DEF WaitingIsNew
    <3>4. CASE Waiting(i) /\ channel'[i] = channel[i]
      <4>1. i \in DOMAIN channel
        BY <3>4 DEF Waiting
      <4> QED
        BY <2>1, <3>1, <3>4, <4>1 DEF Numbered, WaitingIsNew
    <3>5. CASE channel'[i] = cmd
      BY <1>0, <2>1, <2>3, <3>2, <3>3, <3>5
    <3> QED
      BY <2>6, <3>4, <3>5
  <2>10. TablesNumbered' /\ RowsInSendOrder'
    <3>1. \A t \in Tables : last_id[t] \in Int /\ last_id[t] <= sent
      BY <1>0 DEF Numbered, TablesNumbered
    <3>2. \A t \in Tables : last_id'[t] <= sent'
      BY <1>0, <2>1, <3>1
    <3>3. \A t \in Tables : \A r \in rows[t] : r.n <= sent'
      BY <1>0, <1>b, <2>1 DEF Numbered, TablesNumbered
    <3> QED
      BY <2>1, <3>2, <3>3 DEF Numbered, TablesNumbered, RowsInSendOrder
  <2> QED
    BY <2>8, <2>9, <2>10 DEF Numbered
<1>3. CASE RetentionTick
  <2> DEFINE cmd == Cleanup(Ago(Retention))
  <2>1. channel' = Append(channel, cmd) /\ UNCHANGED <<rows, last_id, sent>>
    BY <1>3 DEF RetentionTick
  <2>2. cmd \in Command /\ cmd.kind = "cleanup"
    BY DEF Command, Cleanup, Ago, Cutoffs, TypeOK
  <2> HIDE DEF cmd
  <2>3. \A i \in DOMAIN channel' : Waiting(i)' => Waiting(i) /\ channel'[i] = channel[i]
    BY <1>0, <2>1, <2>2, ChannelGrows DEF Waiting
  <2>4. ChannelInOrder' /\ WaitingIsNew'
    BY <2>1, <2>3 DEF Numbered, ChannelInOrder, WaitingIsNew, Waiting
  <2> QED
    BY <2>1, <2>4 DEF Numbered, TablesNumbered, RowsInSendOrder
<1>4. CASE WriteRow
  <2> DEFINE cmd == Head(channel)
             new == [id |-> last_id[cmd.table] + 1, n |-> cmd.row.n, ts |-> cmd.row.ts]
             t == cmd.table
  <2>1. /\ t \in Tables /\ cmd.row \in Sent /\ new \in Row
        /\ new.id = last_id[t] + 1 /\ new.n = cmd.row.n
        /\ new.id <= cmd.row.n /\ cmd.row.n <= sent
        /\ rows' = [rows EXCEPT ![t] = @ \cup {new}]
        /\ last_id' = [last_id EXCEPT ![t] = new.id]
    BY <1>4, WriteTyped
  <2>2. /\ channel # << >> /\ channel' = Tail(channel) /\ sent' = sent
        /\ cmd = channel[1] /\ 1 \in DOMAIN channel /\ cmd.kind = "insert"
    BY <1>0, <1>4, ChannelPops DEF WriteRow, Receives
  <2> HIDE DEF cmd, new
  <2>3. Waiting(1) /\ channel[1].table = t /\ channel[1].row.n = new.n
    BY <2>1, <2>2 DEF Waiting
  <2>4. /\ new.id \in 1 .. MaxRows /\ new.n \in 1 .. MaxRows
        /\ new.id <= new.n /\ new.n <= sent /\ last_id[t] = new.id - 1
    BY <1>0, <2>1 DEF Row
  <2>5. \A r \in rows[t] : r.n < new.n /\ r.id < new.id
    <3>1. \A r \in rows[t] : r.n < new.n
      BY <2>2, <2>3 DEF Numbered, WaitingIsNew
    <3>2. \A r \in rows[t] : r.id <= last_id[t]
      BY <2>1 DEF Numbered, TablesNumbered
    <3> QED
      BY <1>b, <2>1, <2>4, <3>1, <3>2
  <2>6. \A i \in DOMAIN channel' :
          /\ i \in Nat /\ i > 0 /\ i + 1 \in DOMAIN channel /\ channel'[i] = channel[i + 1]
          /\ Waiting(i)' => Waiting(i + 1) /\ new.n < channel[i + 1].row.n
    <3>1. \A i \in DOMAIN channel' :
            i \in Nat /\ i > 0 /\ i + 1 \in DOMAIN channel /\ channel'[i] = channel[i + 1]
      BY <1>0, <2>2, ChannelPops
    <3>2. \A i \in DOMAIN channel' : Waiting(i)' => Waiting(i + 1)
      BY <3>1 DEF Waiting
    <3>3. \A i \in DOMAIN channel' : Waiting(i)' => new.n < channel[i + 1].row.n
      BY <2>2, <2>3, <3>1, <3>2 DEF Numbered, ChannelInOrder
    <3> QED
      BY <3>1, <3>2, <3>3
  <2>7. ChannelInOrder'
    BY <2>6 DEF Numbered, ChannelInOrder
  <2>8. \A u \in Tables : /\ rows'[u] = IF u = t THEN rows[t] \cup {new} ELSE rows[u]
                          /\ last_id'[u] = IF u = t THEN new.id ELSE last_id[u]
    BY <1>0, <2>1
  <2>9. WaitingIsNew'
    <3> SUFFICES ASSUME NEW i \in DOMAIN channel', Waiting(i)'
                 PROVE  /\ channel'[i].row.n <= sent'
                        /\ last_id'[channel'[i].table] < channel'[i].row.n
                        /\ \A r \in rows'[channel'[i].table] : r.n < channel'[i].row.n
      BY DEF WaitingIsNew
    <3> DEFINE c == channel[i + 1]
    <3>1. i + 1 \in DOMAIN channel /\ channel'[i] = c /\ Waiting(i + 1) /\ new.n < c.row.n
      BY <2>6
    <3>2. /\ c.row.n <= sent /\ last_id[c.table] < c.row.n
          /\ \A r \in rows[c.table] : r.n < c.row.n
      BY <3>1 DEF Numbered, WaitingIsNew
    <3>3. c.table \in Tables /\ c.row.n \in 1 .. MaxRows
      BY <1>a, <3>1
    <3> HIDE DEF c
    <3>4. last_id'[c.table] < c.row.n
      BY <2>4, <2>8, <3>1, <3>2, <3>3
    <3>5. \A r \in rows'[c.table] : r.n < c.row.n
      BY <2>8, <3>1, <3>2, <3>3
    <3> QED
      BY <2>2, <3>1, <3>2, <3>4, <3>5
  <2>10. TablesNumbered'
    <3>1. \A u \in Tables : last_id'[u] <= sent'
      BY <1>0, <2>2, <2>4, <2>8 DEF Numbered, TablesNumbered
    <3>2. \A u \in Tables : \A r \in rows'[u] : r.id <= last_id'[u] /\ r.n <= sent'
      <4>1. \A r \in rows[t] \cup {new} : r.id <= new.id /\ r.n <= sent
        BY <1>0, <1>b, <2>1, <2>4, <2>5
      <4> QED
        BY <2>2, <2>8, <4>1 DEF Numbered, TablesNumbered
    <3>3. new \notin rows[t]
      BY <2>4, <2>5
    <3>4. IsFiniteSet(rows[t]) /\ Cardinality(rows[t]) <= last_id[t]
      BY <2>1 DEF Numbered, TablesNumbered
    <3>5. /\ IsFiniteSet(rows[t] \cup {new})
          /\ Cardinality(rows[t] \cup {new}) = Cardinality(rows[t]) + 1
          /\ Cardinality(rows[t]) \in Nat
      BY <3>3, <3>4, FS_AddElement, FS_CardinalityType
    <3>6. Cardinality(rows[t] \cup {new}) <= new.id
      BY <2>4, <3>4, <3>5
    <3>7. \A u \in Tables : IsFiniteSet(rows'[u]) /\ Cardinality(rows'[u]) <= last_id'[u]
      BY <2>8, <3>5, <3>6 DEF Numbered, TablesNumbered
    <3> QED
      BY <3>1, <3>2, <3>7 DEF TablesNumbered
  <2>11. RowsInSendOrder'
    <3>1. \A r, q \in rows[t] \cup {new} : r.id < q.id <=> r.n < q.n
      BY <1>b, <2>1, <2>4, <2>5 DEF Numbered, RowsInSendOrder
    <3> QED
      BY <2>8, <3>1 DEF Numbered, RowsInSendOrder
  <2> QED
    BY <2>7, <2>9, <2>10, <2>11 DEF Numbered
<1>5. ASSUME \A t \in Tables : rows'[t] \subseteq rows[t], UNCHANGED <<last_id, sent>>
      PROVE  TablesNumbered' /\ RowsInSendOrder'
  <2>1. ASSUME NEW t \in Tables
        PROVE  IsFiniteSet(rows'[t]) /\ Cardinality(rows'[t]) <= last_id'[t]
    <3>1. IsFiniteSet(rows[t]) /\ Cardinality(rows[t]) <= last_id[t] /\ last_id[t] \in Int
      BY <1>0 DEF Numbered, TablesNumbered
    <3>2. /\ IsFiniteSet(rows'[t]) /\ Cardinality(rows'[t]) <= Cardinality(rows[t])
          /\ Cardinality(rows'[t]) \in Nat /\ Cardinality(rows[t]) \in Nat
      BY <1>5, <3>1, FS_Subset, FS_CardinalityType
    <3> QED
      BY <1>5, <3>1, <3>2
  <2> QED
    BY <1>5, <2>1 DEF Numbered, TablesNumbered, RowsInSendOrder
<1>6. ASSUME \A t \in Tables : rows'[t] \subseteq rows[t], UNCHANGED <<channel, last_id, sent>>
      PROVE  ChannelInOrder' /\ WaitingIsNew'
  <2>1. ChannelInOrder'
    BY <1>6 DEF Numbered, ChannelInOrder, Waiting
  <2> QED
    BY <1>6, <1>a, <2>1 DEF Numbered, WaitingIsNew, Waiting
<1>7. ASSUME NEW table \in Tables, NEW cutoff, Delete(table, cutoff) \/ DeleteFails
      PROVE  \A t \in Tables : rows'[t] \subseteq rows[t]
  BY <1>0, <1>7 DEF Delete, DeleteFails
<1>8. CASE DeleteRequests
  <2>1. /\ channel # << >> /\ channel' = Tail(channel) /\ UNCHANGED <<last_id, sent>>
        /\ \A t \in Tables : rows'[t] \subseteq rows[t]
    BY <1>7, <1>8 DEF DeleteRequests, Receives, Tables
  <2>2. \A i \in DOMAIN channel' :
          /\ i \in Nat /\ i > 0 /\ i + 1 \in DOMAIN channel /\ channel'[i] = channel[i + 1]
          /\ Waiting(i)' => Waiting(i + 1)
    BY <1>0, <2>1, ChannelPops DEF Waiting
  <2>3. ChannelInOrder'
    BY <2>2 DEF Numbered, ChannelInOrder
  <2>4. WaitingIsNew'
    BY <1>a, <2>1, <2>2 DEF Numbered, WaitingIsNew
  <2> QED
    BY <1>5, <2>1, <2>3, <2>4 DEF Numbered
<1>9. CASE DeleteSpeedtests
  <2>1. /\ UNCHANGED <<channel, last_id, sent>>
        /\ \A t \in Tables : rows'[t] \subseteq rows[t]
    BY <1>7, <1>9 DEF DeleteSpeedtests, Tables
  <2> QED
    BY <1>5, <1>6, <2>1 DEF Numbered
<1>10. CASE RowFails
  BY <1>1, <1>5, <1>10 DEF RowFails, Receives, Numbered
<1>11. CASE CrashAndRestart
  <2>1. DOMAIN channel' = {} /\ UNCHANGED <<rows, last_id, sent>>
    BY <1>11 DEF CrashAndRestart
  <2> QED
    BY <1>5, <2>1 DEF Numbered, ChannelInOrder, WaitingIsNew
<1>12. CASE UNCHANGED <<channel, rows, last_id, sent>>
  BY <1>5, <1>6, <1>12 DEF Numbered
<1> QED
  BY <1>2, <1>3, <1>4, <1>8, <1>9, <1>10, <1>11, <1>12
  DEF Next, vars, writerVars, SummaryStart, QueryHour, QueryDay, QuerySeries, QueryStatus,
    QueryRecent, Answer, Tick

(* The types and the numbering of rows are kept together: a table has no   *)
(* more rows than were sent.                                               *)
LEMMA NumberedInductive == Spec => [](TypeOK /\ Numbered)
<1>1. Init => TypeOK /\ Numbered
  BY InitTyped
<1>2. (TypeOK /\ Numbered) /\ [Next]_vars => (TypeOK /\ Numbered)'
  BY TypeStep, NumberedStep
<1> QED
  BY <1>1, <1>2, PTL DEF Spec

(* Type correctness of the database side.                                  *)
THEOREM DbTyped == Spec => []TypeOK
  BY NumberedInductive, PTL

(* In each table ids follow the order in which rows were sent, whatever    *)
(* insert failed and whenever the process was restarted (writer_loop,      *)
(* recent_requests).                                                       *)
THEOREM IdsFollowSending == Spec => []RowsInSendOrder
<1>1. TypeOK /\ Numbered => RowsInSendOrder
  BY DEF Numbered
<1> QED
  BY <1>1, NumberedInductive, PTL

-----------------------------------------------------------------------------
(* Cutoffs lie a retention back, and rows that are still to be written are *)
(* no older than any cutoff before them: the clock does not go back and    *)
(* the channel keeps its order.                                            *)
Cleaning(i) == i \in DOMAIN channel /\ channel[i].kind = "cleanup"

CutoffsAreOld ==
  /\ \A i \in DOMAIN channel : Cleaning(i) => channel[i].cutoff <= Ago(Retention)
  /\ deleting # << >> => Head(deleting) <= Ago(Retention)
  /\ \A table \in Tables : cleaned[table] <= now

WaitingIsYoung ==
  \A j \in DOMAIN channel : Waiting(j) =>
    /\ \A i \in DOMAIN channel : Cleaning(i) /\ i < j => channel[i].cutoff <= channel[j].row.ts
    /\ deleting # << >> => Head(deleting) <= channel[j].row.ts
    /\ \A table \in Tables : cleaned[table] <= channel[j].row.ts

Dated == CutoffsAreOld /\ WaitingIsYoung /\ CleanedStaysClean

LEMMA AgoBounds ==
  ASSUME NEW t \in Nat, now \in Nat
  PROVE  Ago(t) \in Nat /\ Ago(t) <= now
  BY DEF Ago

(* A cleanup, whether or not its statement fails, keeps what Dated says of *)
(* the tables.                                                             *)
LEMMA DeleteDated ==
  ASSUME TypeOK, Dated, NEW table \in Tables, NEW cutoff \in Cutoffs,
         Delete(table, cutoff) \/ DeleteFails,
         cutoff <= now,
         \A j \in DOMAIN channel' : Waiting(j)' =>
           /\ cutoff <= channel'[j].row.ts
           /\ \A t \in Tables : cleaned[t] <= channel'[j].row.ts,
         now' = now
  PROVE  /\ \A t \in Tables : cleaned'[t] <= now'
         /\ \A j \in DOMAIN channel' : Waiting(j)' =>
              \A t \in Tables : cleaned'[t] <= channel'[j].row.ts
         /\ CleanedStaysClean'
<1>1. cleaned \in [Tables -> Cutoffs] /\ rows \in [Tables -> SUBSET Row]
  BY DEF TypeOK
<1>2. CASE Delete(table, cutoff)
  <2>1. \A t \in Tables :
          /\ cleaned'[t] = IF t = table THEN cutoff ELSE cleaned[t]
          /\ rows'[t] = IF t = table THEN {row \in rows[t] : row.ts >= cutoff} ELSE rows[t]
    BY <1>1, <1>2 DEF Delete
  <2>2. \A t \in Tables : \A row \in rows'[t] : row.ts >= cleaned'[t]
    BY <2>1 DEF Dated, CleanedStaysClean
  <2>3. \A t \in Tables : cleaned'[t] <= now'
    BY <2>1 DEF Dated, CutoffsAreOld
  <2>4. \A j \in DOMAIN channel' : Waiting(j)' =>
          \A t \in Tables : cleaned'[t] <= channel'[j].row.ts
    BY <2>1
  <2> QED
    BY <2>2, <2>3, <2>4 DEF CleanedStaysClean
<1>3. CASE DeleteFails
  BY <1>3 DEF DeleteFails, Dated, CutoffsAreOld, CleanedStaysClean
<1> QED
  BY <1>2, <1>3

LEMMA DatedInductive == Spec => []Dated
<1> USE DbAssumption
<1>1. Init => Dated
  <2> SUFFICES ASSUME Init PROVE Dated
    OBVIOUS
  <2>1. DOMAIN channel = {} /\ now = 0 /\ deleting = << >>
    BY DEF Init
  <2>2. \A table \in Tables : cleaned[table] = 0 /\ rows[table] = {}
    BY DEF Init
  <2> QED
    BY <2>1, <2>2 DEF Dated, CutoffsAreOld, WaitingIsYoung, CleanedStaysClean
<1>2. TypeOK /\ Dated /\ [Next]_vars => Dated'
  <2> SUFFICES ASSUME TypeOK, Dated, [Next]_vars PROVE Dated'
    OBVIOUS
  <2>0. /\ channel \in Seq(Command) /\ now \in Nat
        /\ deleting \in {<< >>} \cup {<<c>> : c \in Cutoffs}
        /\ rows \in [Tables -> SUBSET Row] /\ cleaned \in [Tables -> Cutoffs]
    BY DEF TypeOK
  <2>a. \A i \in DOMAIN channel :
          /\ i \in Nat
          /\ Waiting(i) => channel[i].table \in Tables /\ channel[i].row.ts \in 0 .. MaxTime
          /\ Cleaning(i) => channel[i].cutoff \in 0 .. MaxTime
    <3>1. \A i \in DOMAIN channel : i \in Nat /\ channel[i] \in Command
      BY <2>0
    <3> QED
      BY <3>1, CommandShape DEF Waiting, Cleaning, Sent, Cutoffs
  <2>b. Ago(Retention) \in Nat /\ Ago(Retention) <= now
    BY <2>0, AgoBounds
  <2>c. deleting # << >> => Head(deleting) \in Nat /\ Head(deleting) <= now
    <3>1. deleting # << >> => Head(deleting) \in Nat
      BY <2>0 DEF Cutoffs
    <3> QED
      BY <2>0, <2>b, <3>1 DEF Dated, CutoffsAreOld
  <2>1. ASSUME channel # << >>, channel' = Tail(channel)
        PROVE  \A i \in DOMAIN channel' :
                 /\ i \in Nat /\ i > 0 /\ i + 1 \in DOMAIN channel
                 /\ channel'[i] = channel[i + 1]
                 /\ Waiting(i)' => Waiting(i + 1)
                 /\ Cleaning(i)' => Cleaning(i + 1)
    BY <2>0, <2>1, ChannelPops DEF Waiting, Cleaning
  <2>2. ASSUME NEW table \in Tables, Record(table) PROVE Dated'
    <3> DEFINE row == [n |-> sent + 1, ts |-> now]
               cmd == Insert(table, row)
    <3>1. /\ channel' = Append(channel, cmd) /\ sent < MaxRows
          /\ UNCHANGED <<now, deleting, rows, cleaned>>
      BY <2>2 DEF Record
    <3>2. row \in Sent
      BY <3>1 DEF TypeOK, Sent
    <3>3. cmd \in Command /\ cmd.kind = "insert" /\ cmd.row.ts = now
      BY <3>2 DEF Command, Insert
    <3> HIDE DEF cmd
    <3>4. \A i \in DOMAIN channel' :
            \/ i \in DOMAIN channel /\ channel'[i] = channel[i]
            \/ channel'[i] = cmd /\ \A j \in DOMAIN channel' : j <= i
      BY <2>0, <3>1, <3>3, ChannelGrows
    <3>5. \A i \in DOMAIN channel' : Cleaning(i)' => Cleaning(i) /\ channel'[i] = channel[i]
      BY <3>3, <3>4 DEF Cleaning
    <3>6. CutoffsAreOld'
      BY <3>1, <3>5 DEF Dated, CutoffsAreOld, Cleaning, Ago
    <3>7. WaitingIsYoung'
      <4> SUFFICES ASSUME NEW j \in DOMAIN channel', Waiting(j)'
                   PROVE  /\ \A i \in DOMAIN channel' : Cleaning(i)' /\ i < j =>
                               channel'[i].cutoff <= channel'[j].row.ts
                          /\ deleting' # << >> => Head(deleting') <= channel'[j].row.ts
                          /\ \A t \in Tables : cleaned'[t] <= channel'[j].row.ts
        BY DEF WaitingIsYoung
      <4>1. CASE j \in DOMAIN channel /\ channel'[j] = channel[j]
        <5>1. Waiting(j)
          BY <4>1 DEF Waiting
        <5> QED
          BY <3>1, <3>5, <4>1, <5>1 DEF Dated, WaitingIsYoung, Cleaning
      <4>2. CASE channel'[j] = cmd
        <5>1. \A i \in DOMAIN channel : Cleaning(i) => channel[i].cutoff <= now
          BY <2>0, <2>a, <2>b DEF Dated, CutoffsAreOld
        <5> QED
          BY <2>c, <3>1, <3>3, <3>5, <4>2, <5>1 DEF Dated, CutoffsAreOld, Cleaning
      <4> QED
        BY <3>4, <4>1, <4>2
    <3> QED
      BY <3>1, <3>6, <3>7 DEF Dated, CleanedStaysClean
  <2>3. CASE RetentionTick
    <3> DEFINE cmd == Cleanup(Ago(Retention))
    <3>1. channel' = Append(channel, cmd) /\ UNCHANGED <<now, deleting, rows, cleaned>>
      BY <2>3 DEF RetentionTick
    <3>2. cmd \in Command /\ cmd.kind = "cleanup" /\ cmd.cutoff = Ago(Retention)
      BY <2>0 DEF Command, Cleanup, Ago, Cutoffs, TypeOK
    <3> HIDE DEF cmd
    <3>3. /\ \A i \in DOMAIN channel : i \in Nat
          /\ \A i \in DOMAIN channel' :
               \/ i \in DOMAIN channel /\ channel'[i] = channel[i]
               \/ channel'[i] = cmd /\ \A j \in DOMAIN channel' : j <= i
      BY <2>0, <3>1, <3>2, ChannelGrows
    <3>4. \A j \in DOMAIN channel' : Waiting(j)' => Waiting(j) /\ channel'[j] = channel[j]
      BY <3>2, <3>3 DEF Waiting
    <3>5. CutoffsAreOld'
      BY <2>b, <3>1, <3>2, <3>3 DEF Dated, CutoffsAreOld, Cleaning, Ago
    <3>6. WaitingIsYoung'
      <4> SUFFICES ASSUME NEW j \in DOMAIN channel', Waiting(j)'
                   PROVE  /\ \A i \in DOMAIN channel' : Cleaning(i)' /\ i < j =>
                               channel'[i].cutoff <= channel'[j].row.ts
                          /\ deleting' # << >> => Head(deleting') <= channel'[j].row.ts
                          /\ \A t \in Tables : cleaned'[t] <= channel'[j].row.ts
        BY DEF WaitingIsYoung
      <4>1. Waiting(j) /\ channel'[j] = channel[j] /\ j \in DOMAIN channel /\ j \in Nat
        BY <2>a, <3>4 DEF Waiting
      <4>2. ASSUME NEW i \in DOMAIN channel', Cleaning(i)', i < j
            PROVE  Cleaning(i) /\ channel'[i] = channel[i] /\ i \in DOMAIN channel
        <5>1. ~ \A k \in DOMAIN channel' : k <= i
          <6>1. i \in Int
            BY <2>0, <3>1, <3>2, ChannelGrows, LenProperties
          <6> QED
            BY <4>1, <4>2, <6>1
        <5> QED
          BY <3>3, <4>2, <5>1 DEF Cleaning
      <4> QED
        BY <3>1, <4>1, <4>2 DEF Dated, WaitingIsYoung
    <3> QED
      BY <3>1, <3>5, <3>6 DEF Dated, CleanedStaysClean
  <2>4. CASE WriteRow
    <3> DEFINE cmd == Head(channel)
               new == [id |-> last_id[cmd.table] + 1, n |-> cmd.row.n, ts |-> cmd.row.ts]
    <3>1. /\ channel # << >> /\ channel' = Tail(channel)
          /\ UNCHANGED <<now, deleting, cleaned>>
          /\ cmd = channel[1] /\ 1 \in DOMAIN channel /\ cmd.kind = "insert"
          /\ rows' = [rows EXCEPT ![cmd.table] = @ \cup {new}]
      BY <2>0, <2>4, ChannelPops DEF WriteRow, Receives
    <3>2. Waiting(1) /\ cmd.table \in Tables /\ new.ts = cmd.row.ts
      BY <2>a, <3>1 DEF Waiting
    <3> HIDE DEF cmd, new
    <3>3. CutoffsAreOld' /\ WaitingIsYoung'
      BY <2>1, <3>1 DEF Dated, CutoffsAreOld, WaitingIsYoung, Ago
    <3>4. CleanedStaysClean'
      <4>1. cleaned[cmd.table] \in Int /\ cmd.row.ts \in Int
        BY <2>0, <2>a, <3>1, <3>2 DEF Cutoffs
      <4>2. new.ts >= cleaned[cmd.table]
        BY <3>1, <3>2, <4>1 DEF Dated, WaitingIsYoung
      <4> QED
        BY <2>0, <3>1, <3>2, <4>2 DEF Dated, CleanedStaysClean
    <3> QED
      BY <3>3, <3>4 DEF Dated
  <2>5. CASE RowFails
    BY <2>1, <2>5
    DEF RowFails, Receives, Dated, CutoffsAreOld, WaitingIsYoung, CleanedStaysClean, Ago
  <2>6. CASE DeleteRequests
    <3> DEFINE cutoff == Head(channel).cutoff
    <3>1. /\ channel # << >> /\ channel' = Tail(channel) /\ now' = now
          /\ 1 \in DOMAIN channel /\ Cleaning(1) /\ cutoff = channel[1].cutoff
          /\ deleting' = <<cutoff>>
          /\ Delete("requests", cutoff) \/ DeleteFails
          /\ "requests" \in Tables
      BY <2>0, <2>6, ChannelPops DEF DeleteRequests, Receives, Cleaning, Tables
    <3>2. cutoff \in Cutoffs /\ cutoff <= now /\ cutoff <= Ago(Retention)
      BY <2>0, <2>a, <2>b, <3>1 DEF Dated, CutoffsAreOld, Cutoffs
    <3>3. \A j \in DOMAIN channel' : Waiting(j)' =>
            /\ cutoff <= channel'[j].row.ts
            /\ \A t \in Tables : cleaned[t] <= channel'[j].row.ts
      BY <2>1, <3>1 DEF Dated, WaitingIsYoung
    <3> HIDE DEF cutoff
    <3>4. /\ \A t \in Tables : cleaned'[t] <= now'
          /\ \A j \in DOMAIN channel' : Waiting(j)' =>
               \A t \in Tables : cleaned'[t] <= channel'[j].row.ts
          /\ CleanedStaysClean'
      BY <3>1, <3>2, <3>3, DeleteDated
    <3>5. Head(deleting') = cutoff /\ Ago(Retention)' = Ago(Retention)
      BY <3>1 DEF Ago
    <3>6. CutoffsAreOld'
      BY <2>1, <3>1, <3>2, <3>4, <3>5 DEF Dated, CutoffsAreOld
    <3>7. WaitingIsYoung'
      BY <2>1, <3>1, <3>3, <3>4, <3>5 DEF Dated, WaitingIsYoung
    <3> QED
      BY <3>4, <3>6, <3>7 DEF Dated
  <2>7. CASE DeleteSpeedtests
    <3> DEFINE cutoff == Head(deleting)
    <3>1. /\ UNCHANGED <<channel, now>> /\ deleting # << >> /\ deleting' = << >>
          /\ Delete("speedtests", cutoff) \/ DeleteFails
          /\ "speedtests" \in Tables
      BY <2>7 DEF DeleteSpeedtests, Tables
    <3>2. cutoff \in Cutoffs /\ cutoff <= now
      BY <2>0, <2>c, <3>1
    <3>3. \A j \in DOMAIN channel' : Waiting(j)' =>
            /\ cutoff <= channel'[j].row.ts
            /\ \A t \in Tables : cleaned[t] <= channel'[j].row.ts
      BY <3>1 DEF Dated, WaitingIsYoung, Waiting
    <3> HIDE DEF cutoff
    <3>4. /\ \A t \in Tables : cleaned'[t] <= now'
          /\ \A j \in DOMAIN channel' : Waiting(j)' =>
               \A t \in Tables : cleaned'[t] <= channel'[j].row.ts
          /\ CleanedStaysClean'
      BY <3>1, <3>2, <3>3, DeleteDated
    <3>5. CutoffsAreOld'
      BY <3>1, <3>4 DEF Dated, CutoffsAreOld, Cleaning, Ago
    <3>6. WaitingIsYoung'
      BY <3>1, <3>4 DEF Dated, WaitingIsYoung, Waiting, Cleaning
    <3> QED
      BY <3>4, <3>5, <3>6 DEF Dated
  <2>8. CASE CrashAndRestart
    <3>1. DOMAIN channel' = {} /\ deleting' = << >> /\ UNCHANGED <<now, rows, cleaned>>
      BY <2>8 DEF CrashAndRestart
    <3> QED
      BY <3>1 DEF Dated, CutoffsAreOld, WaitingIsYoung, CleanedStaysClean
  <2>9. CASE Tick
    <3>1. now' = now + 1 /\ UNCHANGED <<channel, deleting, rows, cleaned>>
      BY <2>9 DEF Tick, writerVars
    <3>2. Ago(Retention)' \in Nat /\ Ago(Retention) <= Ago(Retention)'
      BY <2>0, <3>1 DEF Ago
    <3>3. CutoffsAreOld'
      <4>1. \A i \in DOMAIN channel : Cleaning(i) => channel[i].cutoff <= Ago(Retention)'
        BY <2>a, <2>b, <3>2 DEF Dated, CutoffsAreOld
      <4>2. deleting # << >> => Head(deleting) <= Ago(Retention)'
        BY <2>c, <2>b, <3>2 DEF Dated, CutoffsAreOld
      <4>3. \A table \in Tables : cleaned[table] <= now'
        BY <2>0, <3>1 DEF Dated, CutoffsAreOld, Cutoffs
      <4> QED
        BY <3>1, <4>1, <4>2, <4>3 DEF CutoffsAreOld, Cleaning
    <3>4. WaitingIsYoung' /\ CleanedStaysClean'
      BY <3>1 DEF Dated, WaitingIsYoung, CleanedStaysClean, Waiting, Cleaning
    <3> QED
      BY <3>3, <3>4 DEF Dated
  <2>10. CASE UNCHANGED <<now, channel, deleting, rows, cleaned>>
    BY <2>10
    DEF Dated, CutoffsAreOld, WaitingIsYoung, CleanedStaysClean, Waiting, Cleaning, Ago
  <2> QED
    BY <2>2, <2>3, <2>4, <2>5, <2>6, <2>7, <2>8, <2>9, <2>10
    DEF Next, vars, writerVars, SummaryStart, QueryHour, QueryDay, QuerySeries,
      QueryStatus, QueryRecent, Answer
<1> QED
  BY <1>1, <1>2, DbTyped, PTL DEF Spec

(* A table that was cleaned to a cutoff holds no older row from then on:   *)
(* none comes out of the channel later, whichever statement of a cleanup   *)
(* failed and whenever the process died (writer_loop, Db::start).          *)
THEOREM CleanStays == Spec => []CleanedStaysClean
<1>1. Dated => CleanedStaysClean
  BY DEF Dated
<1> QED
  BY <1>1, DatedInductive, PTL

(* No step takes a row that is younger than the retention period.          *)
Kept ==
  \A table \in Tables : \A row \in rows[table] :
    row \in rows'[table] \/ row.ts < now - Retention

LEMMA KeptStep ==
  ASSUME TypeOK, Dated, [Next]_vars
  PROVE  Kept
<1> USE DbAssumption
<1>0. /\ rows \in [Tables -> SUBSET Row] /\ now \in Nat
      /\ deleting \in {<< >>} \cup {<<c>> : c \in Cutoffs}
  BY DEF TypeOK
<1>1. ASSUME NEW table \in Tables, NEW cutoff \in Nat, cutoff <= Ago(Retention),
             Delete(table, cutoff) \/ DeleteFails
      PROVE  Kept
  <2>1. \A t \in Tables : \A row \in rows[t] : row.ts \in Nat
    BY <1>0 DEF Row
  <2>2. \A t \in Tables : \A row \in rows[t] : row \in rows'[t] \/ row.ts < cutoff
    BY <1>0, <1>1, <2>1 DEF Delete, DeleteFails
  <2>3. \A ts \in Nat : ts < cutoff => ts < now - Retention
    BY <1>0, <1>1 DEF Ago
  <2> QED
    BY <2>1, <2>2, <2>3 DEF Kept
<1>2. CASE DeleteRequests
  <2>1. channel \in Seq(Command) /\ channel # << >> /\ Head(channel).kind = "cleanup"
    BY <1>2 DEF TypeOK, DeleteRequests, Receives
  <2>2. 1 \in DOMAIN channel /\ Head(channel) = channel[1] /\ channel[1] \in Command
    BY <2>1, ChannelPops
  <2>3. /\ Head(channel).cutoff \in Nat /\ Head(channel).cutoff <= Ago(Retention)
        /\ "requests" \in Tables
    BY <2>1, <2>2, CommandShape DEF Dated, CutoffsAreOld, Cleaning, Cutoffs, Tables
  <2> QED
    BY <1>1, <1>2, <2>3 DEF DeleteRequests
<1>3. CASE DeleteSpeedtests
  <2>1. Head(deleting) \in Nat /\ Head(deleting) <= Ago(Retention) /\ "speedtests" \in Tables
    BY <1>0, <1>3 DEF DeleteSpeedtests, Dated, CutoffsAreOld, Cutoffs, Tables
  <2> QED
    BY <1>1, <1>3, <2>1 DEF DeleteSpeedtests
<1>4. CASE WriteRow
  BY <1>0, <1>4 DEF WriteRow, Kept
<1>5. CASE UNCHANGED rows
  BY <1>5 DEF Kept
<1> QED
  BY <1>2, <1>3, <1>4, <1>5
  DEF Next, vars, Record, RetentionTick, RowFails, SummaryStart, QueryHour, QueryDay,
    QuerySeries, QueryStatus, QueryRecent, Answer, CrashAndRestart, Tick, writerVars

(* A row that was written is kept for Retention, however long a cleanup    *)
(* waited in the channel and however often the process was started         *)
(* (Cleanup, main).                                                        *)
THEOREM RowsAreKept == Spec => KeptForRetention
<1>1. TypeOK /\ Dated /\ [Next]_vars => [Kept]_vars
  BY KeptStep
<1> QED
  BY <1>1, DbTyped, DatedInductive, PTL DEF Spec, KeptForRetention, Kept

-----------------------------------------------------------------------------
(* What a call of summary has counted stays while it runs: the rows of its *)
(* windows can only become more.                                           *)
CallCounted(d) ==
  LET s == summary[d]
  IN  s.at # "none" =>
        /\ s.now <= now /\ now - Retention <= s.now - Day
        /\ s.at # "hour" => s.hour <= CountSince(s.now - Hour)
        /\ s.at \notin {"hour", "day"} =>
             s.hour <= s.day /\ s.day <= CountSince(s.now - Day)
        /\ s.at \in {"status", "recent", "done"} => s.hour <= s.series
        /\ s.at \in {"recent", "done"} => s.day <= s.status
        /\ s.at = "done" => s.recent >= s.hour \/ s.recent >= RecentLimit

Counted == \A d \in Readers : CallCounted(d)

(* No count of a window that reaches back less than Retention decreases.   *)
LEMMA CountGrows ==
  ASSUME TypeOK, Numbered, Dated, [Next]_vars, NEW ts \in Int, now - Retention <= ts
  PROVE  CountSince(ts) <= CountSince(ts)'
<1> USE DbAssumption
<1>1. TypeOK' /\ TablesNumbered'
  BY TypeStep, NumberedStep DEF Numbered
<1>2. Since(ts) \subseteq Since(ts)'
  <2>1. \A row \in Requests : row.ts \in Int /\ row.ts >= ts => row \in Requests'
    <3>1. "requests" \in Tables /\ \A row \in Requests : row.ts \in Int
      BY DEF TypeOK, Requests, Row, Tables
    <3>2. \A row \in Requests : row \in Requests' \/ row.ts < now - Retention
      BY <3>1, KeptStep DEF Kept, Requests
    <3>3. now \in Int
      BY DEF TypeOK
    <3> QED
      BY <3>1, <3>2, <3>3
  <2>2. \A row \in Requests : row.ts \in Int
    BY DEF TypeOK, Requests, Row, Tables
  <2> QED
    BY <2>1, <2>2 DEF Since
<1>3. IsFiniteSet(Since(ts)')
  <2>1. "requests" \in Tables /\ IsFiniteSet(Requests')
    BY <1>1 DEF TablesNumbered, Tables, Requests
  <2>2. Since(ts)' \subseteq Requests'
    BY DEF Since
  <2> QED
    BY <2>1, <2>2, FS_Subset
<1> QED
  BY <1>2, <1>3, FS_Subset DEF CountSince

(* The points of the chart show every row of the window.                   *)
LEMMA SeriesShowsAll ==
  ASSUME NEW ts
  PROVE  UNION {SeriesSince(ts)[b] : b \in DOMAIN SeriesSince(ts)} = Since(ts)
<1> DEFINE points == {BucketOf(row.ts) : row \in Since(ts)}
           series == SeriesSince(ts)
<1>1. DOMAIN series = points
  BY Zenon DEF SeriesSince
<1>2. \A b \in points : series[b] = {row \in Since(ts) : BucketOf(row.ts) = b}
  BY Zenon DEF SeriesSince
<1>3. \A row \in Since(ts) : BucketOf(row.ts) \in points
  BY Zenon
<1> HIDE DEF points, series
<1>4. \A row \in Since(ts) : \E b \in DOMAIN series : row \in series[b]
  BY <1>1, <1>2, <1>3
<1>5. \A b \in DOMAIN series : series[b] \subseteq Since(ts)
  BY <1>1, <1>2
<1>6. UNION {series[b] : b \in DOMAIN series} = Since(ts)
  BY <1>4, <1>5
<1> QED
  BY <1>6 DEF series

(* A set of natural numbers has a least element.                           *)
LEMMA HasLeast ==
  ASSUME NEW T \in SUBSET Nat, T # {}
  PROVE  \E x \in T : \A y \in T : ~ (y < x)
<1>1. PICK x \in T : \A y \in T : ~ (<<y, x>> \in OpToRel(<, Nat))
  BY NatLessThanWellFounded, WFMin
<1> QED
  BY <1>1 DEF OpToRel

(* The list shows every row of the window, or is full.                     *)
LEMMA RecentShowsAll ==
  ASSUME TypeOK, TablesNumbered, NEW ts
  PROVE  LET recent == Cardinality(RecentSince(ts, RecentLimit))
         IN  recent >= CountSince(ts) \/ recent >= RecentLimit
<1> USE DbAssumption
<1> DEFINE all == Since(ts)
           recent == RecentSince(ts, RecentLimit)
           left == all \ recent
<1>1. all \subseteq Requests /\ \A row \in all : row.id \in 1 .. MaxRows
  BY DEF TypeOK, Since, Requests, Row, Tables
<1>2. \A row \in left : ~ (Cardinality({later \in all : later.id > row.id}) < RecentLimit)
  BY Zenon DEF RecentSince
<1>3. recent \subseteq all
  BY Zenon DEF RecentSince
<1>4. CountSince(ts) = Cardinality(all)
  BY DEF CountSince
<1> HIDE DEF all, recent
<1>5. IsFiniteSet(recent) /\ Cardinality(recent) \in 0 .. MaxRows
  BY <1>1, <1>3, CountTyped
<1>6. CASE left = {}
  <2>1. recent = all
    BY <1>3, <1>6
  <2> QED
    BY <1>4, <1>5, <2>1 DEF recent
<1>7. CASE left # {}
  <2> DEFINE ids == {MaxRows - row.id : row \in left}
  <2>1. ids \in SUBSET Nat /\ ids # {}
    BY <1>1, <1>7
  <2>2. PICK x \in ids : \A y \in ids : ~ (y < x)
    BY <2>1, HasLeast
  <2>3. PICK row \in left : x = MaxRows - row.id
    BY <2>2
  <2>4. \A q \in left : MaxRows - q.id \in ids
    OBVIOUS
  <2> HIDE DEF ids
  <2>5. \A q \in left : ~ (q.id > row.id)
    BY <1>1, <2>2, <2>3, <2>4
  <2> DEFINE newer == {later \in all : later.id > row.id}
  <2>6. newer \subseteq recent
    BY <2>5
  <2>7. ~ (Cardinality(newer) < RecentLimit)
    BY <1>2
  <2> HIDE DEF newer
  <2>8. Cardinality(newer) \in Nat /\ Cardinality(newer) <= Cardinality(recent)
    BY <1>5, <2>6, FS_Subset, FS_CardinalityType
  <2>9. Cardinality(recent) >= RecentLimit
    BY <1>5, <2>7, <2>8
  <2> QED
    BY <2>9 DEF recent
<1> QED
  BY <1>6, <1>7

(* The hour is within the day. *)
LEMMA HourWithinDay ==
  ASSUME TypeOK, Numbered, NEW t \in Nat
  PROVE  /\ CountSince(t - Hour) \in Nat /\ CountSince(t - Day) \in Nat
         /\ CountSince(t - Hour) <= CountSince(t - Day)
<1> USE DbAssumption
<1>1. \A row \in Requests : row.ts \in Int
  BY DEF TypeOK, Requests, Row, Tables
<1>2. Since(t - Hour) \subseteq Since(t - Day) /\ Since(t - Day) \subseteq Requests
  BY <1>1 DEF Since
<1> QED
  BY <1>2, CountTyped, FS_Subset, FS_CardinalityType DEF CountSince, Numbered

(* A call that waits at a step of its own keeps what it counted. *)
LEMMA WaitingCall ==
  ASSUME TypeOK, Numbered, Dated, [Next]_vars, NEW d \in Readers, CallCounted(d),
         summary'[d] = summary[d], summary[d].at # "none" => now' - Retention <= summary[d].now - Day
  PROVE  CallCounted(d)'
<1> USE DbAssumption
<1> SUFFICES ASSUME summary[d].at # "none" PROVE CallCounted(d)'
  BY DEF CallCounted
<1> DEFINE t == summary[d].now
<1>1. summary[d] \in SummaryState /\ now \in Nat /\ now' \in Nat /\ now <= now'
  <2>1. now' \in Nat
    <3>1. TypeOK'
      BY TypeStep
    <3> QED
      BY <3>1 DEF TypeOK
  <2>2. now' = now \/ now' = now + 1
    BY DEF Next, vars, writerVars, Record, RetentionTick, WriteRow, RowFails,
      DeleteRequests, DeleteSpeedtests, SummaryStart, QueryHour, QueryDay, QuerySeries,
      QueryStatus, QueryRecent, Answer, CrashAndRestart, Tick
  <2>3. summary[d] \in SummaryState /\ now \in Nat
    BY DEF TypeOK, SummaryState, Stages
  <2> QED
    BY <2>1, <2>2, <2>3
<1>2. t \in Nat /\ now - Retention <= t - Day /\ t <= now
  BY <1>1 DEF CallCounted, SummaryState
<1>3. ASSUME NEW ts \in Int, ts = t - Hour \/ ts = t - Day
      PROVE  /\ CountSince(ts) \in Nat /\ CountSince(ts)' \in Nat
             /\ CountSince(ts) <= CountSince(ts)'
  <2>1. now - Retention <= ts
    BY <1>1, <1>2, <1>3
  <2>2. CountSince(ts) \in Nat
    BY <1>2, <1>3, HourWithinDay
  <2>3. CountSince(ts)' \in Nat
    <3>1. "requests" \in Tables /\ IsFiniteSet(Requests')
      BY NumberedStep DEF Numbered, TablesNumbered, Tables, Requests
    <3>2. Since(ts)' \subseteq Requests'
      BY DEF Since
    <3> QED
      BY <3>1, <3>2, FS_Subset, FS_CardinalityType DEF CountSince
  <2> QED
    BY <2>1, <2>2, <2>3, CountGrows
<1>4. ASSUME NEW ts \in Int, ts = t - Hour PROVE CountSince(t - Hour)' = CountSince(ts)'
  BY <1>4 DEF CountSince, Since
<1>5. ASSUME NEW ts \in Int, ts = t - Day PROVE CountSince(t - Day)' = CountSince(ts)'
  BY <1>5 DEF CountSince, Since
<1>6. /\ CountSince(t - Hour) \in Nat /\ CountSince(t - Hour)' \in Nat
      /\ CountSince(t - Day) \in Nat /\ CountSince(t - Day)' \in Nat
      /\ CountSince(t - Hour) <= CountSince(t - Hour)'
      /\ CountSince(t - Day) <= CountSince(t - Day)'
  <2>1. PICK h \in Int, e \in Int : h = t - Hour /\ e = t - Day
    BY <1>2
  <2> QED
    BY <1>3, <1>4, <1>5, <2>1
<1> QED
  BY <1>1, <1>2, <1>6 DEF CallCounted, SummaryState

LEMMA CountedStep ==
  ASSUME TypeOK, Numbered, Dated, Counted, [Next]_vars
  PROVE  Counted'
<1> USE DbAssumption
<1>0. summary \in [Readers -> SummaryState] /\ now \in Nat
  BY DEF TypeOK, SummaryState, Stages
<1> SUFFICES ASSUME NEW d \in Readers PROVE CallCounted(d)'
  BY DEF Counted
<1> DEFINE s == summary[d]
<1>1. CallCounted(d)
  BY DEF Counted
<1>2. s \in SummaryState /\ s.now \in Nat
  BY <1>0 DEF SummaryState
<1>3. CASE summary'[d] = s /\ now' = now
  BY <1>1, <1>3, WaitingCall DEF CallCounted
<1>4. CASE Tick
  <2>1. summary' = summary /\ now' = now + 1
        /\ (s.at # "none" => now < s.now + (Retention - Day))
    BY <1>4 DEF Tick, writerVars
  <2>2. s.at # "none" => now' - Retention <= s.now - Day
    BY <1>0, <1>2, <2>1
  <2> QED
    BY <1>1, <2>1, <2>2, WaitingCall
<1>5. CASE summary'[d] = NoSummary
  BY <1>5 DEF CallCounted, NoSummary
(* A query of this call: time and tables stand still. *)
<1>6. ASSUME UNCHANGED <<now, rows>>, s.at # "none", summary'[d].now = s.now
      PROVE  /\ CountSince(s.now - Hour)' = CountSince(s.now - Hour)
             /\ CountSince(s.now - Day)' = CountSince(s.now - Day)
  BY <1>6 DEF CountSince, Since, Requests
<1> DEFINE hours == CountSince(s.now - Hour)
           days == CountSince(s.now - Day)
<1>7. hours \in Nat /\ days \in Nat /\ hours <= days
  BY <1>2, HourWithinDay
<1>8. s.at # "none" => s.now <= now /\ now - Retention <= s.now - Day
  BY <1>1 DEF CallCounted
<1> HIDE DEF hours, days
<1>9. CASE SummaryStart(d)
  <2>1. /\ summary'[d] = [NoSummary EXCEPT !.at = "hour", !.now = now] /\ now' = now
    BY <1>0, <1>9 DEF SummaryStart
  <2>2. summary'[d].at = "hour" /\ summary'[d].now = now
    BY <2>1 DEF NoSummary
  <2> QED
    BY <1>0, <2>1, <2>2 DEF CallCounted
<1>10. CASE QueryHour(d)
  <2>1. /\ summary'[d] = [s EXCEPT !.at = "day", !.hour = hours] /\ s.at = "hour"
        /\ UNCHANGED <<now, rows>>
    BY <1>0, <1>10 DEF QueryHour, hours, writerVars
  <2>2. summary'[d].at = "day" /\ summary'[d].now = s.now /\ summary'[d].hour = hours
    BY <1>2, <2>1 DEF SummaryState
  <2> QED
    BY <1>6, <1>7, <1>8, <2>1, <2>2 DEF CallCounted, hours
<1>11. CASE QueryDay(d)
  <2>1. /\ summary'[d] = [s EXCEPT !.at = "series", !.day = days] /\ s.at = "day"
        /\ UNCHANGED <<now, rows>>
    BY <1>0, <1>11 DEF QueryDay, days, writerVars
  <2>2. /\ summary'[d].at = "series" /\ summary'[d].now = s.now
        /\ summary'[d].hour = s.hour /\ summary'[d].day = days
    BY <1>2, <2>1 DEF SummaryState
  <2>3. s.hour \in Nat /\ s.hour <= hours
    BY <1>1, <1>2, <2>1 DEF CallCounted, SummaryState, hours
  <2> QED
    BY <1>6, <1>7, <1>8, <2>1, <2>2, <2>3 DEF CallCounted, hours, days
<1>12. CASE QuerySeries(d)
  <2> DEFINE series == SeriesSince(s.now - Hour)
             shown == Cardinality(UNION {series[b] : b \in DOMAIN series})
  <2>1. /\ summary'[d] = [s EXCEPT !.at = "status", !.series = shown] /\ s.at = "series"
        /\ UNCHANGED <<now, rows>>
    BY <1>0, <1>12 DEF QuerySeries, writerVars
  <2>2. shown = hours
    BY SeriesShowsAll DEF CountSince, hours
  <2> HIDE DEF shown
  <2>3. /\ summary'[d].at = "status" /\ summary'[d].now = s.now
        /\ summary'[d].hour = s.hour /\ summary'[d].day = s.day
        /\ summary'[d].series = hours
    BY <1>2, <2>1, <2>2 DEF SummaryState
  <2>4. s.hour <= hours /\ s.hour <= s.day /\ s.day <= days
    BY <1>1, <2>1 DEF CallCounted, hours, days
  <2> QED
    BY <1>6, <1>8, <2>1, <2>3, <2>4 DEF CallCounted, hours, days
<1>13. CASE QueryStatus(d)
  <2>1. /\ summary'[d] = [s EXCEPT !.at = "recent", !.status = days] /\ s.at = "status"
        /\ UNCHANGED <<now, rows>>
    BY <1>0, <1>13 DEF QueryStatus, days, writerVars
  <2>2. /\ summary'[d].at = "recent" /\ summary'[d].now = s.now
        /\ summary'[d].hour = s.hour /\ summary'[d].day = s.day
        /\ summary'[d].series = s.series /\ summary'[d].status = days
    BY <1>2, <2>1 DEF SummaryState
  <2>3. s.hour <= hours /\ s.hour <= s.day /\ s.day <= days /\ s.hour <= s.series
    BY <1>1, <2>1 DEF CallCounted, hours, days
  <2> QED
    BY <1>6, <1>8, <2>1, <2>2, <2>3 DEF CallCounted, hours, days
<1>14. CASE QueryRecent(d)
  <2> DEFINE shown == Cardinality(RecentSince(s.now - Hour, RecentLimit))
  <2>1. /\ summary'[d] = [s EXCEPT !.at = "done", !.recent = shown] /\ s.at = "recent"
        /\ UNCHANGED <<now, rows>>
    BY <1>0, <1>14 DEF QueryRecent, writerVars
  <2>2. shown >= hours \/ shown >= RecentLimit
    BY RecentShowsAll DEF hours, Numbered
  <2>3. shown \in 0 .. MaxRows
    <3>1. RecentSince(s.now - Hour, RecentLimit) \subseteq Requests
      BY DEF RecentSince, Since
    <3> QED
      BY <3>1, CountTyped DEF Numbered
  <2> HIDE DEF shown
  <2>4. /\ summary'[d].at = "done" /\ summary'[d].now = s.now
        /\ summary'[d].hour = s.hour /\ summary'[d].day = s.day
        /\ summary'[d].series = s.series /\ summary'[d].status = s.status
        /\ summary'[d].recent = shown
    BY <1>2, <2>1 DEF SummaryState
  <2>5. /\ s.hour <= hours /\ s.hour <= s.day /\ s.day <= days /\ s.hour <= s.series
        /\ s.day <= s.status /\ s.hour \in Nat
    BY <1>1, <1>2, <2>1 DEF CallCounted, hours, days, SummaryState
  <2> QED
    BY <1>6, <1>7, <1>8, <2>1, <2>2, <2>3, <2>4, <2>5 DEF CallCounted, hours, days
<1>15. CASE Answer(d)
  BY <1>0, <1>5, <1>15 DEF Answer
<1>16. CASE CrashAndRestart
  BY <1>5, <1>16 DEF CrashAndRestart
<1>17. ASSUME NEW c \in Readers, c # d,
              \/ SummaryStart(c) \/ QueryHour(c) \/ QueryDay(c) \/ QuerySeries(c)
              \/ QueryStatus(c) \/ QueryRecent(c) \/ Answer(c)
       PROVE  summary'[d] = s /\ now' = now
  BY <1>0, <1>17 DEF SummaryStart, QueryHour, QueryDay, QuerySeries, QueryStatus,
    QueryRecent, Answer
<1>18. CASE UNCHANGED <<summary, now>>
  BY <1>3, <1>18
<1> QED
  BY <1>3, <1>4, <1>9, <1>10, <1>11, <1>12, <1>13, <1>14, <1>15, <1>16, <1>17, <1>18
  DEF Next, vars, Record, RetentionTick, WriteRow, RowFails, DeleteRequests,
    DeleteSpeedtests

(* The summary adds up though its queries share no transaction: the hour   *)
(* is within the day, the status counts, the chart and the list show no    *)
(* less than what was counted before (summary, src/dashboard.rs).          *)
THEOREM SummariesAddUp == Spec => []SummaryAddsUp
<1>1. Init => Counted
  BY DEF Init, Counted, CallCounted, NoSummary
<1>2. TypeOK /\ Numbered /\ Dated /\ Counted /\ [Next]_vars => Counted'
  BY CountedStep
<1>3. Counted => SummaryAddsUp
  BY DEF Counted, CallCounted, SummaryAddsUp
<1> QED
  BY <1>1, <1>2, <1>3, NumberedInductive, DatedInductive, PTL DEF Spec
=============================================================================
