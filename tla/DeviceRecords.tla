--------------------------- MODULE DeviceRecords ---------------------------
(***************************************************************************)
(* The records a device leaves behind: statistics, health checks and logs  *)
(* (storage_statistics.cpp, storage_healthcheck.cpp, storage_logs.cpp),    *)
(* the requests that read them page by page or delete them                 *)
(* (RESTAPI_device_commandHandler.cpp), and the archiver that removes old  *)
(* ones once a day (StorageArchiver.cpp).                                  *)
(*                                                                         *)
(* A statement is the sequence of its words; its rows are those that meet  *)
(* every condition in it.  Time is the seconds of short days.  Rows that   *)
(* were recorded in the same second come in any order, and in another one  *)
(* the next time.                                                          *)
(***************************************************************************)
EXTENDS Integers, Sequences, SequencesExt, FiniteSets

CONSTANTS Hours, Minutes, Seconds,  \* of a day, an hour, a minute
          RunAtHour, RunAtMin,      \* archiver.schedule
          Keep,                     \* archiver.db.N.keep, in days
          LogTypes,
          StatisticsLimit,          \* GetStatistics returns at most this many
          PageSize,                 \* what a client asks for
          MaxRecords, MaxTime       \* bounds of the model

\* A schedule that is no time of day ends Start with an exception
\* (LocalDateTime); a client asks for one row at least.
ASSUME RecordsAssumption ==
  /\ {Hours, Minutes, Seconds, StatisticsLimit, PageSize} \subseteq Nat \ {0}
  /\ {RunAtHour, RunAtMin, Keep, MaxRecords, MaxTime} \subseteq Nat
  /\ RunAtHour < Hours /\ RunAtMin < Minutes

VARIABLES
  table,    \* the table of this behaviour
  records,  \* its rows
  now,      \* the clock
  nextRun,  \* when the archiver's timer fires
  reader    \* a client that reads the table page by page

recVars == <<table, records, now, nextRun, reader>>

Day == Hours * Minutes * Seconds

\* Only the rows of DeviceLogs have a type
RecordTypes == IF table = "DeviceLogs" THEN LogTypes ELSE {0}

----------------------------------------------------------------------------
\* The WHERE clause.  Only the statements on DeviceLogs have a type.

DatesIncluded(from, to) == from # 0 \/ to # 0

DateSelector(from, to) ==
  CASE from # 0 /\ to # 0 -> <<"Recorded>=", "AND", "Recorded<=">>
    [] from # 0 /\ to = 0 -> <<"Recorded>=">>
    [] from = 0 /\ to # 0 -> <<"Recorded<=">>
    [] OTHER -> <<>>

\* Mutated form of TypeSelector
TypeSelectorMutant(t, serial, from, to) ==
  IF t # "DeviceLogs" THEN <<>> ELSE <<IF serial THEN "AND" ELSE "WHERE", "LogType">>

TypeSelector(t, serial, from, to) ==
  IF t # "DeviceLogs" THEN <<>>
  ELSE <<IF DatesIncluded(from, to) \/ serial THEN "AND" ELSE "WHERE", "LogType">>

\* serial: a serial number is given
Where(t, serial, from, to) ==
  (IF serial THEN <<"WHERE", "SerialNumber">> ELSE <<>>)
  \o (IF ~DatesIncluded(from, to) THEN <<>> ELSE IF serial THEN <<"AND">> ELSE <<"WHERE">>)
  \o DateSelector(from, to)
  \o TypeSelector(t, serial, from, to)

Meets(r, words, from, to, type) ==
  /\ "Recorded>=" \in ToSet(words) => r.Recorded >= from
  /\ "Recorded<=" \in ToSet(words) => r.Recorded <= to
  /\ "LogType" \in ToSet(words) => r.LogType = type

Selected(from, to, type) ==
  {r \in records : Meets(r, Where(table, TRUE, from, to), from, to, type)}

\* Mutated form of Before
BeforeMutant(t, r, s) == r.Recorded > s.Recorded

\* ORDER BY Recorded: oldest first, but logs newest first
Before(t, r, s) == IF t = "DeviceLogs" THEN r.Recorded > s.Recorded ELSE r.Recorded < s.Recorded

Ordered(S, LessThan(_, _)) ==
  {q \in SetToSeqs(S) : \A i, j \in DOMAIN q : i < j => ~LessThan(q[j], q[i])}

\* ComputeRange: LIMIT and OFFSET
ComputeRange(q, from, howMany) ==
  SubSeq(q, from + 1, IF from + howMany > Len(q) THEN Len(q) ELSE from + howMany)

----------------------------------------------------------------------------
\* What the requests return: a set, for rows of one second have no order

Query(from, to, offset, howMany, type) ==
  {ComputeRange(q, offset, howMany) :
     q \in Ordered(Selected(from, to, type), LAMBDA r, s : Before(table, r, s))}

Newest(howMany, type) ==
  {ComputeRange(q, 0, howMany) :
     q \in Ordered(Selected(0, 0, type), LAMBDA r, s : r.Recorded > s.Recorded)}

GetStatisticsData(from, to, offset, howMany) ==
  Query(from, to, offset, IF howMany > StatisticsLimit THEN StatisticsLimit ELSE howMany, 0)

GetHealthCheckData(from, to, offset, howMany) == Query(from, to, offset, howMany, 0)

GetLogData(from, to, offset, howMany, type) == Query(from, to, offset, howMany, type)

GetNumberOfStatisticsDataRecords(from, to) == Cardinality(Selected(from, to, 0))

GetNewestStatisticsData(howMany) == Newest(howMany, 0)

GetNewestHealthCheckData(howMany) == Newest(howMany, 0)

GetNewestLogData(howMany, type) == Newest(howMany, type)

Get(from, to, offset, howMany, type) ==
  CASE table = "Statistics"   -> GetStatisticsData(from, to, offset, howMany)
    [] table = "HealthChecks" -> GetHealthCheckData(from, to, offset, howMany)
    [] table = "DeviceLogs"   -> GetLogData(from, to, offset, howMany, type)

GetNewest(howMany, type) ==
  CASE table = "Statistics"   -> GetNewestStatisticsData(howMany)
    [] table = "HealthChecks" -> GetNewestHealthCheckData(howMany)
    [] table = "DeviceLogs"   -> GetNewestLogData(howMany, type)

\* Mutated form of CalculateDelta
CalculateDeltaMutant(t, H, M) ==
  LET second == t % Day
      scheduled == (H * Minutes + M) * Seconds
  IN  IF second \div (Minutes * Seconds) < H THEN scheduled - second
      ELSE Day - (second - scheduled)

\* CalculateDelta: from now to the next time of day H:M
CalculateDelta(t, H, M) ==
  LET second == t % Day
      hour == second \div (Minutes * Seconds)
      minute == (second \div Seconds) % Minutes
      scheduled == (H * Minutes + M) * Seconds
  IN  IF hour < H \/ (hour = H /\ minute < M)
      THEN scheduled - second
      ELSE Day - (second - scheduled)

----------------------------------------------------------------------------
\* before: the rows that were there when the client began
Reading(type) ==
  [on |-> TRUE, type |-> type, offset |-> 0, seen |-> <<>>, done |-> FALSE,
   before |-> {r.id : r \in Selected(0, 0, type)}]

NotReading == [on |-> FALSE]

\* StorageArchiver::Start at the time the gateway starts
RecInit ==
  /\ table \in {"Statistics", "HealthChecks", "DeviceLogs"}
  /\ records = {}
  /\ now \in 1..Day
  /\ nextRun = now + CalculateDelta(now, RunAtHour, RunAtMin)
  /\ reader = NotReading

FreshId == CHOOSE id \in 1..MaxRecords : \A r \in records : r.id # id

\* AddStatisticsData, AddHealthCheckData, AddLog: the device records
Add ==
  /\ Cardinality(records) < MaxRecords
  /\ \E type \in RecordTypes :
       records' = records \cup {[id |-> FreshId, Recorded |-> now, LogType |-> type]}
  /\ UNCHANGED <<table, now, nextRun, reader>>

\* A client whose rows go while it reads is not followed any further: its
\* next page skips as many rows as went
Discard(gone) ==
  /\ records' = records \ gone
  /\ reader' = IF gone = {} THEN reader ELSE NotReading

\* DeleteStatisticsData, DeleteHealthCheckData, DeleteLogData
Delete(from, to, type) ==
  /\ Discard(Selected(from, to, type))
  /\ UNCHANGED <<table, now, nextRun>>

\* Mutated form of RemoveRecordsOlderThan
RemoveRecordsOlderThanMutant(date) == Discard({r \in records : r.Recorded < date + 1})

\* Remove...RecordsOlderThan
RemoveRecordsOlderThan(date) == Discard({r \in records : r.Recorded < date})

\* Archiver::onTimer, then again a day later
OnTimer ==
  /\ now >= nextRun
  /\ RemoveRecordsOlderThan(now - Keep * Day)
  /\ nextRun' = nextRun + Day
  /\ UNCHANGED <<table, now>>

\* A client reads from the first page until it gets an empty one
ReadFirst ==
  /\ reader = NotReading
  /\ \E type \in RecordTypes : reader' = Reading(type)
  /\ UNCHANGED <<table, records, now, nextRun>>

ReadPage ==
  /\ reader.on /\ ~reader.done
  /\ Len(reader.seen) <= MaxRecords
  /\ \E page \in Get(0, 0, reader.offset, PageSize, reader.type) :
       reader' = [reader EXCEPT !.offset = @ + Len(page),
                                !.seen = @ \o [i \in DOMAIN page |-> page[i].id],
                                !.done = page = <<>>]
  /\ UNCHANGED <<table, records, now, nextRun>>

ReadDone ==
  /\ reader.on /\ reader.done
  /\ reader' = NotReading
  /\ UNCHANGED <<table, records, now, nextRun>>

\* The timer is punctual: time does not pass it by
Tick ==
  /\ now < MaxTime /\ now < nextRun
  /\ now' = now + 1
  /\ UNCHANGED <<table, records, nextRun, reader>>

RecNext ==
  \/ Add \/ OnTimer \/ ReadFirst \/ ReadPage \/ ReadDone \/ Tick
  \/ \E from, to \in {0, now}, type \in RecordTypes : Delete(from, to, type)

RecSpec == RecInit /\ [][RecNext]_recVars

----------------------------------------------------------------------------
\* Every WHERE clause that the ten statements can put together is SQL:
\* WHERE first, AND between the conditions, and nothing left open.
Clean(words) ==
  /\ Len(words) % 2 = 0
  /\ \A i \in DOMAIN words :
       words[i] \in {"WHERE", "AND"} <=> i % 2 = 1
  /\ \A i \in DOMAIN words : words[i] = "WHERE" <=> i = 1

\* A request selects the rows of its dates, both ends included, a date of 0
\* being no bound, and of its type; what Delete would remove is what Get
\* would return; the newest rows are none older than any left out; and the
\* count is the number of rows there are to read.
RequestsSelectTheirRows ==
  \A from, to \in {0, now}, type \in RecordTypes :
    LET expected == {r \in records : /\ from = 0 \/ r.Recorded >= from
                                     /\ to = 0 \/ r.Recorded <= to
                                     /\ table = "DeviceLogs" => r.LogType = type}
    IN  /\ \A serial \in BOOLEAN : Clean(Where(table, serial, from, to))
        /\ Selected(from, to, type) = expected
        /\ table = "Statistics" =>
             GetNumberOfStatisticsDataRecords(from, to) = Cardinality(expected)
        /\ \A q \in GetNewest(1, type), r \in Selected(0, 0, type) :
             q # <<>> /\ q[1].Recorded >= r.Recorded

Distinct(q) == Cardinality(ToSet(q)) = Len(q)

\* A client that reads page after page while the device keeps recording
\* gets every row that was there when it began, and of the statistics and
\* health checks none twice: new rows come last.  (Logs come newest first,
\* and new ones push rows onto the next page.)  It is only so while no row
\* is deleted or archived and no two rows are of the same second.
PagingMissesNothing ==
  reader.on /\ (\A r, s \in records : r.Recorded = s.Recorded => r = s) =>
    /\ reader.done => reader.before \subseteq ToSet(reader.seen)
    /\ table # "DeviceLogs" => Distinct(reader.seen)

\* Between two runs of the archiver no row is kept for longer than a day
\* more than Keep, whenever the gateway was started; and a run only removes
\* rows that were kept for Keep days.
ArchivedInTime ==
  /\ \A r \in records : now - r.Recorded <= (Keep + 1) * Day
  /\ (nextRun - (RunAtHour * Minutes + RunAtMin) * Seconds) % Day = 0
  /\ nextRun - now <= Day

\* What a run of the archiver removes had been kept for Keep days.
ArchivesOnlyOld ==
  [][nextRun' # nextRun => \A r \in records \ records' : now - r.Recorded > Keep * Day]_recVars
============================================================================
