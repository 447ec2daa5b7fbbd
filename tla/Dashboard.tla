------------------------------- MODULE Dashboard -------------------------------
(***************************************************************************)
(* The dashboard (DeviceDashboard): REST threads that ask for it, one of   *)
(* which generates it when there is none or it is old, while the others    *)
(* wait.  The threads share GeneratingDashboard_, which is looked at and   *)
(* set in two steps, ValidDashboard_ and LastRun_ without a mutex; only    *)
(* DB_ has one.  A generation walks over the rows of the devices and asks  *)
(* AP_WS_Server about each.                                                *)
(***************************************************************************)
EXTENDS Naturals, Sequences, FiniteSets, FiniteSetsExt, Functions

CONSTANTS
    Asker,          \* REST threads
    Found,          \* what a generation may find: [devices, commands]
    KeepFor,        \* periods for which a dashboard is served (120 s)
    Hour, Day_, Week, Month,    \* in periods
    Word64,         \* 2^64
    MaxNow          \* bound on the time

\* A generation walks over finitely many rows.
ASSUME DashAssumption ==
    /\ KeepFor \in Nat
    /\ \A found \in Found : found.devices \in Seq(Range(found.devices))

VARIABLES
    clock,          \* Utils::Now()
    asker,          \* asker[a]: where the thread is, with its D
    Generating,     \* GeneratingDashboard_
    Valid,          \* ValidDashboard_
    LastRun,        \* LastRun_, 0: never
    DB,             \* DB_
    failed,         \* history: a generation threw
    twice           \* history: two threads generated at once

dashVars == <<clock, asker, Generating, Valid, LastRun, DB, failed, twice>>

----------------------------------------------------------------------------
(* The tags of a device. *)

Aged(T) == CASE T > Month -> ">month"
             [] T <= Month /\ T > Week -> ">week"
             [] T <= Week /\ T > Day_ -> ">day"
             [] T <= Day_ /\ T > Hour -> ">hour"
             [] OTHER -> "now"

\* The subtraction is of unsigned numbers, and the contact is in the past.
ComputeUpLastContactTag(T, now) == Aged((T + Word64 - now) % Word64)

ComputeUpTimeTag(T) == Aged(T)

ComputeSanityTag(T) == CASE T = 100 -> "100%"
                         [] T > 90 /\ T # 100 -> ">90%"
                         [] T > 60 /\ T <= 90 -> ">60%"
                         [] OTHER -> "<60%"

\* UpdateCountedMap, for every member of S.
Counted_(S, Tag(_)) ==
    [t \in {Tag(i) : i \in S} |-> Cardinality({i \in S : Tag(i) = t})]

\* Mutant: a device without a connection is not counted under status.
StatusMutant(walked, known) == known

Status(walked, known) == walked

\* A row is counted under its status, and if AP_WS_Server knows the device
\* under the rest.  Statistics that cannot be parsed end the walk, and what
\* was counted so far is the dashboard.
AnalyzeDevices(rows, now) ==
    LET walked == {i \in DOMAIN rows : \A j \in 1..(i - 1) : rows[j].stats # "bad"}
        known == {i \in walked : rows[i].known}
        up == {i \in known : rows[i].stats = "good"}
    IN  [numberOfDevices |-> Cardinality(walked),
         status |-> Counted_(Status(walked, known), LAMBDA i :
                        IF rows[i].known /\ rows[i].Connected THEN "connected"
                        ELSE "not connected"),
         certificates |-> Counted_(known, LAMBDA i : rows[i].certificate),
         lastContact |-> Counted_(known, LAMBDA i :
                             ComputeUpLastContactTag(rows[i].LastContact, now)),
         healths |-> Counted_(known, LAMBDA i : ComputeSanityTag(rows[i].Sanity)),
         upTimes |-> Counted_(up, LAMBDA i : ComputeUpTimeTag(rows[i].uptime))]

\* Rows without a command are not counted.
AnalyzeCommands(commands) ==
    Counted_({i \in DOMAIN commands : commands[i] # ""}, LAMBDA i : commands[i])

NewData(found, now) ==
    [snapshot |-> now, commands |-> AnalyzeCommands(found.commands),
     devices |-> AnalyzeDevices(found.devices, now)]

NoData == [snapshot |-> 0]

----------------------------------------------------------------------------
(* Get and Generate *)

Away == [at |-> "away"]

DashInit ==
    /\ clock = 1
    /\ asker = [a \in Asker |-> Away]
    /\ Generating = FALSE /\ Valid = FALSE
    /\ LastRun = 0 /\ DB = NoData
    /\ failed = FALSE /\ twice = FALSE

StandsAt(a, place) == asker[a].at = place

Go(a, place) == asker' = [asker EXCEPT ![a].at = place]

\* Mutant: a valid dashboard is served however old it is.
MustGenerateMutant == ~Valid \/ LastRun = 0

MustGenerate == ~Valid \/ LastRun = 0 \/ clock - LastRun > KeepFor

UnderWay == \E a \in Asker : asker[a].at \in {"analyze", "store", "end"}

\* Get is entered.
GetDashboard(a) ==
    /\ StandsAt(a, "away")
    /\ asker' = [asker EXCEPT ![a] =
                    [at |-> IF MustGenerate THEN "generate" ELSE "copy",
                     since |-> clock, D |-> NoData, during |-> UnderWay]]
    /\ UNCHANGED <<clock, Generating, Valid, LastRun, DB, failed, twice>>

\* D = DB_, in Get or after the wait.
Copy(a) ==
    /\ StandsAt(a, "copy")
    /\ asker' = [asker EXCEPT ![a].at = "answer", ![a].D = DB]
    /\ UNCHANGED <<clock, Generating, Valid, LastRun, DB, failed, twice>>

\* Generate looks at GeneratingDashboard_ ...
Look(a) ==
    /\ StandsAt(a, "generate")
    /\ Go(a, IF Generating THEN "wait" ELSE "begin")
    /\ UNCHANGED <<clock, Generating, Valid, LastRun, DB, failed, twice>>

Waits(a) ==
    /\ StandsAt(a, "wait") /\ ~Generating
    /\ Go(a, "copy")
    /\ UNCHANGED <<clock, Generating, Valid, LastRun, DB, failed, twice>>

\* ... and sets it.
Begin_(a) ==
    /\ StandsAt(a, "begin")
    /\ Generating' = TRUE
    /\ Valid' = FALSE
    /\ twice' = (twice \/ UnderWay)
    /\ Go(a, "analyze")
    /\ UNCHANGED <<clock, LastRun, DB, failed>>

\* The analysis is complete.
Analyze(a) ==
    /\ StandsAt(a, "analyze")
    /\ LastRun' = clock
    /\ \E found \in Found :
        asker' = [asker EXCEPT ![a].at = "store", ![a].D = NewData(found, clock)]
    /\ UNCHANGED <<clock, Generating, Valid, DB, failed, twice>>

\* It throws something that is no Poco::Exception.
AnalyzeThrows(a) ==
    /\ StandsAt(a, "analyze")
    /\ failed' = TRUE
    /\ Go(a, "end")
    /\ UNCHANGED <<clock, Generating, Valid, LastRun, DB, twice>>

Store_(a) ==
    /\ StandsAt(a, "store")
    /\ DB' = asker[a].D
    /\ Valid' = TRUE
    /\ Go(a, "end")
    /\ UNCHANGED <<clock, Generating, LastRun, failed, twice>>

End(a) ==
    /\ StandsAt(a, "end")
    /\ Generating' = FALSE
    /\ Go(a, "answer")
    /\ UNCHANGED <<clock, Valid, LastRun, DB, failed, twice>>

\* DoGet: D is the answer if ValidDashboard_ says so by now.
Answer(a) ==
    /\ StandsAt(a, "answer")
    /\ asker' = [asker EXCEPT ![a] = Away]
    /\ UNCHANGED <<clock, Generating, Valid, LastRun, DB, failed, twice>>

ClockTicks ==
    /\ clock < MaxNow
    /\ clock' = clock + 1
    /\ UNCHANGED <<asker, Generating, Valid, LastRun, DB, failed, twice>>

DashNext ==
    \/ \E a \in Asker :
        \/ GetDashboard(a) \/ Copy(a) \/ Look(a) \/ Waits(a) \/ Begin_(a)
        \/ Analyze(a) \/ AnalyzeThrows(a) \/ Store_(a) \/ End(a) \/ Answer(a)
    \/ ClockTicks

DashSpec == DashInit /\ [][DashNext]_dashVars

----------------------------------------------------------------------------
(* Properties *)

\* A dashboard that is served is not older than KeepFor, whichever thread made
\* it and whatever the others do to the flags between the steps, unless its
\* generation was under way when it was asked for.  After a generation that
\* threw, a waiting thread may be given the one of before; of two at once, the
\* older may be stored over the newer and pass for it.
ServedIsRecent ==
    \A a \in Asker :
        StandsAt(a, "answer") /\ Valid /\ ~failed /\ ~twice /\ ~asker[a].during =>
            asker[a].D.snapshot + KeepFor >= asker[a].since

\* Every device found is counted under one status, and those AP_WS_Server knows
\* once under each of the other tags, even if the walk ended early.
CountsAddUp ==
    Valid => LET D == DB.devices
             IN  /\ SumFunction(D.status) = D.numberOfDevices
                 /\ SumFunction(D.certificates) = SumFunction(D.healths)
                 /\ SumFunction(D.lastContact) = SumFunction(D.healths)
                 /\ SumFunction(D.upTimes) <= SumFunction(D.healths)
                 /\ SumFunction(D.healths) <= D.numberOfDevices
================================================================================
