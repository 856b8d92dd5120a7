------------------------------ MODULE WallClock ------------------------------
(***************************************************************************)
(* Unix time kept in the calendar of the RTC (time.c).  A task reads or    *)
(* sets it under time_mutex, with one HAL call for the time of day and one *)
(* for the date; the RTC counts on between the two.  The days of a year    *)
(* are those of the calendar, a day is SecsPerDay seconds (86400 in the    *)
(* code) and 2000 starts at Epoch2000.                                     *)
(***************************************************************************)
EXTENDS Integers

CONSTANTS
    Readers,     \* tasks that call time_get_unix
    Setters,     \* tasks that call time_set_unix
    SecsPerDay, Epoch2000,
    LastYear,    \* years are of 2000..LastYear; the RTC holds two digits
    Epochs,      \* what is set, and what the RTC may hold at first
    MaxSets, MaxTicks, MaxDeletions \* bounds

ASSUME SecsAssumption == SecsPerDay \in Nat \ {0} /\ Epoch2000 \in Nat
ASSUME YearAssumption == LastYear \in 2000..2099
ASSUME CountsAssumption == MaxSets \in Nat /\ MaxTicks \in Nat /\ MaxDeletions \in Nat

Tasks == Readers \union Setters
NoTask == "none"
Unknown == -1
ASSUME TasksAssumption == NoTask \notin Tasks

-----------------------------------------------------------------------------
(* The calendar *)

FirstYear == 2000

IsLeap(year) == (year % 4 = 0 /\ year % 100 # 0) \/ year % 400 = 0
DaysInYear(year) == IF IsLeap(year) THEN 366 ELSE 365

\* Days from the first year to the start of a year.
DaysToYear[y \in FirstYear .. LastYear + 1] ==
    IF y = FirstYear THEN 0 ELSE DaysToYear[y - 1] + DaysInYear(y - 1)

days_before_month == <<0, 31, 59, 90, 120, 151, 181, 212, 243, 273, 304, 334>>

\* What time_set_unix is given: it wraps around before 2000, and the RTC after its last year.
ASSUME EpochsAssumption ==
    \A epoch \in Epochs :
        /\ epoch \in Nat /\ epoch >= Epoch2000
        /\ epoch - Epoch2000 < DaysToYear[LastYear + 1] * SecsPerDay

DaysToMonth(month, year) ==
    days_before_month[month] + IF month > 2 /\ IsLeap(year) THEN 1 ELSE 0

\* calendar_to_secs2000
ToSecs(c) ==
    (DaysToYear[c.year] + DaysToMonth(c.month, c.year) + c.day - 1) * SecsPerDay + c.secs

\* secs2000_to_calendar: its loops stop at the first year and month that hold the day.
ToCalendar(secs) ==
    LET days == secs \div SecsPerDay
        year == CHOOSE y \in FirstYear..LastYear : DaysToYear[y] <= days /\ days < DaysToYear[y + 1]
        rest == days - DaysToYear[year]
        month == CHOOSE m \in 1..12 :
                    /\ DaysToMonth(m, year) <= rest
                    /\ m < 12 => rest < DaysToMonth(m + 1, year)
    IN  [year |-> year, month |-> month, day |-> rest - DaysToMonth(month, year) + 1,
         secs |-> secs % SecsPerDay]

-----------------------------------------------------------------------------
(* The RTC *)

\* The RTC has its own calendar: a year of two digits is a leap year every four.
DaysInMonth(month, year) ==
    CASE month = 2 -> IF year % 4 = 0 THEN 29 ELSE 28
      [] month \in {4, 6, 9, 11} -> 30
      [] OTHER -> 31

After(c) ==
    IF c.secs + 1 < SecsPerDay THEN [c EXCEPT !.secs = @ + 1]
    ELSE IF c.day < DaysInMonth(c.month, c.year) THEN [c EXCEPT !.secs = 0, !.day = @ + 1]
    ELSE IF c.month < 12 THEN [c EXCEPT !.secs = 0, !.day = 1, !.month = @ + 1]
    ELSE [year |-> c.year + 1, month |-> 1, day |-> 1, secs |-> 0]

-----------------------------------------------------------------------------

VARIABLES
    rtc,       \* the calendar
    mutex,     \* the holder of time_mutex
    pc,        \* where each task is: "idle", "get", "date", "got", "set", "setDate", "deleted"
    local,     \* what it has read, or is to set
    time,      \* history: the epoch last set plus the seconds since, or that of the RTC at first
    known,     \* history: time when the task latched the RTC, Unknown after jumped
    jumped,    \* history: midnight came between the two calls of a set
    sets, ticks, deletions \* counters of the bounds

rtcVars == <<rtc, mutex, pc, local, time, known, jumped, sets, ticks, deletions>>

RtcInit ==
    /\ time \in Epochs /\ rtc = ToCalendar(time - Epoch2000)
    /\ mutex = NoTask /\ pc = [t \in Tasks |-> "idle"] /\ local = [t \in Tasks |-> 0]
    /\ known = [t \in Tasks |-> 0] /\ jumped = FALSE /\ sets = 0 /\ ticks = 0 /\ deletions = 0

\* A second passes.  The year does not end in the last one.
Tick ==
    /\ ticks < MaxTicks /\ ticks' = ticks + 1
    /\ After(rtc).year <= LastYear
    /\ rtc' = After(rtc) /\ time' = time + 1
    /\ jumped' = (jumped \/ (rtc'.secs = 0 /\ \E t \in Tasks : pc[t] = "setDate"))
    /\ UNCHANGED <<mutex, pc, local, known, sets, deletions>>

\* Wrong variant: the clock is read without its mutex.
TakeMutexNot(t) == UNCHANGED mutex

TakeMutex(t) == mutex = NoTask /\ mutex' = t

\* time_get_unix
Get(t) ==
    /\ pc[t] = "idle" /\ t \in Readers /\ TakeMutex(t)
    /\ pc' = [pc EXCEPT ![t] = "get"]
    /\ UNCHANGED <<rtc, local, time, known, jumped, sets, ticks, deletions>>

\* HAL_RTC_GetTime: the date is locked in the shadow registers with the time.
GetTime(t) ==
    /\ pc[t] = "get" /\ pc' = [pc EXCEPT ![t] = "date"]
    /\ local' = [local EXCEPT ![t] = Epoch2000 + ToSecs(rtc)] /\ known' = [known EXCEPT ![t] = IF jumped THEN Unknown ELSE time]
    /\ UNCHANGED <<rtc, mutex, time, jumped, sets, ticks, deletions>>

GetDate(t) ==
    /\ pc[t] = "date" /\ pc' = [pc EXCEPT ![t] = "got"] /\ mutex' = NoTask
    /\ UNCHANGED <<rtc, local, time, known, jumped, sets, ticks, deletions>>

Return(t) ==
    /\ pc[t] = "got" /\ pc' = [pc EXCEPT ![t] = "idle"]
    /\ local' = [local EXCEPT ![t] = 0] /\ known' = [known EXCEPT ![t] = 0]
    /\ UNCHANGED <<rtc, mutex, time, jumped, sets, ticks, deletions>>

\* time_set_unix
Set(t, epoch) ==
    /\ pc[t] = "idle" /\ t \in Setters /\ sets < MaxSets /\ sets' = sets + 1
    /\ TakeMutex(t)
    /\ pc' = [pc EXCEPT ![t] = "set"] /\ local' = [local EXCEPT ![t] = epoch]
    /\ UNCHANGED <<rtc, time, known, jumped, ticks, deletions>>

SetTime(t) ==
    /\ pc[t] = "set" /\ pc' = [pc EXCEPT ![t] = "setDate"]
    /\ rtc' = [rtc EXCEPT !.secs = ToCalendar(local[t] - Epoch2000).secs] /\ time' = local[t]
    /\ jumped' = FALSE
    /\ UNCHANGED <<mutex, local, known, sets, ticks, deletions>>

SetDate(t) ==
    /\ pc[t] = "setDate" /\ pc' = [pc EXCEPT ![t] = "idle"] /\ mutex' = NoTask
    /\ rtc' = [ToCalendar(local[t] - Epoch2000) EXCEPT !.secs = rtc.secs]
    /\ local' = [local EXCEPT ![t] = 0]
    /\ UNCHANGED <<time, known, jumped, sets, ticks, deletions>>

\* tm_reset_task deletes the task where it is: the mutex stays taken.
Delete(t) ==
    /\ deletions < MaxDeletions /\ deletions' = deletions + 1
    /\ pc[t] # "deleted"
    /\ pc' = [pc EXCEPT ![t] = "deleted"]
    /\ UNCHANGED <<rtc, mutex, local, time, known, jumped, sets, ticks>>

\* Its new instance.
Create(t) ==
    /\ pc[t] = "deleted" /\ pc' = [pc EXCEPT ![t] = "idle"]
    /\ local' = [local EXCEPT ![t] = 0] /\ known' = [known EXCEPT ![t] = 0]
    /\ UNCHANGED <<rtc, mutex, time, jumped, sets, ticks, deletions>>

Task(t) == Get(t) \/ GetTime(t) \/ GetDate(t) \/ Return(t)
           \/ (\E epoch \in Epochs : Set(t, epoch)) \/ SetTime(t) \/ SetDate(t)
           \/ Delete(t) \/ Create(t)

RtcNext == Tick \/ \E t \in Tasks : Task(t)

RtcSpec == RtcInit /\ [][RtcNext]_rtcVars

-----------------------------------------------------------------------------
(* Properties *)

\* A read gives the time last set plus the seconds that have passed since, over the ends of
\* months and leap years, whatever the other tasks do meanwhile and wherever one of them is
\* deleted: unless midnight came while a set had written the time of day and not yet the date.
ReadsTheTime == \A t \in Tasks : pc[t] = "got" => known[t] \in {local[t], Unknown}

=============================================================================
