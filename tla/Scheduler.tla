----------------------------- MODULE Scheduler -----------------------------
(***************************************************************************)
(* Schedule::next_in (sap-automate-scheduler): how long a job waits for    *)
(* its next fire, as the clock goes through the weeks.  The units of time  *)
(* are constants; the code has 60 seconds, 60 minutes and 24 hours.  The   *)
(* clock counts from the epoch, so its days are those of UTC, where the    *)
(* comment on Daily (lib.rs:50) says local time; and a quarter is 90 days, *)
(* where the one on Quarterly (lib.rs:54) says a day of the quarter.       *)
(***************************************************************************)
EXTENDS Naturals, FiniteSetsExt

CONSTANTS
    SecsPerMinute, MinutesPerHour, HoursPerDay,
    Cadences,     \* the schedules of jobs: [kind, ...] as in Schedule
    MaxClock      \* bound: seconds since the epoch

\* A schedule repeats after some time, or names a minute of the hour, a time
\* of the day, a weekday.
ASSUME SchedulerAssumption ==
    /\ {SecsPerMinute, MinutesPerHour, HoursPerDay} \subseteq Nat \ {0}
    /\ \A s \in Cadences :
         /\ s.kind \in {"every_n_seconds", "every_n_minutes", "hourly", "daily", "weekly", "quarterly"}
         /\ s.kind = "every_n_seconds" => s.secs \in Nat \ {0}
         /\ s.kind = "every_n_minutes" => s.mins \in Nat \ {0}
         /\ s.kind = "hourly" => s.minute \in 0..(MinutesPerHour - 1)
         /\ s.kind \in {"daily", "weekly", "quarterly"} => s.hour \in Nat /\ s.minute \in Nat
         /\ s.kind = "weekly" => s.weekday \in 1..7
         /\ s.kind = "quarterly" => s.day \in 1..90

VARIABLES
    cadence,      \* the schedule of the job
    clock         \* now_secs

svars == <<cadence, clock>>

Hour == MinutesPerHour * SecsPerMinute
Day == HoursPerDay * Hour
Week == 7 * Day

SchedulerInit == cadence \in Cadences /\ clock = 0
ClockAdvances == clock < MaxClock /\ clock' = clock + 1 /\ UNCHANGED cadence
ClockEnds == clock = MaxClock /\ UNCHANGED svars
SchedulerNext == ClockAdvances \/ ClockEnds

SchedulerSpec == SchedulerInit /\ [][SchedulerNext]_svars

-----------------------------------------------------------------------------

\* The time of day a schedule names.
TimeOfDay(s) == (s.hour * Hour + s.minute * SecsPerMinute) % Day

\* now_in_day
SecondOfDay == clock % Day

\* 1 = Monday .. 7 = Sunday; the epoch was a Thursday.
WeekdayOf(t) == (((t \div Day) + 3) % 7) + 1

\* saturating_sub
Minus(a, b) == IF a > b THEN a - b ELSE 0

\* From now to the next time the remainder modulo period is target.
NextAligned(now, target, period) ==
    IF now < target THEN target - now ELSE period - (now - target)

NextHourly(s) ==
    NextAligned((clock \div SecsPerMinute) % MinutesPerHour,
                Min({s.minute, MinutesPerHour - 1}), MinutesPerHour) * SecsPerMinute

\* Mutant: at the very second of its time the job waits for nothing.
NextDailyAtOnce(s) ==
    IF SecondOfDay <= TimeOfDay(s) THEN TimeOfDay(s) - SecondOfDay
    ELSE Day - (SecondOfDay - TimeOfDay(s))

NextDaily(s) == NextAligned(SecondOfDay, TimeOfDay(s), Day)

NextWeekly(s) ==
    LET today == WeekdayOf(clock)
        target == Max({1, Min({s.weekday, 7})})
        days == IF today <= target THEN target - today ELSE 7 - (today - target)
        offset == IF days = 0 /\ SecondOfDay >= TimeOfDay(s) THEN 7 ELSE days
    IN offset * Day + Minus(TimeOfDay(s), SecondOfDay)

\* next_in
NextIn(s) ==
    CASE s.kind = "every_n_seconds" -> s.secs
      [] s.kind = "every_n_minutes" -> s.mins * SecsPerMinute
      [] s.kind = "hourly" -> NextHourly(s)
      [] s.kind = "daily" -> NextDaily(s)
      [] s.kind = "weekly" -> NextWeekly(s)
      [] OTHER -> 90 * Day   \* quarterly, whichever day it names

-----------------------------------------------------------------------------

\* t is in the minute of the hour, at the time of day, or at the time of the
\* weekday the schedule names, in UTC.
Due(s, t) ==
    CASE s.kind = "hourly" -> (t \div SecsPerMinute) % MinutesPerHour = s.minute
      [] s.kind = "daily" -> t % Day = TimeOfDay(s)
      [] s.kind = "weekly" -> t % Day = TimeOfDay(s) /\ WeekdayOf(t) = s.weekday

Period(s) == CASE s.kind = "hourly" -> Hour [] s.kind = "daily" -> Day [] s.kind = "weekly" -> Week

\* The next fire is at a time the schedule names, later than now, and none is
\* left out on the way.
OnTime(s) == NextIn(s) \in 1..Period(s) /\ Due(s, clock + NextIn(s))

\* At every second of the weeks an hourly or daily job waits exactly until
\* its next time of the hour or of the UTC day, also at that time itself and
\* over midnight (lib.rs:69-84).  Local time is not claimed, and nothing of a
\* quarterly job.
CalendarOnTime == cadence.kind \in {"hourly", "daily"} => OnTime(cadence)

\* "Weekly on a given weekday (1=Mon..7=Sun) at HH:MM." (lib.rs:52): the same
\* for a weekly job.
WeeklyOnTime == cadence.kind = "weekly" => OnTime(cadence)
=============================================================================
