------------------------------ MODULE DateTime ------------------------------
(***************************************************************************)
(* epoch_to_utc_datetime (user/datetime.c), behind the date command of the *)
(* shell: seconds since 1970 to a calendar date, by taking away years and  *)
(* then months.  One step is one iteration of a loop.  Years stay far      *)
(* below the limit of int for every time the clock can give.               *)
(***************************************************************************)
EXTENDS Integers

CONSTANT Epochs  \* the arguments: seconds since 1970-01-01 00:00:00 UTC

ASSUME EpochAssumption == Epochs \subseteq Nat

SECS_PER_MIN == 60
SECS_PER_HOUR == 3600
SECS_PER_DAY == 86400

VARIABLES
  pc, epoch_sec,
  days,              \* days left to place
  year,
  month,             \* 0-based
  hour, min, sec
time_of_day == <<hour, min, sec>>
date_vars == <<pc, epoch_sec, days, year, month, time_of_day>>

is_leap_year(y) == y % 4 = 0 /\ (y % 100 # 0 \/ y % 400 = 0)

month_days(m) == CASE m \in {3, 5, 8, 10} -> 30 [] m = 1 -> 28 [] OTHER -> 31

DateInit ==
  /\ pc = "split" /\ epoch_sec \in Epochs
  /\ days = 0 /\ year = 1970 /\ month = 0
  /\ hour = 0 /\ min = 0 /\ sec = 0

Split ==
  /\ pc = "split" /\ pc' = "year"
  /\ days' = epoch_sec \div SECS_PER_DAY
  /\ LET sec_of_day == epoch_sec % SECS_PER_DAY
     IN  /\ hour' = sec_of_day \div SECS_PER_HOUR
         /\ min' = (sec_of_day % SECS_PER_HOUR) \div SECS_PER_MIN
         /\ sec' = (sec_of_day % SECS_PER_HOUR) % SECS_PER_MIN
  /\ UNCHANGED <<epoch_sec, year, month>>

days_in_year(y) == IF is_leap_year(y) THEN 366 ELSE 365
dim(y, m) == IF m = 1 /\ is_leap_year(y) THEN 29 ELSE month_days(m)

\* A year is taken away only when a day is left over.
Bad_Year ==
  /\ pc = "year"
  /\ IF days > days_in_year(year)
     THEN days' = days - days_in_year(year) /\ year' = year + 1 /\ pc' = pc
     ELSE UNCHANGED <<days, year>> /\ pc' = "month"
  /\ UNCHANGED <<epoch_sec, month, time_of_day>>
Year ==
  /\ pc = "year"
  /\ IF days >= days_in_year(year)
     THEN days' = days - days_in_year(year) /\ year' = year + 1 /\ pc' = pc
     ELSE UNCHANGED <<days, year>> /\ pc' = "month"
  /\ UNCHANGED <<epoch_sec, month, time_of_day>>

Month ==
  /\ pc = "month"
  /\ IF month < 12 /\ days >= dim(year, month)
     THEN days' = days - dim(year, month) /\ month' = month + 1 /\ pc' = pc
     ELSE UNCHANGED <<days, month>> /\ pc' = "done"
  /\ UNCHANGED <<epoch_sec, year, time_of_day>>

DateNext == Split \/ Year \/ Month

DateSpec == DateInit /\ [][DateNext]_date_vars

----------------------------------------------------------------------------
(* The calendar, in closed form.                                           *)

LeapsBefore(y) == ((y - 1) \div 4) - ((y - 1) \div 100) + ((y - 1) \div 400)
DaysBeforeYear(y) == 365 * (y - 1970) + LeapsBefore(y) - LeapsBefore(1970)
DaysBeforeMonth(y, m) ==
  (CASE m = 0 -> 0 [] m = 1 -> 31 [] m = 2 -> 59 [] m = 3 -> 90 [] m = 4 -> 120 [] m = 5 -> 151
     [] m = 6 -> 181 [] m = 7 -> 212 [] m = 8 -> 243 [] m = 9 -> 273 [] m = 10 -> 304
     [] m = 11 -> 334 [] OTHER -> 365)
  + (IF m > 1 /\ is_leap_year(y) THEN 1 ELSE 0)

\* The date that is finally stored is a day of the calendar, of an existing
\* month and with a time of day, and the calendar gives back the seconds the
\* function was called with: across century years and leap days too.
DateIsRight ==
  pc = "done" =>
    /\ month \in 0 .. 11 /\ days + 1 \in 1 .. dim(year, month)
    /\ hour \in 0 .. 23 /\ min \in 0 .. 59 /\ sec \in 0 .. 59
    /\ epoch_sec = (DaysBeforeYear(year) + DaysBeforeMonth(year, month) + days) * SECS_PER_DAY
                   + hour * SECS_PER_HOUR + min * SECS_PER_MIN + sec

\* What the loops keep: the days they took away are those of the years and
\* months counted, and no year is left when the months begin.
InvSplit == pc = "split" => days = 0 /\ year = 1970 /\ month = 0
InvTime == pc # "split" =>
             /\ hour \in 0 .. 23 /\ min \in 0 .. 59 /\ sec \in 0 .. 59
             /\ epoch_sec % SECS_PER_DAY = hour * SECS_PER_HOUR + min * SECS_PER_MIN + sec
InvDays == pc # "split" => epoch_sec \div SECS_PER_DAY =
                             DaysBeforeYear(year) + DaysBeforeMonth(year, month) + days
InvYear == pc = "year" => month = 0
InvMonth == pc \in {"month", "done"} => DaysBeforeMonth(year, month) + days < days_in_year(year)
InvDone == pc = "done" => month < 12 /\ days < dim(year, month)

DateTypeOK ==
  /\ pc \in {"split", "year", "month", "done"}
  /\ epoch_sec \in Nat /\ days \in Nat /\ year \in Nat /\ year >= 1970 /\ month \in 0 .. 12
  /\ hour \in Int /\ min \in Int /\ sec \in Int

IInv == DateTypeOK /\ InvSplit /\ InvTime /\ InvDays /\ InvYear /\ InvMonth /\ InvDone
=============================================================================
