-------------------------------- MODULE Dates --------------------------------
(***************************************************************************)
(* The civil calendar of launcher/src/library.rs, with which "last opened" *)
(* is written, read, sorted and told, against a calendar that is walked    *)
(* one day at a time. A moment is <<days since 1970, millisecond of the    *)
(* day>>, a text the numbers in it, each written with leading zeros (years *)
(* have four digits).                                                      *)
(***************************************************************************)
EXTENDS Integers, Sequences

CONSTANTS
  Starts,   (* years at whose first day a walk begins                      *)
  Times,    (* milliseconds of the day looked at                           *)
  MaxDays   (* bound: days walked from each                                *)

VARIABLES
  day,      (* days since 1970-01-01                                       *)
  date,     (* the walked date, <<year, month, day of the month>>          *)
  left      (* bound: days left to walk                                    *)

dateVars == <<day, date, left>>

(* Seeded fault: every fourth year of a century's is a leap year.          *)
DaysFromCivilJulian(y0, m, d) ==
  LET y == IF m <= 2 THEN y0 - 1 ELSE y0
      era == y \div 400
      yoe == y - era * 400
      doy == (153 * (IF m > 2 THEN m - 3 ELSE m + 9) + 2) \div 5 + d - 1
  IN era * 146097 + yoe * 365 + yoe \div 4 + doy - 719468

(* days_from_civil; \div rounds down, as div_euclid does.                  *)
DaysFromCivil(y0, m, d) ==
  LET y == IF m <= 2 THEN y0 - 1 ELSE y0
      era == y \div 400
      yoe == y - era * 400
      doy == (153 * (IF m > 2 THEN m - 3 ELSE m + 9) + 2) \div 5 + d - 1
  IN era * 146097 + yoe * 365 + yoe \div 4 - yoe \div 100 + doy - 719468

(* civil_from_days.                                                        *)
CivilFromDays(days) ==
  LET z == days + 719468
      era == z \div 146097
      doe == z - era * 146097
      yoe == (doe - doe \div 1460 + doe \div 36524 - doe \div 146096) \div 365
      doy == doe - (365 * yoe + yoe \div 4 - yoe \div 100)
      mp == (5 * doy + 2) \div 153
      m == IF mp < 10 THEN mp + 3 ELSE mp - 9
  IN <<yoe + era * 400 + (IF m <= 2 THEN 1 ELSE 0), m, doy - (153 * mp + 2) \div 5 + 1>>

DAY == 86400000

ASSUME DatesAssumption == Starts \subseteq Nat /\ Times \subseteq 0 .. DAY - 1 /\ MaxDays \in Nat

(* format_iso.                                                             *)
FormatIso(moment) ==
  LET civil == CivilFromDays(moment[1]) IN
  <<civil[1], civil[2], civil[3],
    moment[2] \div 3600000, (moment[2] \div 60000) % 60, (moment[2] \div 1000) % 60, moment[2] % 1000>>

(* parse_iso; a leap second is the first of the next minute.               *)
ParseIso(iso) ==
  LET ms == ((iso[4] * 60 + iso[5]) * 60 + iso[6]) * 1000 + iso[7]
  IN  IF iso[2] \in 1 .. 12 /\ iso[3] \in 1 .. 31 /\ iso[4] <= 23 /\ iso[5] <= 59 /\ iso[6] <= 60
      THEN << <<DaysFromCivil(iso[1], iso[2], iso[3]) + ms \div DAY, ms % DAY>> >> ELSE <<>>

(* relative_date: the days since, or the date itself.                      *)
RelativeDate(iso, now) ==
  LET then == ParseIso(iso)[1]
      elapsed_days == now[1] - then[1] - (IF now[2] < then[2] THEN 1 ELSE 0)
  IN  IF elapsed_days <= 0 THEN <<"today">>
      ELSE IF elapsed_days = 1 THEN <<"yesterday">>
      ELSE IF elapsed_days <= 29 THEN <<elapsed_days, "days ago">>
      ELSE <<"on", iso[1], iso[2], iso[3]>>

(* by_recent: texts are compared from the left.                            *)
Later(a, b) == \E n \in 1 .. 7 : a[n] > b[n] /\ \A k \in 1 .. n - 1 : a[k] = b[k]
-----------------------------------------------------------------------------
Leap(y) == y % 4 = 0 /\ (y % 100 # 0 \/ y % 400 = 0)
Length(y, m) ==
  CASE m = 2 -> IF Leap(y) THEN 29 ELSE 28
    [] m \in {4, 6, 9, 11} -> 30
    [] OTHER -> 31

Tomorrow(y, m, d) ==
  IF d < Length(y, m) THEN <<y, m, d + 1>>
  ELSE IF m < 12 THEN <<y, m + 1, 1>> ELSE <<y + 1, 1, 1>>

(* Days from 1970 to the first of a year, of which 477 had a leap day      *)
(* before 1970.                                                            *)
NewYear(y) == 365 * (y - 1970) + (y - 1) \div 4 - (y - 1) \div 100 + (y - 1) \div 400 - 477

DateInit == \E year \in Starts : day = NewYear(year) /\ date = <<year, 1, 1>> /\ left = MaxDays

NextDay ==
  /\ left > 0 /\ left' = left - 1 /\ day' = day + 1
  /\ date' = Tomorrow(date[1], date[2], date[3])

DateNext == NextDay
DateSpec == DateInit /\ [][DateNext]_dateVars
-----------------------------------------------------------------------------
(* Both directions agree with the calendar on every day, across leap days, *)
(* centuries, eras and before 1970: what is written is read back as the    *)
(* same moment, texts sort as the moments do, and a computer opened less   *)
(* than a day ago was never opened yesterday.                              *)
CalendarRight ==
  /\ CivilFromDays(day) = date
  /\ \A a, b \in Times :
       LET opened == FormatIso(<<day, a>>)
       IN  /\ ParseIso(opened) = << <<day, a>> >>
           /\ \A n \in {0, 1, 2, 30} :
                /\ Later(FormatIso(<<day + n, b>>), opened) <=> n > 0 \/ b > a
                /\ RelativeDate(opened, <<day + n, b>>) = <<"today">> <=> n = 0 \/ (n = 1 /\ b < a)
=============================================================================
