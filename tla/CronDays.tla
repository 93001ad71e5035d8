------------------------------- MODULE CronDays -------------------------------
(***************************************************************************)
(* On which days of the week a schedule fires: route_cron, _build_trigger   *)
(* and _translate_dow of backend/app/core/scheduler.py, and parse_cron of   *)
(* backend/app/config_migrate.py.                                           *)
(*                                                                         *)
(* Cron counts the days from Sunday, 0 to 6, and 7 is Sunday again; the     *)
(* schedules of Joulenap and of APScheduler count from Monday, 0 to 6.  A   *)
(* day-of-week field is a set of tokens; minutes, hours, days of the month  *)
(* and months pass through unchanged and are left out.                      *)
(***************************************************************************)
EXTENDS Integers

Weekday == 0 .. 6
CronDay == 0 .. 7

\* A token "first-last/step"; "d" has first = last = d and step 1, "*" alone and "*/n" have
\* star.  A token by name ("mon") needs no translation and is not modelled.
Token == [star : BOOLEAN, first : 0 .. 8, last : 0 .. 8, step : 0 .. 3]
Plain(d) == [star |-> FALSE, first |-> d, last |-> d, step |-> 1]
Star == [star |-> TRUE, first |-> 0, last |-> 0, step |-> 1]

\* What cron makes of a field, the reference the translations are measured by: the days a
\* token counts off, Sunday by both its names.
CronMeans(field) ==
  {w \in Weekday : \E tok \in field, n \in 0 .. 7 :
     LET first == IF tok.star THEN 0 ELSE tok.first
         last  == IF tok.star THEN 7 ELSE tok.last
         day   == first + n * tok.step IN
     day <= last /\ w = IF day % 7 = 0 THEN 6 ELSE (day % 7) - 1}

-----------------------------------------------------------------------------
\* Mutant: the field is handed to APScheduler as it is.
CronNumberKept(d) == d % 7
\* _CRON_DOW_NAME, and _CRON_DOW_TO_INDEX: the day a cron number names.
DayOf(d) == (d + 6) % 7

FirstOf(tok) == IF tok.star THEN 0 ELSE tok.first
LastOf(tok) == IF tok.star THEN 7 ELSE tok.last

\* validate_cron: a token out of range, backwards or without a step raises ValueError.
TokenValid(tok) == FirstOf(tok) <= LastOf(tok) /\ LastOf(tok) <= 7 /\ tok.step >= 1
FieldValid(field) == field # {} /\ \A tok \in field : TokenValid(tok)

\* range(first, last + 1, step)
Counted(tok) == {d \in FirstOf(tok) .. LastOf(tok) : (d - FirstOf(tok)) % tok.step = 0}

\* _translate_dow
Translated(field) ==
  IF field = {Star} THEN Weekday ELSE {DayOf(d) : d \in UNION {Counted(tok) : tok \in field}}

\* A RouteSchedule: a pinned cron, or time with days.
Pinned(field) == [pinned |-> TRUE, field |-> field, days |-> Weekday]
OnDays(days) == [pinned |-> FALSE, field |-> {}, days |-> days]

\* Mutant: the day flags are numbered as they stand.
FlagNumber(i) == i
\* route_cron: day flag i under cron's number.
CronNumber(i) == (i + 1) % 7

RouteField(schedule) ==
  IF schedule.pinned THEN schedule.field
  ELSE IF schedule.days = Weekday THEN {Star}
  ELSE {Plain(CronNumber(i)) : i \in schedule.days}

\* The days an armed route fires on.
FireDays(schedule) == Translated(RouteField(schedule))

-----------------------------------------------------------------------------
\* Mutant: a list of days is read as it is written, Sunday first.
FlagsAsWritten(field) == {tok.first % 7 : tok \in field}
FlagsOf(field) == {DayOf(tok.first) : tok \in field}

\* parse_cron and _parse_dow: "*" and a list of plain days become day flags, anything richer
\* is pinned.
Toggles(field) ==
  \A tok \in field : ~tok.star /\ tok.first = tok.last /\ tok.step = 1 /\ tok.first <= 7
ParseCron(field) ==
  IF field = {Star} THEN OnDays(Weekday)
  ELSE IF field # {} /\ Toggles(field) THEN OnDays(FlagsOf(field))
  ELSE Pinned(field)
=============================================================================
