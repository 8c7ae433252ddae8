--------------------------- MODULE ScheduleCursor ---------------------------
(***************************************************************************)
(* Where the cursor next_run_at of a managed plan goes.  Times are counted *)
(* in the unit of one scan.  The occurrences of a cron expression are      *)
(* abstracted to the multiples of the period.                              *)
(***************************************************************************)
EXTENDS Naturals

\* MUTANT of AdvanceNextRun: one occurrence too many is passed over.
AdvanceNextRun_SkipsOne(due, interval, now) ==
    IF due > now THEN due
    ELSE due + ((now - due) \div interval + 2) * interval

\* _advance_next_run: skip all intervals that have passed, in constant time.
AdvanceNextRun(due, interval, now) ==
    IF due > now THEN due
    ELSE due + ((now - due) \div interval + 1) * interval

\* The first multiple of the period after now: what croniter.get_next returns.
CronNext(period, now) == (now \div period + 1) * period

\* next_schedule_time
NextScheduleTime(cron, interval, now) ==
    IF cron THEN CronNext(interval, now) ELSE now + interval

\* _next_schedule_run
NextScheduleRun(cron, due, interval, now) ==
    IF cron THEN CronNext(interval, now) ELSE AdvanceNextRun(due, interval, now)

=============================================================================
