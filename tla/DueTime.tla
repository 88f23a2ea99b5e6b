------------------------------ MODULE DueTime ------------------------------
(***************************************************************************)
(* When an account is due: the instants the scheduler computes (#dueFor,   *)
(* #reschedule and #intervalMs of sync/scheduler.ts), in milliseconds.     *)
(* SyncScheduler knows an account as due or not due; the theorems about    *)
(* these operators, in SyncSchedulerProofs, say why that is enough: a      *)
(* round always puts the account into the future, never by more than the   *)
(* longest interval, and on its grid if it can.                            *)
(***************************************************************************)
EXTENDS Integers

MinSeconds == 60       \* MIN_INTERVAL_SECONDS
MaxSeconds == 86400    \* MAX_INTERVAL_SECONDS

Unset == -1   \* no entry in #dueAt, or last_synced_at is NULL

Smaller(a, b) == IF a <= b THEN a ELSE b
Larger(a, b) == IF a >= b THEN a ELSE b

(* #intervalMs: what the user configured, within its bounds, stretched by  *)
(* the cooldown multiplier, and no longer than the longest interval.       *)
Interval(seconds, multiplier) ==
    Smaller(1000 * Smaller(MaxSeconds, Larger(MinSeconds, seconds)) * multiplier,
            1000 * MaxSeconds)

(* #dueFor: the cached instant, else one interval after the last sync. *)
DueFor(cached, last, now, interval) ==
    IF cached # Unset THEN cached
    ELSE IF last # Unset THEN last + interval
    ELSE now

(* #reschedule with the anchor 'now'.  The interval is that of the row as   *)
(* it was read when the tick or the call began.                            *)
FromNow(now, interval) == now + interval

(* #reschedule with the anchor 'grid': from the instant it was due, unless *)
(* that is unknown (resetSchedule dropped it) or leads into the past.      *)
FromGrid(previous, now, interval) ==
    IF previous # Unset /\ previous + interval > now THEN previous + interval
    ELSE FromNow(now, interval)
=============================================================================
