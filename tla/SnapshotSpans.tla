----------------------------- MODULE SnapshotSpans -----------------------------
(***************************************************************************)
(* The spans of time that DefaultSnapshotPolicy works with, in steps of    *)
(* no particular length.                                                   *)
(***************************************************************************)
EXTENDS Naturals

CONSTANTS
  EditIdle, MinimumInterval,  \* SNAPSHOT_EDIT_IDLE_MS, ..._INTERVAL_MS
  KeepAll, HourlyRetention, DailyRetention,
  Hour, Day, Month,           \* periods of the calendar
  Protection,                 \* how long the bounds of an operation are protected
  LastHour                    \* bound of the instances on the clock

\* Whole hours make a day, whole days a month.
ASSUME SpansAssumption ==
  /\ {EditIdle, MinimumInterval, KeepAll, HourlyRetention, DailyRetention,
      Protection, LastHour} \subseteq Nat
  /\ {Hour, Day, Month} \subseteq Nat \ {0}
  /\ Day % Hour = 0 /\ Month % Day = 0
=============================================================================
