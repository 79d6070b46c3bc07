---------------------------- MODULE CrashCounter ----------------------------
(***************************************************************************)
(* The crash counter init keeps for a service flagged "critical"           *)
(* (wait_for_one_process in init.c).  The window is anchored: it opens at  *)
(* the first exit seen after the previous window closed, and time_crashed  *)
(* is the second it opened.  Both operators are used by the supervisor     *)
(* (module Supervisor) and by the study of the counter itself (module      *)
(* CriticalCrash).                                                         *)
(***************************************************************************)
EXTENDS Naturals

CONSTANTS
    CrashThreshold,   \* CRITICAL_CRASH_THRESHOLD, 4 in the code
    CrashWindow       \* CRITICAL_CRASH_WINDOW, 240 seconds in the code

ASSUME CrashAssumption ==
    /\ CrashThreshold \in Nat \ {0}
    /\ CrashWindow \in Nat

\* The exit at second t still belongs to the window opened at time_crashed.
InWindow(time_crashed, t) == time_crashed + CrashWindow >= t

\* "++svc->nr_crashed > CRITICAL_CRASH_THRESHOLD" inside the window.
EntersRecovery(time_crashed, nr_crashed, t) ==
    InWindow(time_crashed, t) /\ nr_crashed + 1 > CrashThreshold

\* The counter and the window after an exit that does not reboot.
WindowAfter(time_crashed, t) ==
    IF InWindow(time_crashed, t) THEN time_crashed ELSE t
CountAfter(time_crashed, nr_crashed, t) ==
    IF InWindow(time_crashed, t) THEN nr_crashed + 1 ELSE 1
=============================================================================
