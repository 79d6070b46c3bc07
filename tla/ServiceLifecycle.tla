-------------------------- MODULE ServiceLifecycle --------------------------
(***************************************************************************)
(* What init promises of each service, whatever the order of requests and  *)
(* exits: the modes a service can be in and the moves between them.  One   *)
(* step moves one service.                                                 *)
(*   down        never started, or a fork failed                           *)
(*   running     init runs a process for it                                *)
(*   restarting  the process exited and init will run it again             *)
(*   disabled    stopped, refused or one-shot and done                     *)
(***************************************************************************)
CONSTANTS Services, Oneshot, InitiallyDisabled

VARIABLE mode

Modes == {"down", "running", "restarting", "disabled"}

Init == mode = [s \in Services |-> IF s \in InitiallyDisabled THEN "disabled" ELSE "down"]

Move(s, from, to) == mode[s] \in from /\ mode' = [mode EXCEPT ![s] = to]

Run(s) == Move(s, Modes \ {"running"}, "running")
Refuse(s) == Move(s, Modes \ {"running"}, "disabled")
ForkFailed(s) == Move(s, Modes \ {"running"}, "down")
Stop(s) == Move(s, Modes, "disabled")

\* Only a running service that is not one-shot comes to wait for a restart.
Crash(s) == s \notin Oneshot /\ Move(s, {"running"}, "restarting")
Finish(s) == s \in Oneshot /\ Move(s, {"running"}, "disabled")

\* The exit of a critical service that reboots the device.
GiveUp(s) == s \notin Oneshot /\ Move(s, {"running"}, "down")

Next == \E s \in Services :
            \/ Run(s) \/ Refuse(s) \/ ForkFailed(s) \/ Stop(s)
            \/ Crash(s) \/ Finish(s) \/ GiveUp(s)

Spec == Init /\ [][Next]_mode
=============================================================================
