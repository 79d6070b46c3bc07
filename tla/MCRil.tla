--------------------------------- MODULE MCRil ---------------------------------
(* Instances of Ril for TLC. *)
EXTENDS Ril

Quiet == [phones |-> <<"p1", "p2">>, strangers |-> {}, early |-> FALSE, commands |-> 0, events |-> 0,
          wakes |-> {}, options |-> {}, faults |-> 0]
\* The phone process hangs up and comes back while an event and an answer are
\* written, and a write fails.
Failing == [Quiet EXCEPT !.commands = 1, !.events = 1, !.faults = 1]
\* Two commands, one answered by each thread.
Answering == [Quiet EXCEPT !.commands = 2]
\* Both threads take the wake lock and set timers.
Waking == [Quiet EXCEPT !.phones = <<"p1">>, !.events = 2, !.wakes = {"radio", "nitz", "network"}]
\* More timers than there is memory for.
Exhausting == [Quiet EXCEPT !.phones = <<>>, !.events = 4, !.wakes = {"nitz"}]
\* Everyone comes while the daemon starts.
Starting == [Quiet EXCEPT !.phones = <<"p1">>, !.strangers = {"s"}, !.early = TRUE, !.commands = 1,
             !.faults = 1]
\* The debug client.
Debugging == [Quiet EXCEPT !.commands = 1, !.options = {"off", "local", "on", "unsol"}]

MCScenarios == {Failing, Answering, Waking, Exhausting, Starting, Debugging}
================================================================================
