----------------------------- MODULE Supervisor -----------------------------
(***************************************************************************)
(* init as the supervisor of its services: service_start and service_stop, *)
(* the reaping of exited children, the restart timer, the SIGCHLD pipe and *)
(* the poll loop that ties them together (init.c), driven by the commands  *)
(* of builtins.c and by control messages.                                  *)
(*                                                                         *)
(* init is one thread.  Concurrent with it are the children it forked,     *)
(* which set themselves up and exit when they like, the SIGCHLD handler,   *)
(* the clock, and the clients that send requests.                          *)
(*                                                                         *)
(* Every property change runs the actions it triggers before the call that *)
(* changed it returns.  calls is therefore a stack: the calls init still   *)
(* has to make, innermost first; what a trigger adds goes in front.        *)
(***************************************************************************)
EXTENDS CrashCounter, Sequences

CONSTANTS
    Services, NoService,
    Pids, NoPid,
    Oneshot, Critical, Console, InitiallyDisabled,   \* options of a service
    HaveConsole,      \* have_console
    Missing,          \* services whose binary stat() may fail to find
    ForkMayFail,      \* fork() may fail even when a pid is free
    InitScript,       \* calls made by the actions of trigger "init"
    BootScript,       \* calls made by "early-boot" and "boot"
    OnRestart,        \* service -> calls of its onrestart commands
    Trigger,          \* service -> state -> calls of the action on init.svc.*
    BootTriggers,     \* prop -> calls of all the actions whose trigger it meets
    Requests,         \* call sequences a client can ask for
    RestartDelay,     \* 5 seconds in restart_service_if_needed
    MaxTime,          \* bound: the clock stops here
    ExitHorizon       \* bound: no process exits later than this

Calls == [op : {"start", "start_args", "start_enabled", "stop", "restarting"},
          svc : Services]
\* "restarting" is the rest of the handling of an exit, which nobody can ask for.
Commands == {c \in Calls : c.op # "restarting"}
States == {"none", "running", "stopping", "stopped", "restarting"}
Pcs == {"init", "boot", "triggers", "top", "scan", "poll", "reap", "recovery"}

ASSUME SupervisorAssumption ==
    /\ NoService \notin Services
    /\ NoPid \notin Pids
    /\ Oneshot \subseteq Services /\ Critical \subseteq Services
    /\ Console \subseteq Services /\ Missing \subseteq Services
    /\ InitiallyDisabled \subseteq Services
    /\ HaveConsole \in BOOLEAN /\ ForkMayFail \in BOOLEAN
    /\ InitScript \in Seq(Commands) /\ BootScript \in Seq(Commands)
    /\ \A s \in Services : OnRestart[s] \in Seq(Commands)
    /\ \A s \in Services, st \in States : Trigger[s][st] \in Seq(Commands)
    /\ \A state \in [Services -> States] : BootTriggers[state] \in Seq(Commands)
    /\ \A c \in Requests : c \in Seq(Commands)
    /\ RestartDelay \in Nat /\ MaxTime \in Nat /\ ExitHorizon \in Nat

VARIABLES
    svc,      \* struct service: flags, pid, times and crash counter
    prop,     \* the property init.svc.<name>
    proc,     \* the kernel's view of init's children
    calls,    \* the stack of calls init has still to make
    pc,       \* where the boot sequence or the main loop is
    scan,     \* services restart_processes has not visited yet
    process_needs_restart,
    sig,      \* a SIGCHLD is pending for init
    pipe,     \* signal_recv_fd is readable
    now       \* CLOCK_MONOTONIC, in seconds

vars == <<svc, prop, proc, calls, pc, scan, process_needs_restart, sig, pipe, now>>
kernel == <<sig, pipe, now>>
loop == <<pc, scan, process_needs_restart>>

Free == [st |-> "free", svc |-> NoService, grp |-> FALSE, term |-> "none"]

Init ==
    /\ svc = [s \in Services |->
                [disabled |-> s \in InitiallyDisabled, running |-> FALSE,
                 restarting |-> FALSE, pid |-> NoPid, time_started |-> 0,
                 time_crashed |-> 0, nr_crashed |-> 0]]
    /\ prop = [s \in Services |-> "none"]
    /\ proc = [p \in Pids |-> Free]
    /\ calls = InitScript
    /\ pc = "init"
    /\ scan = {}
    /\ process_needs_restart = 0
    /\ sig = FALSE /\ pipe = FALSE
    /\ now = 0

-----------------------------------------------------------------------------
(* The commands of builtins.c that reach services, as the calls they make. *)

do_start(s) == <<[op |-> "start", svc |-> s]>>
do_stop(s) == <<[op |-> "stop", svc |-> s]>>
do_restart(s) == do_stop(s) \o do_start(s)
do_class_start(members) ==
    [i \in DOMAIN members |-> [op |-> "start_enabled", svc |-> members[i]]]
do_class_stop(members) ==
    [i \in DOMAIN members |-> [op |-> "stop", svc |-> members[i]]]

-----------------------------------------------------------------------------
(* notify_service_state sets the property; once property triggers are      *)
(* enabled the action it triggers runs before the caller goes on.          *)

TriggersEnabled == pc \notin {"init", "boot", "triggers"}

notify_service_state(s, state, rest) ==
    /\ prop' = [prop EXCEPT ![s] = state]
    /\ calls' = (IF TriggersEnabled THEN Trigger[s][state] ELSE <<>>) \o rest

\* The flags and the start time service_start clears before anything else.
Cleared(s) == [svc[s] EXCEPT !.disabled = FALSE, !.restarting = FALSE,
                             !.time_started = 0]

FreePids == {p \in Pids : proc[p].st = "free"}

\* The starts that are refused: no console, or arguments to a service that is
\* not oneshot; and, whenever stat() does not find it, a missing binary.
Unstartable(s, args) == (s \in Console /\ ~HaveConsole) \/ (args /\ s \notin Oneshot)

StartIgnored(s, rest) ==
    /\ svc[s].running
    /\ svc' = [svc EXCEPT ![s] = Cleared(s)]
    /\ calls' = rest
    /\ UNCHANGED <<prop, proc>>

StartRefused(s, args, rest) ==
    /\ ~svc[s].running
    /\ Unstartable(s, args) \/ s \in Missing
    /\ svc' = [svc EXCEPT ![s] = [Cleared(s) EXCEPT !.disabled = TRUE]]
    /\ calls' = rest
    /\ UNCHANGED <<prop, proc>>

ForkFails(s, args, rest) ==
    /\ ~svc[s].running /\ ~Unstartable(s, args)
    /\ ForkMayFail \/ FreePids = {}
    /\ svc' = [svc EXCEPT ![s] = [Cleared(s) EXCEPT !.pid = NoPid]]
    /\ calls' = rest
    /\ UNCHANGED <<prop, proc>>

\* Mutant: a running service is started again.
Forked_NoRunningCheck(s, args, p, rest) ==
    /\ ~Unstartable(s, args)
    /\ proc' = [proc EXCEPT ![p] = [st |-> "live", svc |-> s,
                                    grp |-> FALSE, term |-> "none"]]
    /\ svc' = [svc EXCEPT ![s] = [Cleared(s) EXCEPT !.pid = p, !.running = TRUE,
                                                    !.time_started = now]]
    /\ notify_service_state(s, "running", rest)

Forked(s, args, p, rest) ==
    /\ ~svc[s].running /\ ~Unstartable(s, args)
    /\ proc' = [proc EXCEPT ![p] = [st |-> "live", svc |-> s,
                                    grp |-> FALSE, term |-> "none"]]
    /\ svc' = [svc EXCEPT ![s] = [Cleared(s) EXCEPT !.pid = p, !.running = TRUE,
                                                    !.time_started = now]]
    /\ notify_service_state(s, "running", rest)

service_start(s, args, rest) ==
    \/ StartIgnored(s, rest)
    \/ StartRefused(s, args, rest)
    \/ ForkFails(s, args, rest)
    \/ \E p \in FreePids : Forked(s, args, p, rest)

-----------------------------------------------------------------------------
(* service_stop.  SIGTERM goes to the process group the child makes for    *)
(* itself with setpgid; before it has, there is no such group to signal.   *)

Terminated(p) ==
    IF p = NoPid \/ proc[p].st # "live" THEN proc
    ELSE [proc EXCEPT ![p].term = IF proc[p].grp THEN "sent" ELSE "missed"]

\* Mutants: the stop leaves a flag set, or tells nobody.
service_stop_KeepsRestarting(s, rest) ==
    /\ svc' = [svc EXCEPT ![s].running = FALSE, ![s].disabled = TRUE]
    /\ proc' = Terminated(svc[s].pid)
    /\ notify_service_state(s, IF svc[s].pid = NoPid THEN "stopped" ELSE "stopping", rest)
service_stop_Silent(s, rest) ==
    /\ svc' = [svc EXCEPT ![s].running = FALSE, ![s].restarting = FALSE,
                          ![s].disabled = TRUE]
    /\ proc' = Terminated(svc[s].pid)
    /\ calls' = rest /\ UNCHANGED prop

service_stop(s, rest) ==
    /\ svc' = [svc EXCEPT ![s].running = FALSE, ![s].restarting = FALSE,
                          ![s].disabled = TRUE]
    /\ proc' = Terminated(svc[s].pid)
    /\ notify_service_state(s, IF svc[s].pid = NoPid THEN "stopped" ELSE "stopping", rest)

-----------------------------------------------------------------------------
(* The call on top of the stack.                                           *)

Top(op) == calls # <<>> /\ pc # "recovery" /\ Head(calls).op = op

CallStart ==
    /\ Top("start")
    /\ service_start(Head(calls).svc, FALSE, Tail(calls))
    /\ UNCHANGED <<loop, kernel>>

CallStartArgs ==
    /\ Top("start_args")
    /\ service_start(Head(calls).svc, TRUE, Tail(calls))
    /\ UNCHANGED <<loop, kernel>>

service_start_if_not_disabled ==
    /\ Top("start_enabled")
    /\ IF svc[Head(calls).svc].disabled
       THEN calls' = Tail(calls) /\ UNCHANGED <<svc, prop, proc>>
       ELSE service_start(Head(calls).svc, FALSE, Tail(calls))
    /\ UNCHANGED <<loop, kernel>>

CallStop ==
    /\ Top("stop")
    /\ service_stop(Head(calls).svc, Tail(calls))
    /\ UNCHANGED <<loop, kernel>>

\* The notification that closes the handling of an exit, after the onrestart
\* commands.
NotifyRestarting ==
    /\ Top("restarting")
    /\ notify_service_state(Head(calls).svc, "restarting", Tail(calls))
    /\ UNCHANGED <<svc, proc, loop, kernel>>

-----------------------------------------------------------------------------
(* The boot sequence of main() and its poll loop.                          *)

At(l) == pc = l /\ calls = <<>>

\* socketpair() comes after the actions of trigger "init" have run.
OpenSignalPipe ==
    /\ At("init")
    /\ pc' = "boot" /\ calls' = BootScript
    /\ UNCHANGED <<svc, prop, proc, scan, process_needs_restart, kernel>>

\* The state of the properties is matched once, before any triggered action
\* runs; what those actions change triggers nothing.
queue_all_property_triggers ==
    /\ At("boot")
    /\ pc' = "triggers" /\ calls' = BootTriggers[prop]
    /\ UNCHANGED <<svc, prop, proc, scan, process_needs_restart, kernel>>

EnableTriggers ==
    /\ At("triggers")
    /\ pc' = "top"
    /\ UNCHANGED <<svc, prop, proc, calls, scan, process_needs_restart, kernel>>

restart_processes ==
    /\ At("top")
    /\ pc' = "scan" /\ scan' = Services /\ process_needs_restart' = 0
    /\ UNCHANGED <<svc, prop, proc, calls, kernel>>

\* Mutant: no timeout is kept for a restart that is not due.
restart_service_if_needed_NoTimeout(s) ==
    /\ At("scan") /\ s \in scan /\ svc[s].restarting
    /\ scan' = scan \ {s}
    /\ IF svc[s].time_started + RestartDelay <= now
       THEN service_start(s, FALSE, <<>>)
       ELSE UNCHANGED <<svc, prop, proc, calls>>
    /\ UNCHANGED <<pc, process_needs_restart, kernel>>
\* Mutant: the latest restart time is kept, not the earliest.
restart_service_if_needed_Latest(s) ==
    LET next_start_time == svc[s].time_started + RestartDelay
    IN  /\ At("scan") /\ s \in scan /\ svc[s].restarting
        /\ scan' = scan \ {s}
        /\ IF next_start_time <= now
           THEN /\ service_start(s, FALSE, <<>>)
                /\ UNCHANGED process_needs_restart
           ELSE /\ process_needs_restart' =
                      IF next_start_time > process_needs_restart
                      THEN next_start_time ELSE process_needs_restart
                /\ UNCHANGED <<svc, prop, proc, calls>>
        /\ UNCHANGED <<pc, kernel>>

\* service_for_each_flags reads the flag when it comes to the service.
restart_service_if_needed(s) ==
    LET next_start_time == svc[s].time_started + RestartDelay
    IN  /\ At("scan") /\ s \in scan /\ svc[s].restarting
        /\ scan' = scan \ {s}
        /\ IF next_start_time <= now
           THEN /\ service_start(s, FALSE, <<>>)
                /\ UNCHANGED process_needs_restart
           ELSE /\ process_needs_restart' =
                      IF process_needs_restart = 0 \/ next_start_time < process_needs_restart
                      THEN next_start_time ELSE process_needs_restart
                /\ UNCHANGED <<svc, prop, proc, calls>>
        /\ UNCHANGED <<pc, kernel>>

ScanDone ==
    /\ At("scan") /\ \A s \in scan : ~svc[s].restarting
    /\ pc' = "poll" /\ scan' = {}
    /\ UNCHANGED <<svc, prop, proc, calls, process_needs_restart, kernel>>

\* poll() returns; SIGCHLD is served alone and first.
PollSignal ==
    /\ At("poll") /\ pipe
    /\ pipe' = FALSE /\ pc' = "reap"
    /\ UNCHANGED <<svc, prop, proc, calls, scan, process_needs_restart, sig, now>>

PollRequest(request) ==
    /\ At("poll") /\ ~pipe
    /\ pc' = "top" /\ calls' = request
    /\ UNCHANGED <<svc, prop, proc, scan, process_needs_restart, kernel>>

PollTimeout ==
    /\ At("poll") /\ ~pipe
    /\ process_needs_restart # 0 /\ process_needs_restart <= now
    /\ pc' = "top"
    /\ UNCHANGED <<svc, prop, proc, calls, scan, process_needs_restart, kernel>>

-----------------------------------------------------------------------------
(* wait_for_one_process.                                                   *)

\* The services service_find_by_pid can return.
service_find_by_pid(p) == {s \in Services : svc[s].pid = p}

\* Mutant: the pid of an exited process is kept.
Dead_KeepsPid(s) == [svc[s] EXCEPT !.running = FALSE,
                                   !.disabled = svc[s].disabled \/ s \in Oneshot]

Dead(s) == [svc[s] EXCEPT !.pid = NoPid, !.running = FALSE,
                          !.disabled = svc[s].disabled \/ s \in Oneshot]

ExitStopped(s) ==
    /\ Dead(s).disabled
    /\ svc' = [svc EXCEPT ![s] = Dead(s)]
    /\ notify_service_state(s, "stopped", <<>>)
    /\ UNCHANGED pc

ExitRecovery(s) ==
    /\ ~Dead(s).disabled /\ s \in Critical
    /\ EntersRecovery(svc[s].time_crashed, svc[s].nr_crashed, now)
    /\ svc' = [svc EXCEPT ![s] = [Dead(s) EXCEPT !.nr_crashed = @ + 1]]
    /\ pc' = "recovery"
    /\ UNCHANGED <<prop, calls>>

Counted(s) ==
    IF s \notin Critical THEN Dead(s)
    ELSE [Dead(s) EXCEPT
            !.time_crashed = WindowAfter(svc[s].time_crashed, now),
            !.nr_crashed = CountAfter(svc[s].time_crashed, svc[s].nr_crashed, now)]

\* Mutant: a stopped or one-shot service is restarted like any other.
ExitRestarting_Always(s) ==
    /\ s \in Critical => ~EntersRecovery(svc[s].time_crashed, svc[s].nr_crashed, now)
    /\ svc' = [svc EXCEPT ![s] = [Counted(s) EXCEPT !.restarting = TRUE]]
    /\ calls' = OnRestart[s] \o <<[op |-> "restarting", svc |-> s]>>
    /\ UNCHANGED <<prop, pc>>

ExitRestarting(s) ==
    /\ ~Dead(s).disabled
    /\ s \in Critical => ~EntersRecovery(svc[s].time_crashed, svc[s].nr_crashed, now)
    /\ svc' = [svc EXCEPT ![s] = [Counted(s) EXCEPT !.restarting = TRUE]]
    /\ calls' = OnRestart[s] \o <<[op |-> "restarting", svc |-> s]>>
    /\ UNCHANGED <<prop, pc>>

ExitUntracked(p) ==
    /\ service_find_by_pid(p) = {}
    /\ UNCHANGED <<svc, prop, calls, pc>>

wait_for_one_process(p) ==
    /\ At("reap") /\ proc[p].st = "zombie"
    /\ proc' = [proc EXCEPT ![p] = Free]
    /\ \/ ExitUntracked(p)
       \/ \E s \in service_find_by_pid(p) :
             ExitStopped(s) \/ ExitRecovery(s) \/ ExitRestarting(s)
    /\ UNCHANGED <<scan, process_needs_restart, kernel>>

\* Mutant: one child is reaped for each byte read from the pipe.
ReapDone_One ==
    /\ At("reap")
    /\ pc' = "top"
    /\ UNCHANGED <<svc, prop, proc, calls, scan, process_needs_restart, kernel>>

ReapDone ==
    /\ At("reap") /\ \A p \in Pids : proc[p].st # "zombie"
    /\ pc' = "top"
    /\ UNCHANGED <<svc, prop, proc, calls, scan, process_needs_restart, kernel>>

-----------------------------------------------------------------------------
(* The children, the signal handler and the clock.                         *)

ChildSetpgid(p) ==
    /\ proc[p].st = "live" /\ ~proc[p].grp
    /\ proc' = [proc EXCEPT ![p].grp = TRUE]
    /\ UNCHANGED <<svc, prop, calls, loop, kernel>>

ChildExit(p) ==
    /\ proc[p].st = "live" /\ now <= ExitHorizon
    /\ proc' = [proc EXCEPT ![p].st = "zombie"]
    /\ sig' = TRUE
    /\ UNCHANGED <<svc, prop, calls, loop, pipe, now>>

\* Mutant: the handler writes nothing.
sigchld_handler_Mute ==
    /\ sig
    /\ sig' = FALSE
    /\ UNCHANGED <<svc, prop, proc, calls, loop, pipe, now>>

\* Before the pipe is open signal_fd is -1 and the write fails.
sigchld_handler ==
    /\ sig
    /\ sig' = FALSE /\ pipe' = (pipe \/ pc # "init")
    /\ UNCHANGED <<svc, prop, proc, calls, loop, now>>

Tick ==
    /\ now < MaxTime
    /\ now' = now + 1
    /\ UNCHANGED <<svc, prop, proc, calls, loop, sig, pipe>>

\* The kernel is rebooting into recovery: init does nothing more.
Recovering == pc = "recovery" /\ UNCHANGED vars

CallNext == CallStart \/ CallStartArgs \/ service_start_if_not_disabled \/ CallStop
            \/ NotifyRestarting

LoopNext ==
    \/ OpenSignalPipe \/ queue_all_property_triggers \/ EnableTriggers
    \/ restart_processes \/ ScanDone
    \/ \E s \in Services : restart_service_if_needed(s)
    \/ PollSignal \/ PollTimeout \/ ReapDone
    \/ \E p \in Pids : wait_for_one_process(p)

InitNext == CallNext \/ LoopNext

ClientNext == \E c \in Requests : PollRequest(c)

KernelNext ==
    \/ \E p \in Pids : ChildSetpgid(p) \/ ChildExit(p)
    \/ sigchld_handler \/ Tick

Next == InitNext \/ ClientNext \/ KernelNext \/ Recovering

Spec == Init /\ [][Next]_vars

\* init is scheduled, a pending signal is delivered and time passes; nothing
\* is assumed of the children or of the clients.
FairSpec == Spec /\ WF_vars(InitNext) /\ WF_vars(sigchld_handler) /\ WF_vars(Tick)

-----------------------------------------------------------------------------
(* Refinement of the lifecycle init promises of each service.              *)

Mode(s) ==
    IF svc[s].running THEN "running"
    ELSE IF svc[s].restarting THEN "restarting"
    ELSE IF svc[s].disabled THEN "disabled" ELSE "down"

modes == [s \in Services |-> Mode(s)]

Lifecycle == INSTANCE ServiceLifecycle WITH mode <- modes

\* Every step of init moves at most one service, along the moves of
\* ServiceLifecycle: an exit restarts only what was running and is not
\* one-shot, and nothing stopped comes to wait for a restart.
RefinesLifecycle == Lifecycle!Spec

-----------------------------------------------------------------------------
(* Properties.                                                             *)

Service == [disabled : BOOLEAN, running : BOOLEAN, restarting : BOOLEAN,
            pid : Pids \cup {NoPid}, time_started : Nat, time_crashed : Nat,
            nr_crashed : Nat]
Process == [st : {"free", "live", "zombie"}, svc : Services \cup {NoService},
            grp : BOOLEAN, term : {"none", "missed", "sent"}]

\* The type of every variable.
TypeOK ==
    /\ svc \in [Services -> Service]
    /\ prop \in [Services -> States]
    /\ proc \in [Pids -> Process]
    /\ calls \in Seq(Calls)
    /\ pc \in Pcs
    /\ scan \in SUBSET Services
    /\ process_needs_restart \in Nat
    /\ sig \in BOOLEAN /\ pipe \in BOOLEAN
    /\ now \in Nat

\* A service is in one mode at a time: running ones are not disabled and not
\* waiting for a restart, waiting ones have no process and are not disabled
\* (the flag arithmetic spread over service_start, service_stop and the reaping).
FlagsCoherent ==
    \A s \in Services :
        /\ svc[s].running => svc[s].pid # NoPid /\ ~svc[s].disabled /\ ~svc[s].restarting
        /\ svc[s].restarting => svc[s].pid = NoPid /\ ~svc[s].disabled

\* The pid recorded for a service is a child of init that ran that service and
\* has not been reaped, so the signals service_stop and the reaping send to
\* -svc->pid never go to the group of another service.
PidIsOurs ==
    \A s \in Services :
        svc[s].pid # NoPid =>
            proc[svc[s].pid].st # "free" /\ proc[svc[s].pid].svc = s

\* A process of a service other than the one init runs for it now has been sent
\* a SIGTERM, or at least init tried: no instance is forgotten without a signal,
\* whatever stops, starts, failed forks and exits came before.
NoForgottenInstance ==
    \A p \in Pids :
        proc[p].st = "live" =>
            \/ proc[p].term # "none"
            \/ svc[proc[p].svc].running /\ svc[proc[p].svc].pid = p

\* The process init calls running has not been told to terminate.
RunningNotTerminated ==
    \A s \in Services : svc[s].running => proc[svc[s].pid].term = "none"

\* What init records of its services agrees with itself and with the kernel, after
\* any sequence of starts, stops, failed forks and exits.
Coherent == TypeOK /\ FlagsCoherent /\ PidIsOurs /\ RunningNotTerminated

\* No exit is lost once the signal pipe is open: while a child waits to be
\* reaped there is a signal pending, a byte in the pipe, or init is reaping.
\* (When the "init" actions start services a SIGCHLD can come before the pipe.)
NoLostChild ==
    InitScript = <<>> =>
        ((\E p \in Pids : proc[p].st = "zombie") => sig \/ pipe \/ pc \in {"reap", "recovery"})

\* When init goes to sleep in poll it has set a timeout that is not later than
\* the restart of any waiting service.
NoOversleep ==
    At("poll") =>
        \A s \in Services : svc[s].restarting =>
            /\ process_needs_restart # 0
            /\ process_needs_restart <= svc[s].time_started + RestartDelay

\* What init runs in the handling of an exit of s is in ran: the onrestart commands
\* of s, and what those trigger in turn.
RunsOnExit(s, ran) ==
    /\ \A i \in DOMAIN OnRestart[s] : OnRestart[s][i] \in ran
    /\ \A c \in ran, st \in States :
          \A i \in DOMAIN Trigger[c.svc][st] : Trigger[c.svc][st][i] \in ran

\* The services that the handling of their own exit does not start.
OthersOnExit ==
    {s \in Services :
        \E ran \in SUBSET Commands :
            RunsOnExit(s, ran) /\ \A c \in ran : c.svc = s => c.op = "stop"}

\* Between calls init.svc.<name> says "running" exactly for the services init
\* has running, unless their own exit started them: then "restarting" was said
\* last.  And it says "stopped" only for those that have no process.
StatusTruthful ==
    calls = <<>> /\ pc # "recovery" =>
        \A s \in Services :
            /\ s \in OthersOnExit => (prop[s] = "running" <=> svc[s].running)
            /\ prop[s] = "stopped" => svc[s].pid = NoPid

\* A stopped or disabled service leaves that state only by a start that names
\* it: neither its class, nor the restart timer, nor an exit brings it back.
StoppedStaysDown ==
    [][\A s \in Services :
         svc[s].disabled /\ ~svc'[s].disabled =>
            /\ calls # <<>>
            /\ Head(calls).op \in {"start", "start_args"} /\ Head(calls).svc = s]_vars

\* A service waiting for its restart does not wait for ever.
RestartHappens == \A s \in Services : svc[s].restarting ~> ~svc[s].restarting


\* Every exit of a child is handled in the end, or the device reboots.
ExitsHandled ==
    \A p \in Pids : proc[p].st = "zombie" ~> proc[p].st # "zombie" \/ pc = "recovery"
=============================================================================
