-------------------------- MODULE SupervisorProofs --------------------------
(***************************************************************************)
(* Proofs about Supervisor, for any services, options, scripts, triggers   *)
(* and requests.  Core is the inductive invariant: the types, the flags,   *)
(* and how the pids init records relate to the children the kernel holds.  *)
(* The later parts add what poll needs for its timeout, what becomes of a  *)
(* child that has ended, and what is still owed to the published status;   *)
(* then Supervisor is shown to implement ServiceLifecycle, and the last    *)
(* part is about CriticalCrash.                                            *)
(***************************************************************************)
EXTENDS Supervisor, CriticalCrash, SequenceTheorems, TLAPS

\* Every child that exists was forked for a service.
Owned == \A p \in Pids : proc[p].st # "free" => proc[p].svc \in Services

Core == /\ TypeOK /\ FlagsCoherent /\ PidIsOurs /\ Owned
        /\ NoForgottenInstance /\ RunningNotTerminated

\* What a call of init may change.
CallOk == /\ svc' \in [Services -> Service] /\ prop' \in [Services -> States]
          /\ proc' \in [Pids -> Process] /\ calls' \in Seq(Calls)
          /\ FlagsCoherent' /\ PidIsOurs' /\ Owned'
          /\ NoForgottenInstance' /\ RunningNotTerminated'

\* What scripts, triggers and clients call is a call.
LEMMA CommandsAreCalls == Seq(Commands) \subseteq Seq(Calls)
<1>1. Commands \subseteq Calls
  BY DEF Commands
<1>2. SUFFICES ASSUME NEW q \in Seq(Commands) PROVE q \in Seq(Calls)
  OBVIOUS
<1>3. Len(q) \in Nat /\ q \in [1 .. Len(q) -> Commands]
  OBVIOUS
<1>4. q \in [1 .. Len(q) -> Calls]
  BY <1>1, <1>3
<1>5. QED BY <1>3, <1>4

LEMMA InitCore == Init => Core
<1> SUFFICES ASSUME Init PROVE Core
  OBVIOUS
<1> USE SupervisorAssumption
<1>1. \A s \in Services : svc[s] \in Service /\ svc[s].pid = NoPid
                          /\ ~svc[s].running /\ ~svc[s].restarting
  BY DEF Init, Service
<1>2. svc \in [Services -> Service]
  BY <1>1 DEF Init
<1>3. \A p \in Pids : proc[p] \in Process /\ proc[p].st = "free"
  BY DEF Init, Free, Process
<1>4. proc \in [Pids -> Process]
  BY <1>3 DEF Init
<1>5. TypeOK
  BY <1>2, <1>4, CommandsAreCalls DEF Init, TypeOK, States, Pcs
<1>6. QED BY <1>1, <1>3, <1>5
          DEF Core, FlagsCoherent, PidIsOurs, Owned, NoForgottenInstance, RunningNotTerminated

\* Setting a property keeps the types; what it triggers joins the calls.
LEMMA NotifyType ==
    ASSUME TypeOK, NEW s \in Services, NEW state \in States, NEW rest \in Seq(Calls),
           notify_service_state(s, state, rest)
    PROVE  prop' \in [Services -> States] /\ calls' \in Seq(Calls)
<1> DEFINE added == IF TriggersEnabled THEN Trigger[s][state] ELSE <<>>
<1>1. added \in Seq(Calls)
  BY SupervisorAssumption, CommandsAreCalls
<1>2. calls' = added \o rest
  BY DEF notify_service_state
<1> HIDE DEF added
<1>3. calls' \in Seq(Calls)
  BY <1>1, <1>2
<1>4. prop' \in [Services -> States]
  BY DEF notify_service_state, TypeOK
<1>5. QED BY <1>3, <1>4

LEMMA ClearedType ==
    ASSUME TypeOK, NEW s \in Services
    PROVE  /\ Cleared(s) \in Service
           /\ Cleared(s).pid = svc[s].pid /\ Cleared(s).running = svc[s].running
           /\ ~Cleared(s).disabled /\ ~Cleared(s).restarting
  BY DEF TypeOK, Cleared, Service

\* A start that leaves the children alone: the service keeps its pid and mode,
\* or loses the pid of a process it had stopped.
LEMMA StartIgnoredOk ==
    ASSUME Core, NEW s \in Services, NEW rest \in Seq(Calls), StartIgnored(s, rest)
    PROVE  CallOk
<1>1. /\ svc' \in [Services -> Service] /\ svc'[s] = Cleared(s)
      /\ \A t \in Services : t # s => svc'[t] = svc[t]
  BY ClearedType DEF Core, TypeOK, StartIgnored
<1>2. /\ svc'[s].pid = svc[s].pid /\ svc'[s].running /\ svc[s].running
      /\ ~svc'[s].disabled /\ ~svc'[s].restarting
  BY <1>1, ClearedType DEF Core, StartIgnored
<1>3. prop' = prop /\ proc' = proc /\ calls' = rest
  BY DEF StartIgnored
<1>4. FlagsCoherent'
  BY <1>1, <1>2 DEF Core, FlagsCoherent
<1>5. PidIsOurs' /\ Owned' /\ RunningNotTerminated'
  BY <1>1, <1>2, <1>3 DEF Core, PidIsOurs, Owned, RunningNotTerminated
<1>6. NoForgottenInstance'
  BY <1>1, <1>2, <1>3 DEF Core, NoForgottenInstance, Owned
<1>7. QED BY <1>1, <1>3, <1>4, <1>5, <1>6 DEF Core, TypeOK, CallOk

LEMMA StartRefusedOk ==
    ASSUME Core, NEW s \in Services, NEW args, NEW rest \in Seq(Calls),
           StartRefused(s, args, rest)
    PROVE  CallOk
<1>1. [Cleared(s) EXCEPT !.disabled = TRUE] \in Service
  BY ClearedType DEF Core, Service
<1>2. /\ svc' \in [Services -> Service]
      /\ svc'[s] = [Cleared(s) EXCEPT !.disabled = TRUE]
      /\ \A t \in Services : t # s => svc'[t] = svc[t]
  BY <1>1 DEF Core, TypeOK, StartRefused
<1>3. /\ svc'[s].pid = svc[s].pid /\ ~svc'[s].running /\ ~svc[s].running
      /\ ~svc'[s].restarting
  BY <1>2, ClearedType DEF Core, StartRefused, Service
<1>4. prop' = prop /\ proc' = proc /\ calls' = rest
  BY DEF StartRefused
<1>5. FlagsCoherent'
  BY <1>2, <1>3 DEF Core, FlagsCoherent
<1>6. PidIsOurs' /\ Owned' /\ RunningNotTerminated'
  <2>1. PidIsOurs' /\ Owned'
    BY <1>2, <1>3, <1>4 DEF Core, PidIsOurs, Owned
  <2>2. RunningNotTerminated'
    BY <1>2, <1>3, <1>4 DEF Core, RunningNotTerminated
  <2>3. QED BY <2>1, <2>2
<1>7. NoForgottenInstance'
  BY <1>2, <1>3, <1>4 DEF Core, NoForgottenInstance, Owned
<1>8. QED BY <1>2, <1>4, <1>5, <1>6, <1>7 DEF Core, TypeOK, CallOk

LEMMA ForkFailsOk ==
    ASSUME Core, NEW s \in Services, NEW args, NEW rest \in Seq(Calls),
           ForkFails(s, args, rest)
    PROVE  CallOk
<1>1. [Cleared(s) EXCEPT !.pid = NoPid] \in Service
  BY ClearedType DEF Core, Service
<1>2. /\ svc' \in [Services -> Service]
      /\ svc'[s] = [Cleared(s) EXCEPT !.pid = NoPid]
      /\ \A t \in Services : t # s => svc'[t] = svc[t]
  BY <1>1 DEF Core, TypeOK, ForkFails
<1>3. /\ svc'[s].pid = NoPid /\ ~svc'[s].running /\ ~svc[s].running
      /\ ~svc'[s].restarting
  BY <1>2, ClearedType DEF Core, ForkFails, Service
<1>4. prop' = prop /\ proc' = proc /\ calls' = rest
  BY DEF ForkFails
<1>5. FlagsCoherent'
  BY <1>2, <1>3 DEF Core, FlagsCoherent
<1>6. PidIsOurs' /\ Owned' /\ RunningNotTerminated'
  <2>1. PidIsOurs' /\ Owned'
    BY <1>2, <1>3, <1>4 DEF Core, PidIsOurs, Owned
  <2>2. RunningNotTerminated'
    BY <1>2, <1>3, <1>4 DEF Core, RunningNotTerminated
  <2>3. QED BY <2>1, <2>2
<1>7. NoForgottenInstance'
  BY <1>2, <1>3, <1>4 DEF Core, NoForgottenInstance, Owned
<1>8. QED BY <1>2, <1>4, <1>5, <1>6, <1>7 DEF Core, TypeOK, CallOk

\* The new child has a pid no service records; the process the service had
\* before, if it still lives, was signalled by the stop that made it not run.
LEMMA ForkedOk ==
    ASSUME Core, NEW s \in Services, NEW args, NEW rest \in Seq(Calls),
           NEW p \in FreePids, Forked(s, args, p, rest)
    PROVE  CallOk
<1> DEFINE child == [st |-> "live", svc |-> s, grp |-> FALSE, term |-> "none"]
           started == [Cleared(s) EXCEPT !.pid = p, !.running = TRUE, !.time_started = now]
<1>1. p \in Pids /\ proc[p].st = "free" /\ p # NoPid
  BY SupervisorAssumption DEF FreePids
<1>2. child \in Process /\ started \in Service
  BY <1>1, ClearedType DEF Core, TypeOK, Service, Process
<1>3. /\ proc' \in [Pids -> Process] /\ proc'[p] = child
      /\ \A q \in Pids : q # p => proc'[q] = proc[q]
  BY <1>1, <1>2 DEF Core, TypeOK, Forked
<1>4. /\ svc' \in [Services -> Service] /\ svc'[s] = started
      /\ \A t \in Services : t # s => svc'[t] = svc[t]
  BY <1>1, <1>2 DEF Core, TypeOK, Forked
<1>5. /\ started.pid = p /\ started.running /\ ~started.disabled /\ ~started.restarting
      /\ ~svc[s].running
  BY ClearedType DEF Core, Service, Forked
<1>6. prop' \in [Services -> States] /\ calls' \in Seq(Calls)
  BY NotifyType DEF Core, Forked, States
<1> HIDE DEF started
<1>7. FlagsCoherent'
  BY <1>1, <1>4, <1>5 DEF Core, FlagsCoherent
<1>8. \A t \in Services : svc[t].pid # NoPid => svc[t].pid \in Pids /\ svc[t].pid # p
  BY <1>1 DEF Core, TypeOK, Service, PidIsOurs
<1>9. PidIsOurs' /\ Owned' /\ RunningNotTerminated'
  BY <1>1, <1>3, <1>4, <1>5, <1>8
     DEF Core, PidIsOurs, Owned, RunningNotTerminated, FlagsCoherent
<1>10. NoForgottenInstance'
  BY <1>1, <1>3, <1>4, <1>5 DEF Core, NoForgottenInstance, Owned
<1>11. QED BY <1>3, <1>4, <1>6, <1>7, <1>9, <1>10 DEF CallOk

LEMMA StartOk ==
    ASSUME Core, NEW s \in Services, NEW args, NEW rest \in Seq(Calls),
           service_start(s, args, rest)
    PROVE  CallOk
  BY StartIgnoredOk, StartRefusedOk, ForkFailsOk, ForkedOk DEF service_start

\* The process a stop leaves behind has been signalled, and it is the process of
\* no other service.
LEMMA StopOk ==
    ASSUME Core, NEW s \in Services, NEW rest \in Seq(Calls), service_stop(s, rest)
    PROVE  CallOk
<1> DEFINE p == svc[s].pid
           stopped == [svc[s] EXCEPT !.running = FALSE, !.restarting = FALSE,
                                     !.disabled = TRUE]
<1>1. /\ svc[s] \in Service /\ p \in Pids \cup {NoPid}
      /\ p # NoPid => proc[p].st # "free" /\ proc[p].svc = s
  BY DEF Core, TypeOK, Service, PidIsOurs
<1>2. /\ stopped \in Service /\ stopped.pid = p /\ ~stopped.running /\ ~stopped.restarting
  BY <1>1 DEF Service
<1>3. /\ svc' \in [Services -> Service] /\ svc'[s] = stopped
      /\ \A t \in Services : t # s => svc'[t] = svc[t]
  BY <1>2 DEF Core, TypeOK, service_stop
<1>4. prop' \in [Services -> States] /\ calls' \in Seq(Calls)
  BY NotifyType DEF Core, service_stop, States
<1> HIDE DEF stopped
<1>5. /\ proc' \in [Pids -> Process]
      /\ \A q \in Pids : /\ proc'[q].st = proc[q].st /\ proc'[q].svc = proc[q].svc
                         /\ q # p => proc'[q] = proc[q]
                         /\ q = p /\ proc[q].st = "live" => proc'[q].term # "none"
                         /\ proc[q].term # "none" => proc'[q].term # "none"
  <2>1. CASE p = NoPid \/ proc[p].st # "live"
    BY <2>1, SupervisorAssumption DEF Core, TypeOK, service_stop, Terminated
  <2>2. CASE p # NoPid /\ proc[p].st = "live"
    <3>1. p \in Pids /\ proc[p] \in Process
      BY <1>1, <2>2 DEF Core, TypeOK
    <3> DEFINE how == IF proc[p].grp THEN "sent" ELSE "missed"
               told == [proc[p] EXCEPT !.term = how]
    <3>2. told \in Process /\ told.st = proc[p].st /\ told.svc = proc[p].svc
          /\ told.term # "none"
      BY <3>1 DEF Process
    <3>3. proc' = [proc EXCEPT ![p] = told]
      BY <2>2 DEF service_stop, Terminated
    <3> HIDE DEF told
    <3>4. proc' \in [Pids -> Process] /\ proc'[p] = told
          /\ \A q \in Pids : q # p => proc'[q] = proc[q]
      BY <3>1, <3>2, <3>3 DEF Core, TypeOK
    <3>5. QED BY <3>1, <3>2, <3>4
  <2>3. QED BY <2>1, <2>2
<1>6. FlagsCoherent'
  BY <1>2, <1>3 DEF Core, FlagsCoherent
<1>7. PidIsOurs' /\ Owned'
  <2>1. \A t \in Services : svc'[t].pid = svc[t].pid
    BY <1>2, <1>3
  <2>2. \A t \in Services : svc[t].pid # NoPid => svc[t].pid \in Pids
    BY DEF Core, TypeOK, Service
  <2>3. \A q \in Pids : proc'[q].st = proc[q].st /\ proc'[q].svc = proc[q].svc
    BY <1>5
  <2>4. QED BY <2>1, <2>2, <2>3 DEF Core, PidIsOurs, Owned
<1>8. RunningNotTerminated'
  <2>1. SUFFICES ASSUME NEW t \in Services, svc'[t].running
                 PROVE  proc'[svc'[t].pid].term = "none"
    BY DEF RunningNotTerminated
  <2>2. t # s /\ svc'[t] = svc[t] /\ svc[t].running
    BY <1>2, <1>3, <2>1
  <2>3. svc[t].pid \in Pids /\ svc[t].pid # NoPid /\ proc[svc[t].pid].svc = t
        /\ proc[svc[t].pid].term = "none"
    BY <2>2 DEF Core, FlagsCoherent, PidIsOurs, TypeOK, Service, RunningNotTerminated
  <2>4. svc[t].pid # p
    BY <1>1, <2>2, <2>3
  <2>5. QED BY <1>5, <2>2, <2>3, <2>4
<1>9. NoForgottenInstance'
  <2>1. SUFFICES ASSUME NEW q \in Pids, proc'[q].st = "live", proc'[q].term = "none"
                 PROVE  svc'[proc'[q].svc].running /\ svc'[proc'[q].svc].pid = q
    BY DEF NoForgottenInstance
  <2>2. proc[q].st = "live" /\ proc'[q].svc = proc[q].svc /\ q # p /\ proc[q].term = "none"
    BY <1>5, <2>1
  <2>3. /\ proc[q].svc \in Services
        /\ svc[proc[q].svc].running /\ svc[proc[q].svc].pid = q
    BY <2>2 DEF Core, NoForgottenInstance, Owned
  <2>4. proc[q].svc # s
    BY <2>2, <2>3
  <2>5. QED BY <1>3, <2>2, <2>3, <2>4
<1>10. QED BY <1>3, <1>4, <1>5, <1>6, <1>7, <1>8, <1>9 DEF CallOk
-----------------------------------------------------------------------------
(* The exit of a tracked child: its service, and only that one, records no *)
(* process and is not running.                                             *)

LEMMA ExitShape ==
    ASSUME Core, NEW p \in Pids, NEW s \in service_find_by_pid(p),
           ExitStopped(s) \/ ExitRecovery(s) \/ ExitRestarting(s)
    PROVE  /\ s \in Services /\ svc' \in [Services -> Service]
           /\ svc'[s].pid = NoPid /\ ~svc'[s].running
           /\ svc'[s].restarting => ~svc'[s].disabled
           /\ \A t \in Services : t # s => svc'[t] = svc[t]
           /\ prop' \in [Services -> States] /\ calls' \in Seq(Calls)
           /\ pc' \in {pc, "recovery"}
<1> USE SupervisorAssumption
<1>1. s \in Services /\ svc[s] \in Service /\ svc[s].pid = p /\ p # NoPid
  BY DEF Core, TypeOK, service_find_by_pid
<1>2. svc[s].restarting = FALSE
  BY <1>1 DEF Core, FlagsCoherent, Service
<1>3. /\ Dead(s) \in Service /\ Dead(s).pid = NoPid /\ ~Dead(s).running
      /\ ~Dead(s).restarting
  BY <1>1, <1>2 DEF Dead, Service
<1>4. CASE ExitStopped(s)
  <2>1. prop' \in [Services -> States] /\ calls' \in Seq(Calls)
    <3>1. <<>> \in Seq(Calls) /\ "stopped" \in States
      BY DEF States
    <3>2. QED BY <1>1, <1>4, <3>1, NotifyType DEF Core, ExitStopped
  <2>2. svc' = [svc EXCEPT ![s] = Dead(s)] /\ pc' = pc
    BY <1>4 DEF ExitStopped
  <2>3. QED BY <1>1, <1>3, <2>1, <2>2 DEF Core, TypeOK
<1>5. CASE ExitRecovery(s)
  <2> DEFINE d == [Dead(s) EXCEPT !.nr_crashed = Dead(s).nr_crashed + 1]
  <2>1. d \in Service /\ d.pid = NoPid /\ ~d.running /\ ~d.restarting
    BY <1>3 DEF Service
  <2>2. svc' = [svc EXCEPT ![s] = d] /\ pc' = "recovery" /\ prop' = prop /\ calls' = calls
    BY <1>5 DEF ExitRecovery
  <2> HIDE DEF d
  <2>3. QED BY <1>1, <2>1, <2>2 DEF Core, TypeOK
<1>6. CASE ExitRestarting(s)
  <2> DEFINE d == [Counted(s) EXCEPT !.restarting = TRUE]
  <2>1. /\ WindowAfter(svc[s].time_crashed, now) \in Nat
        /\ CountAfter(svc[s].time_crashed, svc[s].nr_crashed, now) \in Nat
    BY <1>1 DEF Core, TypeOK, Service, WindowAfter, CountAfter
  <2>2. /\ Counted(s) \in Service /\ Counted(s).pid = NoPid /\ ~Counted(s).running
        /\ Counted(s).disabled = Dead(s).disabled
    BY <1>3, <2>1 DEF Counted, Service
  <2>3. d \in Service /\ d.pid = NoPid /\ ~d.running /\ ~d.disabled
    BY <1>6, <2>2 DEF Service, ExitRestarting
  <2>4. /\ svc' = [svc EXCEPT ![s] = d] /\ prop' = prop /\ pc' = pc
        /\ calls' = OnRestart[s] \o <<[op |-> "restarting", svc |-> s]>>
    BY <1>6 DEF ExitRestarting
  <2>5. [op |-> "restarting", svc |-> s] \in Calls
    BY <1>1 DEF Calls
  <2>6. calls' \in Seq(Calls)
    BY <1>1, <2>4, <2>5, CommandsAreCalls
  <2> HIDE DEF d
  <2>7. QED BY <1>1, <2>3, <2>4, <2>6 DEF Core, TypeOK
<1>7. QED BY <1>4, <1>5, <1>6

LEMMA ReapOk ==
    ASSUME Core, NEW p \in Pids, wait_for_one_process(p)
    PROVE  CallOk /\ pc' \in Pcs
<1>1. /\ proc[p].st = "zombie" /\ Free \in Process /\ Free.st = "free"
      /\ proc' \in [Pids -> Process] /\ proc'[p] = Free
      /\ \A q \in Pids : q # p => proc'[q] = proc[q]
  BY DEF Core, TypeOK, wait_for_one_process, Free, Process
<1>2. CASE ExitUntracked(p)
  <2>1. svc' = svc /\ prop' = prop /\ calls' = calls /\ pc' = pc
        /\ \A t \in Services : svc[t].pid # p
    BY <1>2 DEF ExitUntracked, service_find_by_pid
  <2>2. \A t \in Services : svc[t].pid # NoPid => svc[t].pid \in Pids
    BY DEF Core, TypeOK, Service
  <2>3. FlagsCoherent' /\ PidIsOurs' /\ Owned'
    BY <1>1, <2>1, <2>2 DEF Core, FlagsCoherent, PidIsOurs, Owned
  <2>4. RunningNotTerminated'
    BY <1>1, <2>1, <2>2 DEF Core, RunningNotTerminated, FlagsCoherent
  <2>5. NoForgottenInstance'
    BY <1>1, <2>1 DEF Core, NoForgottenInstance
  <2>6. QED BY <1>1, <2>1, <2>3, <2>4, <2>5 DEF Core, TypeOK, CallOk
<1>3. CASE \E s \in service_find_by_pid(p) :
              ExitStopped(s) \/ ExitRecovery(s) \/ ExitRestarting(s)
  <2>1. PICK s \in service_find_by_pid(p) :
              ExitStopped(s) \/ ExitRecovery(s) \/ ExitRestarting(s)
    BY <1>3
  <2>2. /\ s \in Services /\ svc' \in [Services -> Service]
        /\ svc'[s].pid = NoPid /\ ~svc'[s].running
        /\ svc'[s].restarting => ~svc'[s].disabled
        /\ \A t \in Services : t # s => svc'[t] = svc[t]
        /\ prop' \in [Services -> States] /\ calls' \in Seq(Calls)
        /\ pc' \in {pc, "recovery"}
    BY <2>1, ExitShape
  <2>3. svc[s].pid = p /\ proc[p].svc = s
    BY <1>1, <2>1, SupervisorAssumption DEF service_find_by_pid, Core, PidIsOurs
  <2>4. \A t \in Services : t # s /\ svc[t].pid # NoPid =>
                               svc[t].pid \in Pids /\ svc[t].pid # p
    BY <2>3 DEF Core, TypeOK, Service, PidIsOurs
  <2>5. FlagsCoherent'
    BY <2>2 DEF Core, FlagsCoherent
  <2>6. \A t \in Services :
           svc'[t].pid # NoPid =>
              /\ t # s /\ svc'[t] = svc[t] /\ svc[t].pid \in Pids
              /\ proc'[svc[t].pid] = proc[svc[t].pid]
    BY <1>1, <2>2, <2>4
  <2>7. PidIsOurs' /\ Owned' /\ RunningNotTerminated'
    <3>1. PidIsOurs'
      BY <2>6 DEF Core, PidIsOurs
    <3>2. Owned'
      BY <1>1 DEF Core, Owned
    <3>3. \A t \in Services : svc'[t].running => svc'[t].pid # NoPid
      BY <2>5 DEF FlagsCoherent
    <3>4. RunningNotTerminated'
      BY <2>6, <3>3 DEF Core, RunningNotTerminated
    <3>5. QED BY <3>1, <3>2, <3>4
  <2>8. NoForgottenInstance'
    <3>1. SUFFICES ASSUME NEW q \in Pids, proc'[q].st = "live", proc'[q].term = "none"
                   PROVE  svc'[proc'[q].svc].running /\ svc'[proc'[q].svc].pid = q
      BY DEF NoForgottenInstance
    <3>2. q # p /\ proc'[q] = proc[q]
      BY <1>1, <3>1
    <3>3. proc[q].svc \in Services /\ svc[proc[q].svc].running /\ svc[proc[q].svc].pid = q
      BY <3>1, <3>2 DEF Core, NoForgottenInstance, Owned
    <3>4. proc[q].svc # s
      BY <2>3, <3>2, <3>3
    <3>5. QED BY <2>2, <3>2, <3>3, <3>4
  <2>9. pc' \in Pcs
    BY <2>2 DEF Core, TypeOK, Pcs
  <2>10. QED BY <1>1, <2>2, <2>5, <2>7, <2>8, <2>9 DEF CallOk
<1>4. QED BY <1>2, <1>3 DEF wait_for_one_process

-----------------------------------------------------------------------------
(* The step that preserves Core, action by action.                         *)

LEMMA TopType ==
    ASSUME Core, NEW op, Top(op)
    PROVE  /\ calls # <<>> /\ Head(calls) \in Calls /\ Head(calls).svc \in Services
           /\ Head(calls).op = op /\ Tail(calls) \in Seq(Calls)
<1>1. calls # <<>> /\ calls \in Seq(Calls) /\ Head(calls).op = op
  BY DEF Core, TypeOK, Top
<1>2. Head(calls) \in Calls /\ Tail(calls) \in Seq(Calls)
  BY <1>1
<1>3. QED BY <1>1, <1>2 DEF Calls

LEMMA CallCore ==
    ASSUME Core, CallNext
    PROVE  CallOk
<1> DEFINE s == Head(calls).svc
           rest == Tail(calls)
<1>1. CASE CallStart
  BY <1>1, TopType, StartOk DEF CallStart
<1>2. CASE CallStartArgs
  BY <1>2, TopType, StartOk DEF CallStartArgs
<1>3. CASE service_start_if_not_disabled
  <2>1. s \in Services /\ rest \in Seq(Calls)
    BY <1>3, TopType DEF service_start_if_not_disabled
  <2>2. CASE service_start(s, FALSE, rest)
    BY <2>1, <2>2, StartOk
  <2>3. CASE calls' = rest /\ UNCHANGED <<svc, prop, proc>>
    <3>1. FlagsCoherent' /\ PidIsOurs' /\ Owned' /\ NoForgottenInstance' /\ RunningNotTerminated'
      BY <2>3 DEF Core, FlagsCoherent, PidIsOurs, Owned, NoForgottenInstance,
                  RunningNotTerminated
    <3>2. QED BY <2>1, <2>3, <3>1 DEF Core, TypeOK, CallOk
  <2>4. QED BY <1>3, <2>2, <2>3 DEF service_start_if_not_disabled
<1>4. CASE CallStop
  BY <1>4, TopType, StopOk DEF CallStop
<1>5. CASE NotifyRestarting
  <2>1. s \in Services /\ rest \in Seq(Calls) /\ "restarting" \in States
    BY <1>5, TopType DEF NotifyRestarting, States
  <2>2. prop' \in [Services -> States] /\ calls' \in Seq(Calls)
    BY <1>5, <2>1, NotifyType DEF Core, NotifyRestarting
  <2>3. FlagsCoherent' /\ PidIsOurs' /\ Owned' /\ NoForgottenInstance' /\ RunningNotTerminated'
    BY <1>5 DEF NotifyRestarting, Core, FlagsCoherent, PidIsOurs, Owned,
                NoForgottenInstance, RunningNotTerminated
  <2>4. QED BY <1>5, <2>2, <2>3 DEF NotifyRestarting, Core, TypeOK, CallOk
<1>6. QED BY <1>1, <1>2, <1>3, <1>4, <1>5 DEF CallNext

\* A step that leaves services and children alone keeps Core if it keeps types.
LEMMA QuietCore ==
    ASSUME Core, UNCHANGED <<svc, proc>>, TypeOK'
    PROVE  Core'
  BY DEF Core, FlagsCoherent, PidIsOurs, Owned, NoForgottenInstance, RunningNotTerminated

LEMMA LoopTypes ==
    ASSUME Core, CallOk, pc' \in Pcs, scan' \in SUBSET Services,
           process_needs_restart' \in Nat, sig' \in BOOLEAN, pipe' \in BOOLEAN, now' \in Nat
    PROVE  Core'
  BY DEF Core, CallOk, TypeOK

LEMMA NextCore == Core /\ [Next]_vars => Core'
<1> SUFFICES ASSUME Core, [Next]_vars PROVE Core'
  OBVIOUS
<1> USE SupervisorAssumption
<1>1. /\ pc \in Pcs /\ scan \in SUBSET Services /\ process_needs_restart \in Nat
      /\ sig \in BOOLEAN /\ pipe \in BOOLEAN /\ now \in Nat
      /\ svc \in [Services -> Service] /\ proc \in [Pids -> Process]
      /\ prop \in [Services -> States] /\ calls \in Seq(Calls)
  BY DEF Core, TypeOK
<1>2. CASE CallNext
  <2>1. UNCHANGED <<loop, kernel>>
    BY <1>2 DEF CallNext, CallStart, CallStartArgs, service_start_if_not_disabled, CallStop,
                NotifyRestarting
  <2>2. QED BY <1>1, <1>2, <2>1, CallCore, LoopTypes DEF loop, kernel
<1>3. CASE OpenSignalPipe \/ queue_all_property_triggers
  <2>1. BootTriggers[prop] \in Seq(Calls)
    BY <1>1, CommandsAreCalls
  <2>2. UNCHANGED <<svc, prop, proc, scan, process_needs_restart, kernel>>
        /\ pc' \in Pcs /\ calls' \in Seq(Calls)
    BY <1>3, <2>1, CommandsAreCalls DEF OpenSignalPipe, queue_all_property_triggers, Pcs
  <2>3. QED BY <1>1, <2>2, QuietCore DEF TypeOK, kernel
<1>4. CASE EnableTriggers \/ ScanDone \/ PollTimeout \/ ReapDone
  <2>1. UNCHANGED <<svc, prop, proc, calls, process_needs_restart, kernel>>
        /\ pc' \in Pcs /\ scan' \in SUBSET Services
    BY <1>1, <1>4 DEF EnableTriggers, ScanDone, PollTimeout, ReapDone, Pcs
  <2>2. QED BY <1>1, <2>1, QuietCore DEF TypeOK, kernel
<1>5. CASE restart_processes
  BY <1>1, <1>5, QuietCore DEF restart_processes, kernel, TypeOK, Pcs
<1>6. CASE \E s \in Services : restart_service_if_needed(s)
  <2>1. PICK s \in Services : restart_service_if_needed(s)
    BY <1>6
  <2> DEFINE next == svc[s].time_started + RestartDelay
  <2>2. /\ next \in Nat /\ scan' \in SUBSET Services /\ UNCHANGED <<pc, kernel>>
    BY <1>1, <2>1 DEF restart_service_if_needed, Service
  <2>3. CASE next <= now
    <3>1. service_start(s, FALSE, <<>>) /\ UNCHANGED process_needs_restart
      BY <2>1, <2>3 DEF restart_service_if_needed
    <3>2. CallOk
      <4>1. <<>> \in Seq(Calls)
        OBVIOUS
      <4>2. QED BY <3>1, <4>1, StartOk
    <3>3. QED BY <1>1, <2>2, <3>1, <3>2, LoopTypes DEF kernel
  <2>4. CASE ~(next <= now)
    <3>1. UNCHANGED <<svc, prop, proc, calls>> /\ process_needs_restart' \in Nat
      BY <1>1, <2>1, <2>2, <2>4 DEF restart_service_if_needed
    <3>2. QED BY <1>1, <2>2, <3>1, QuietCore DEF TypeOK, kernel
  <2>5. QED BY <2>3, <2>4
<1>7. CASE PollSignal
  BY <1>1, <1>7, QuietCore DEF PollSignal, TypeOK, Pcs
<1>8. CASE ClientNext
  BY <1>1, <1>8, QuietCore, CommandsAreCalls DEF ClientNext, PollRequest, TypeOK, Pcs, kernel
<1>9. CASE \E p \in Pids : wait_for_one_process(p)
  <2>1. PICK p \in Pids : wait_for_one_process(p)
    BY <1>9
  <2>2. CallOk /\ pc' \in Pcs
    BY <2>1, ReapOk
  <2>3. UNCHANGED <<scan, process_needs_restart, kernel>>
    BY <2>1 DEF wait_for_one_process
  <2>4. QED BY <1>1, <2>2, <2>3, LoopTypes DEF kernel
<1>10. CASE \E p \in Pids : ChildSetpgid(p) \/ ChildExit(p)
  <2>1. PICK p \in Pids : ChildSetpgid(p) \/ ChildExit(p)
    BY <1>10
  <2>2. /\ proc' \in [Pids -> Process] /\ proc[p].st = "live"
        /\ \A q \in Pids : /\ proc'[q].svc = proc[q].svc /\ proc'[q].term = proc[q].term
                           /\ proc'[q].st = "free" <=> proc[q].st = "free"
                           /\ proc'[q].st = "live" => proc[q].st = "live"
    <3>1. CASE ChildSetpgid(p)
      BY <1>1, <3>1 DEF ChildSetpgid, Process
    <3>2. CASE ChildExit(p)
      BY <1>1, <3>2 DEF ChildExit, Process
    <3>3. QED BY <2>1, <3>1, <3>2
  <2>3. svc' = svc /\ prop' = prop /\ calls' = calls /\ UNCHANGED <<loop, pipe, now>>
        /\ sig' \in BOOLEAN
    BY <1>1, <2>1 DEF ChildSetpgid, ChildExit, kernel
  <2>4. \A t \in Services : svc[t].pid # NoPid => svc[t].pid \in Pids
    BY <1>1 DEF Service
  <2>5. FlagsCoherent' /\ PidIsOurs' /\ Owned'
    BY <2>2, <2>3, <2>4 DEF Core, FlagsCoherent, PidIsOurs, Owned
  <2>6. RunningNotTerminated'
    BY <2>2, <2>3, <2>4 DEF Core, RunningNotTerminated, FlagsCoherent
  <2>7. NoForgottenInstance'
    BY <2>2, <2>3 DEF Core, NoForgottenInstance
  <2>8. CallOk
    BY <1>1, <2>2, <2>3, <2>5, <2>6, <2>7 DEF CallOk
  <2>9. QED BY <1>1, <2>3, <2>8, LoopTypes DEF loop
<1>11. CASE sigchld_handler
  BY <1>1, <1>11, QuietCore DEF sigchld_handler, loop, TypeOK
<1>12. CASE Tick
  BY <1>1, <1>12, QuietCore DEF Tick, loop, TypeOK
<1>13. CASE UNCHANGED vars
  BY <1>1, <1>13, QuietCore DEF vars, TypeOK
<1>14. CASE Recovering
  BY <1>13, <1>14 DEF Recovering
<1>15. QED BY <1>2, <1>3, <1>4, <1>5, <1>6, <1>7, <1>8, <1>9, <1>10, <1>11, <1>12, <1>13, <1>14
           DEF Next, InitNext, LoopNext, KernelNext

LEMMA CoreHolds == Spec => []Core
  BY InitCore, NextCore, PTL DEF Spec

\* Every variable keeps its type, for any configuration.
THEOREM TypeCorrect == Spec => []TypeOK
<1>1. Core => TypeOK
  BY DEF Core
<1>2. QED BY <1>1, CoreHolds, PTL

\* A service is always in one mode at a time.
THEOREM FlagsAreCoherent == Spec => []FlagsCoherent
<1>1. Core => FlagsCoherent
  BY DEF Core
<1>2. QED BY <1>1, CoreHolds, PTL

\* The signals init sends never reach the process group of another service.
THEOREM SignalsGoHome == Spec => []PidIsOurs
<1>1. Core => PidIsOurs
  BY DEF Core
<1>2. QED BY <1>1, CoreHolds, PTL

\* What init records of its services agrees with itself and with the kernel, for
\* any services, scripts and requests.
THEOREM AlwaysCoherent == Spec => []Coherent
<1>1. Core => Coherent
  BY DEF Core, Coherent
<1>2. QED BY <1>1, CoreHolds, PTL

\* No live instance of a service escapes: each is the one init runs, or init has
\* sent it SIGTERM.
THEOREM NothingForgotten == Spec => []NoForgottenInstance
<1>1. Core => NoForgottenInstance
  BY DEF Core
<1>2. QED BY <1>1, CoreHolds, PTL

-----------------------------------------------------------------------------
(* No exit is lost.  While the pipe is not open init has made no call, so  *)
(* there is no child; after that every SIGCHLD ends up in the pipe.        *)

LostInv ==
    InitScript = <<>> =>
        /\ pc = "init" => calls = <<>> /\ \A p \in Pids : proc[p].st = "free"
        /\ (\E p \in Pids : proc[p].st = "zombie") => sig \/ pipe \/ pc \in {"reap", "recovery"}

LEMMA InitLost == Init => LostInv
  BY DEF Init, LostInv, Free

\* A call of init forks or signals children; it makes no zombie.
LEMMA CallZombies ==
    ASSUME Core, NEW s \in Services, NEW args, NEW rest,
           service_start(s, args, rest) \/ service_stop(s, rest)
    PROVE  \A p \in Pids : proc'[p].st = "zombie" => proc[p].st = "zombie"
<1>1. proc \in [Pids -> Process]
  BY DEF Core, TypeOK
<1>2. CASE service_start(s, args, rest)
  <2>1. CASE UNCHANGED proc
    BY <2>1
  <2>2. CASE \E p \in FreePids : Forked(s, args, p, rest)
    BY <1>1, <2>2 DEF Forked, FreePids
  <2>3. QED BY <1>2, <2>1, <2>2 DEF service_start, StartIgnored, StartRefused, ForkFails
<1>3. CASE service_stop(s, rest)
  <2>1. proc' = proc \/ \E p \in Pids, how \in {"sent", "missed"} :
                           proc' = [proc EXCEPT ![p].term = how]
    <3>1. svc[s].pid \in Pids \cup {NoPid}
      BY DEF Core, TypeOK, Service
    <3>2. QED BY <1>3, <3>1 DEF service_stop, Terminated
  <2>2. QED BY <1>1, <2>1 DEF Process
<1>4. QED BY <1>2, <1>3

LEMMA NextLost == Core /\ LostInv /\ [Next]_vars => LostInv'
<1> SUFFICES ASSUME Core, LostInv, [Next]_vars, InitScript = <<>> PROVE LostInv'
  BY DEF LostInv
<1>1. CASE CallNext
  <2>1. pc # "init" /\ UNCHANGED <<loop, kernel>>
    BY <1>1 DEF LostInv, CallNext, CallStart, CallStartArgs, service_start_if_not_disabled,
                CallStop, NotifyRestarting, Top
  <2>2. \A p \in Pids : proc'[p].st = "zombie" => proc[p].st = "zombie"
    BY <1>1, CallZombies, TopType
       DEF CallNext, CallStart, CallStartArgs, service_start_if_not_disabled, CallStop,
           NotifyRestarting
  <2>3. QED BY <2>1, <2>2 DEF LostInv, loop, kernel
<1>2. CASE OpenSignalPipe \/ queue_all_property_triggers \/ EnableTriggers
           \/ restart_processes \/ ScanDone \/ PollTimeout \/ ClientNext
  BY <1>2 DEF LostInv, At, OpenSignalPipe, queue_all_property_triggers, EnableTriggers,
              restart_processes, ScanDone, PollTimeout, ClientNext, PollRequest, kernel
<1>3. CASE PollSignal \/ ReapDone
  BY <1>3 DEF LostInv, At, PollSignal, ReapDone, kernel
<1>4. CASE \E s \in Services : restart_service_if_needed(s)
  <2>1. PICK s \in Services : restart_service_if_needed(s)
    BY <1>4
  <2>2. pc = "scan" /\ UNCHANGED <<pc, kernel>>
        /\ (service_start(s, FALSE, <<>>) \/ UNCHANGED proc)
    BY <2>1 DEF restart_service_if_needed, At
  <2>3. \A p \in Pids : proc'[p].st = "zombie" => proc[p].st = "zombie"
    BY <2>2, CallZombies
  <2>4. QED BY <2>2, <2>3 DEF LostInv, kernel
<1>5. CASE \E p \in Pids : wait_for_one_process(p)
  BY <1>5 DEF LostInv, At, wait_for_one_process, ExitUntracked, ExitStopped, ExitRecovery,
              ExitRestarting, kernel
<1>6. CASE \E p \in Pids : ChildSetpgid(p) \/ ChildExit(p)
  <2>1. PICK p \in Pids : ChildSetpgid(p) \/ ChildExit(p)
    BY <1>6
  <2>2. pc # "init" /\ UNCHANGED <<pc, calls, pipe>>
    BY <2>1 DEF LostInv, ChildSetpgid, ChildExit, loop, kernel
  <2>3. CASE ChildExit(p)
    BY <2>2, <2>3 DEF LostInv, ChildExit
  <2>4. CASE ChildSetpgid(p)
    BY <2>2, <2>4 DEF Core, TypeOK, Process, LostInv, ChildSetpgid, kernel
  <2>5. QED BY <2>1, <2>3, <2>4
<1>7. CASE sigchld_handler
  BY <1>7 DEF LostInv, sigchld_handler, loop
<1>8. CASE Tick \/ Recovering \/ UNCHANGED vars
  BY <1>8 DEF LostInv, Tick, Recovering, vars, loop
<1>9. QED BY <1>1, <1>2, <1>3, <1>4, <1>5, <1>6, <1>7, <1>8
          DEF Next, InitNext, LoopNext, KernelNext

\* Once the pipe is open, a child that waits to be reaped never waits unnoticed.
THEOREM NoChildIsLost == Spec => []NoLostChild
<1>1. LostInv => NoLostChild
  BY DEF LostInv, NoLostChild
<1>2. QED BY <1>1, CoreHolds, InitLost, NextLost, PTL DEF Spec

-----------------------------------------------------------------------------
(* The poll timeout.  Only the reaping makes a service wait for a restart, *)
(* so what the scan has covered stays covered until poll.                  *)

Covered(s) ==
    /\ process_needs_restart # 0
    /\ process_needs_restart <= svc[s].time_started + RestartDelay

SleepInv ==
    /\ pc = "scan" => \A s \in Services \ scan : svc[s].restarting => Covered(s)
    /\ pc = "poll" => \A s \in Services : svc[s].restarting => Covered(s)

\* A start or a stop makes no service wait, and moves no start time of one.
LEMMA CallWaiting ==
    ASSUME Core, NEW s \in Services, NEW args, NEW rest \in Seq(Calls),
           service_start(s, args, rest) \/ service_stop(s, rest)
    PROVE  \A t \in Services : svc'[t].restarting =>
              t # s /\ svc[t].restarting /\ svc'[t].time_started = svc[t].time_started
<1>1. svc \in [Services -> Service] /\ svc[s] \in Service
  BY DEF Core, TypeOK
<1>2. \E r : svc' = [svc EXCEPT ![s] = r] /\ ~r.restarting
  <2>1. Cleared(s) \in Service /\ ~Cleared(s).restarting
    BY ClearedType DEF Core
  <2>2. CASE StartIgnored(s, rest)
    BY <2>1, <2>2 DEF StartIgnored
  <2>3. CASE StartRefused(s, args, rest)
    <3>1. ~[Cleared(s) EXCEPT !.disabled = TRUE].restarting
      BY <2>1 DEF Service
    <3>2. QED BY <2>3, <3>1 DEF StartRefused
  <2>4. CASE ForkFails(s, args, rest)
    <3>1. ~[Cleared(s) EXCEPT !.pid = NoPid].restarting
      BY <2>1 DEF Service
    <3>2. QED BY <2>4, <3>1 DEF ForkFails
  <2>5. CASE \E p \in FreePids : Forked(s, args, p, rest)
    <3>1. PICK p \in FreePids : Forked(s, args, p, rest)
      BY <2>5
    <3>2. ~[Cleared(s) EXCEPT !.pid = p, !.running = TRUE, !.time_started = now].restarting
      BY <2>1 DEF Service
    <3>3. QED BY <3>1, <3>2 DEF Forked
  <2>6. CASE service_stop(s, rest)
    <3>1. svc' = [svc EXCEPT ![s] = [svc[s] EXCEPT !.running = FALSE, !.restarting = FALSE,
                                                   !.disabled = TRUE]]
      BY <1>1, <2>6 DEF service_stop
    <3>2. ~[svc[s] EXCEPT !.running = FALSE, !.restarting = FALSE, !.disabled = TRUE].restarting
      BY <1>1 DEF Service
    <3>3. QED BY <3>1, <3>2
  <2>7. QED BY <2>2, <2>3, <2>4, <2>5, <2>6 DEF service_start
<1>3. QED BY <1>1, <1>2

LEMMA NextSleep == Core /\ SleepInv /\ [Next]_vars => SleepInv'
<1> SUFFICES ASSUME Core, SleepInv, [Next]_vars PROVE SleepInv'
  OBVIOUS
<1> USE SupervisorAssumption
<1>1. svc \in [Services -> Service] /\ process_needs_restart \in Nat /\ now \in Nat
  BY DEF Core, TypeOK
<1>2. CASE CallNext
  <2>1. UNCHANGED loop
    BY <1>2 DEF CallNext, CallStart, CallStartArgs, service_start_if_not_disabled, CallStop,
                NotifyRestarting
  <2>2. \A t \in Services : svc'[t].restarting =>
              svc[t].restarting /\ svc'[t].time_started = svc[t].time_started
    BY <1>2, CallWaiting, TopType
       DEF CallNext, CallStart, CallStartArgs, service_start_if_not_disabled, CallStop,
           NotifyRestarting
  <2>3. QED BY <2>1, <2>2 DEF SleepInv, Covered, loop
<1>3. CASE \E s \in Services : restart_service_if_needed(s)
  <2>1. PICK s \in Services : restart_service_if_needed(s)
    BY <1>3
  <2> DEFINE next == svc[s].time_started + RestartDelay
  <2>2. pc = "scan" /\ pc' = pc /\ scan' = scan \ {s} /\ next \in Nat
    BY <1>1, <2>1 DEF restart_service_if_needed, At, Service
  <2>3. CASE next <= now
    <3>1. service_start(s, FALSE, <<>>)
      BY <2>1, <2>3 DEF restart_service_if_needed
    <3>2. process_needs_restart' = process_needs_restart /\ <<>> \in Seq(Calls)
      BY <2>1, <2>3 DEF restart_service_if_needed
    <3>3. \A t \in Services : svc'[t].restarting =>
              t # s /\ svc[t].restarting /\ svc'[t].time_started = svc[t].time_started
      BY <3>1, <3>2, CallWaiting
    <3>4. QED BY <2>2, <3>2, <3>3 DEF SleepInv, Covered
  <2>4. CASE ~(next <= now)
    <3>1. /\ svc' = svc /\ process_needs_restart' \in Nat /\ next # 0
          /\ process_needs_restart' # 0 /\ process_needs_restart' <= next
          /\ process_needs_restart # 0 => process_needs_restart' <= process_needs_restart
      BY <1>1, <2>1, <2>2, <2>4 DEF restart_service_if_needed
    <3>2. \A t \in Services \ scan' : svc[t].restarting => Covered(t)'
      <4>1. SUFFICES ASSUME NEW t \in Services \ scan', svc[t].restarting PROVE Covered(t)'
        OBVIOUS
      <4>2. CASE t = s
        BY <3>1, <4>2 DEF Covered
      <4>3. CASE t # s
        <5>1. Covered(t) /\ svc[t].time_started \in Nat
          BY <1>1, <2>2, <4>1, <4>3 DEF SleepInv, Service
        <5>2. QED BY <1>1, <3>1, <5>1 DEF Covered
      <4>4. QED BY <4>2, <4>3
    <3>3. QED BY <2>2, <3>1, <3>2 DEF SleepInv
  <2>5. QED BY <2>3, <2>4
<1>4. CASE ScanDone
  BY <1>4 DEF SleepInv, Covered, ScanDone, At
<1>5. CASE restart_processes
  BY <1>5 DEF SleepInv, restart_processes
<1>6. CASE OpenSignalPipe \/ queue_all_property_triggers \/ EnableTriggers \/ PollSignal
           \/ PollTimeout \/ ReapDone \/ ClientNext
  BY <1>6 DEF SleepInv, OpenSignalPipe, queue_all_property_triggers, EnableTriggers,
              PollSignal, PollTimeout, ReapDone,
              ClientNext, PollRequest
<1>7. CASE \E p \in Pids : wait_for_one_process(p)
  BY <1>7 DEF SleepInv, wait_for_one_process, At, ExitUntracked, ExitStopped, ExitRecovery,
              ExitRestarting
<1>8. CASE KernelNext \/ Recovering \/ UNCHANGED vars
  BY <1>8 DEF SleepInv, Covered, KernelNext, ChildSetpgid, ChildExit, sigchld_handler, Tick,
              Recovering, vars, loop
<1>9. QED BY <1>2, <1>3, <1>4, <1>5, <1>6, <1>7, <1>8
          DEF Next, InitNext, LoopNext

\* init never sleeps past the restart of a waiting service.
THEOREM NeverOversleeps == Spec => []NoOversleep
<1>1. Init => SleepInv
  BY DEF Init, SleepInv
<1>2. SleepInv => NoOversleep
  BY DEF SleepInv, NoOversleep, Covered, At
<1>3. QED BY <1>1, <1>2, CoreHolds, NextSleep, PTL DEF Spec
-----------------------------------------------------------------------------
(* The status properties.  The notification that ends the handling of an   *)
(* exit is the last of the calls; until then the service is not running,   *)
(* if nothing init runs meanwhile starts it.                               *)

Ran(s) == CHOOSE ran \in SUBSET Commands :
            RunsOnExit(s, ran) /\ \A c \in ran : c.svc = s => c.op = "stop"

Rest(s) == [op |-> "restarting", svc |-> s]
LastIs(q, c) == q # <<>> /\ q[Len(q)] = c
RestOnlyLast(q) == \A i \in DOMAIN q : q[i].op = "restarting" => i = Len(q)
AllButLast(q, S) == \A i \in DOMAIN q : i < Len(q) => q[i] \in S
Handling(s) == LastIs(calls, Rest(s))

SaysStopped == \A s \in Services : prop[s] = "stopped" => svc[s].pid = NoPid
SaysRunning(s) == prop[s] = "running" <=> svc[s].running

StatusInv ==
    pc # "recovery" =>
        /\ RestOnlyLast(calls)
        /\ SaysStopped
        /\ \A s \in OthersOnExit :
            /\ ~Handling(s) => SaysRunning(s)
            /\ Handling(s) => ~svc[s].running /\ AllButLast(calls, Ran(s))

LEMMA RanRuns ==
    ASSUME NEW s \in OthersOnExit
    PROVE  /\ Ran(s) \subseteq Commands /\ RunsOnExit(s, Ran(s))
           /\ \A c \in Ran(s) : c.svc = s => c.op = "stop"
  BY DEF OthersOnExit, Ran

\* The call on top is replaced by commands.
LEMMA TopReplaced ==
    ASSUME NEW q \in Seq(Calls), q # <<>>, RestOnlyLast(q), NEW a \in Seq(Commands)
    PROVE  /\ RestOnlyLast(a \o Tail(q))
           /\ \A s : Head(q).op # "restarting" => (LastIs(a \o Tail(q), Rest(s)) <=> LastIs(q, Rest(s)))
           /\ \A s : Head(q).op # "restarting" /\ LastIs(q, Rest(s)) => Len(q) > 1
           /\ Head(q).op = "restarting" => Tail(q) = <<>> /\ \A s : ~LastIs(a \o Tail(q), Rest(s))
           /\ \A S : AllButLast(q, S) /\ (\A i \in DOMAIN a : a[i] \in S)
                        => AllButLast(a \o Tail(q), S)
<1> DEFINE t == Tail(q)
           r == a \o t
<1>1. /\ t \in Seq(Calls) /\ Len(q) \in Nat /\ Len(q) > 0 /\ Len(t) = Len(q) - 1 /\ Len(a) \in Nat
      /\ \A i \in 1 .. Len(t) : t[i] = q[i + 1]
      /\ DOMAIN q = 1 .. Len(q) /\ DOMAIN a = 1 .. Len(a) /\ Head(q) = q[1]
  OBVIOUS
<1>2. \A i \in 1 .. Len(a) : a[i] \in Commands /\ a[i].op # "restarting"
  BY DEF Commands
<1>3. a \in Seq(Calls)
  BY CommandsAreCalls
<1>4. /\ r \in Seq(Calls) /\ Len(r) = Len(a) + Len(t) /\ DOMAIN r = 1 .. Len(a) + Len(t)
      /\ \A i \in 1 .. Len(a) + Len(t) : r[i] = IF i <= Len(a) THEN a[i] ELSE t[i - Len(a)]
  BY <1>1, <1>3, ConcatProperties
<1> HIDE DEF t, r
<1>5. /\ Len(t) \in Nat /\ Len(q) = Len(t) + 1 /\ Len(r) = Len(a) + Len(t)
      /\ Len(t) = 0 => t = <<>>
  <2>1. t \in Seq(Calls)
    BY <1>1
  <2>2. Len(t) \in Nat /\ (Len(t) = 0 => t = <<>>)
    BY <2>1
  <2>3. Len(q) = Len(t) + 1
    BY <1>1, <2>2
  <2>4. QED BY <1>4, <2>2, <2>3
<1>6. \A i \in DOMAIN r :
         \/ i \in DOMAIN a /\ r[i] = a[i]
         \/ i - Len(a) + 1 \in DOMAIN q /\ r[i] = q[i - Len(a) + 1] /\ i > Len(a)
  <2> TAKE i \in DOMAIN r
  <2>1. CASE i <= Len(a)
    BY <1>1, <1>4, <2>1
  <2>2. CASE i > Len(a)
    <3>1. i - Len(a) \in 1 .. Len(t)
      BY <1>1, <1>4, <1>5, <2>2
    <3>2. r[i] = t[i - Len(a)]
      <4>1. i \in 1 .. Len(a) + Len(t) /\ ~(i <= Len(a))
        BY <1>1, <1>4, <1>5, <2>2
      <4>2. QED BY <1>4, <4>1
    <3>3. t[i - Len(a)] = q[i - Len(a) + 1] /\ i - Len(a) + 1 \in 1 .. Len(q)
      BY <1>1, <1>5, <3>1
    <3>4. QED BY <1>1, <2>2, <3>2, <3>3
  <2>3. QED BY <1>1, <1>4, <2>1, <2>2
<1>7. RestOnlyLast(r)
  <2> SUFFICES ASSUME NEW i \in DOMAIN r, r[i].op = "restarting" PROVE i = Len(r)
    BY DEF RestOnlyLast
  <2>1. i - Len(a) + 1 \in DOMAIN q /\ q[i - Len(a) + 1].op = "restarting"
    BY <1>1, <1>2, <1>6
  <2>2. i - Len(a) + 1 = Len(q)
    BY <2>1 DEF RestOnlyLast
  <2>3. QED BY <1>1, <1>4, <2>2
<1>8. ASSUME NEW s
      PROVE  /\ q[1].op # "restarting" => (LastIs(r, Rest(s)) <=> LastIs(q, Rest(s)))
             /\ q[1].op # "restarting" /\ LastIs(q, Rest(s)) => Len(q) > 1
  <2>1. Rest(s).op = "restarting"
    BY DEF Rest
  <2>2. CASE Len(t) = 0
    <3>1. q[Len(q)] = q[1] /\ Len(r) = Len(a)
      BY <1>1, <1>5, <2>2
    <3>2. r # <<>> => r[Len(r)].op # "restarting"
      BY <1>1, <1>2, <1>4, <3>1
    <3>3. QED BY <2>1, <3>1, <3>2 DEF LastIs
  <2>3. CASE Len(t) > 0
    <3>1. Len(r) \in DOMAIN r /\ Len(r) - Len(a) = Len(t) /\ Len(r) > Len(a)
      BY <1>1, <1>4, <2>3
    <3>2. r[Len(r)] = t[Len(t)] /\ t[Len(t)] = q[Len(q)]
      BY <1>1, <1>4, <2>3, <3>1
    <3>3. r # <<>> /\ Len(q) > 1
      BY <1>1, <1>4, <2>3, <3>1
    <3>4. QED BY <3>2, <3>3 DEF LastIs
  <2>4. QED BY <1>1, <2>2, <2>3
<1>9. q[1].op = "restarting" => t = <<>> /\ \A s : ~LastIs(r, Rest(s))
  <2> SUFFICES ASSUME q[1].op = "restarting" PROVE t = <<>> /\ \A s : ~LastIs(r, Rest(s))
    OBVIOUS
  <2>1. Len(q) = 1
    BY <1>1 DEF RestOnlyLast
  <2>2. t = <<>> /\ Len(r) = Len(a)
    BY <1>1, <1>4, <1>5, <2>1
  <2>3. r # <<>> => r[Len(r)].op # "restarting"
    BY <1>1, <1>2, <1>4, <2>2
  <2>4. QED BY <2>2, <2>3 DEF LastIs, Rest
<1>10. ASSUME NEW S, AllButLast(q, S), \A i \in DOMAIN a : a[i] \in S
       PROVE  AllButLast(r, S)
  <2> SUFFICES ASSUME NEW i \in DOMAIN r, i < Len(r) PROVE r[i] \in S
    BY DEF AllButLast
  <2>1. CASE i \in DOMAIN a /\ r[i] = a[i]
    BY <1>10, <2>1
  <2>2. CASE i - Len(a) + 1 \in DOMAIN q /\ r[i] = q[i - Len(a) + 1]
    <3>1. i - Len(a) + 1 < Len(q)
      BY <1>1, <1>4, <2>2
    <3>2. QED BY <1>10, <2>2, <3>1 DEF AllButLast
  <2>3. QED BY <1>6, <2>1, <2>2
<1>11. QED BY <1>1, <1>7, <1>8, <1>9, <1>10 DEF t, r

\* What a start or a stop of s does to its property, and what that triggers.
Effect(s, rest) ==
    /\ \E added \in Seq(Commands) :
        /\ calls' = added \o rest
        /\ added = <<>> \/ \E st \in States : added = Trigger[s][st]
    /\ \A t \in Services \ {s} : prop'[t] = prop[t] /\ svc'[t] = svc[t]
    /\ prop'[s] = "stopped" => svc'[s].pid = NoPid
    /\ \/ prop'[s] = "running" /\ svc'[s].running
       \/ prop'[s] # "running" /\ ~svc'[s].running
       \/ prop'[s] = prop[s] /\ (svc'[s].running <=> svc[s].running)

LEMMA NotifyCalls ==
    ASSUME TypeOK, NEW s \in Services, NEW state \in States, NEW rest \in Seq(Calls),
           notify_service_state(s, state, rest)
    PROVE  /\ \E added \in Seq(Commands) :
                /\ calls' = added \o rest
                /\ added = <<>> \/ \E st \in States : added = Trigger[s][st]
           /\ prop'[s] = state /\ \A t \in Services \ {s} : prop'[t] = prop[t]
<1>1. prop' = [prop EXCEPT ![s] = state] /\ prop \in [Services -> States]
  BY DEF notify_service_state, TypeOK
<1>2. CASE TriggersEnabled
  <2>1. Trigger[s][state] \in Seq(Commands) /\ calls' = Trigger[s][state] \o rest
    BY <1>2, SupervisorAssumption DEF notify_service_state
  <2>2. QED BY <1>1, <2>1
<1>3. CASE ~TriggersEnabled
  <2>1. <<>> \in Seq(Commands) /\ calls' = <<>> \o rest
    BY <1>3 DEF notify_service_state
  <2>2. QED BY <1>1, <2>1
<1>4. QED BY <1>2, <1>3

LEMMA StartEffect ==
    ASSUME Core, SaysStopped, NEW s \in Services, NEW args, NEW rest \in Seq(Calls),
           service_start(s, args, rest)
    PROVE  Effect(s, rest)
<1>1. svc \in [Services -> Service] /\ svc[s] \in Service /\ prop \in [Services -> States]
  BY DEF Core, TypeOK
<1>2. Cleared(s) \in Service /\ Cleared(s).pid = svc[s].pid /\ Cleared(s).running = svc[s].running
  BY ClearedType DEF Core
<1>3. ASSUME NEW r, svc' = [svc EXCEPT ![s] = r], r.running = svc[s].running,
             r.pid \in {svc[s].pid, NoPid}, prop' = prop, calls' = rest
      PROVE  Effect(s, rest)
  <2>1. svc'[s] = r /\ \A t \in Services \ {s} : svc'[t] = svc[t]
    BY <1>1, <1>3
  <2>2. <<>> \in Seq(Commands) /\ calls' = <<>> \o rest
    BY <1>3
  <2>3. QED BY <1>3, <2>1, <2>2 DEF Effect, SaysStopped
<1>4. CASE StartIgnored(s, rest)
  BY <1>2, <1>3, <1>4 DEF StartIgnored
<1>5. CASE StartRefused(s, args, rest)
  <2>1. /\ [Cleared(s) EXCEPT !.disabled = TRUE].running = svc[s].running
        /\ [Cleared(s) EXCEPT !.disabled = TRUE].pid = svc[s].pid
    BY <1>2 DEF Service
  <2>2. QED BY <1>3, <1>5, <2>1 DEF StartRefused
<1>6. CASE ForkFails(s, args, rest)
  <2>1. /\ [Cleared(s) EXCEPT !.pid = NoPid].running = svc[s].running
        /\ [Cleared(s) EXCEPT !.pid = NoPid].pid = NoPid
    BY <1>2 DEF Service
  <2>2. QED BY <1>3, <1>6, <2>1 DEF ForkFails
<1>7. ASSUME NEW p \in FreePids, Forked(s, args, p, rest) PROVE Effect(s, rest)
  <2> DEFINE r == [Cleared(s) EXCEPT !.pid = p, !.running = TRUE, !.time_started = now]
  <2>1. r.running /\ svc' = [svc EXCEPT ![s] = r] /\ notify_service_state(s, "running", rest)
    BY <1>2, <1>7 DEF Service, Forked
  <2> HIDE DEF r
  <2>2. svc'[s].running /\ \A t \in Services \ {s} : svc'[t] = svc[t]
    BY <1>1, <2>1
  <2>3. "running" \in States
    BY DEF States
  <2>4. /\ \E added \in Seq(Commands) :
                /\ calls' = added \o rest
                /\ added = <<>> \/ \E st \in States : added = Trigger[s][st]
        /\ prop'[s] = "running" /\ \A t \in Services \ {s} : prop'[t] = prop[t]
    BY <2>1, <2>3, NotifyCalls DEF Core
  <2>5. QED BY <2>2, <2>4 DEF Effect
<1>8. QED BY <1>4, <1>5, <1>6, <1>7 DEF service_start

LEMMA StopEffect ==
    ASSUME Core, NEW s \in Services, NEW rest \in Seq(Calls), service_stop(s, rest)
    PROVE  Effect(s, rest) /\ ~svc'[s].running
<1>1. svc \in [Services -> Service] /\ svc[s] \in Service
  BY DEF Core, TypeOK
<1> DEFINE r == [svc[s] EXCEPT !.running = FALSE, !.restarting = FALSE, !.disabled = TRUE]
<1>2. ~r.running /\ r.pid = svc[s].pid /\ svc' = [svc EXCEPT ![s] = r]
  BY <1>1 DEF Service, service_stop
<1> HIDE DEF r
<1>3. svc'[s] = r /\ \A t \in Services \ {s} : svc'[t] = svc[t]
  BY <1>1, <1>2
<1>4. PICK state \in {"stopped", "stopping"} :
         notify_service_state(s, state, rest) /\ (state = "stopped" => svc[s].pid = NoPid)
  BY DEF service_stop
<1>5. state \in States
  BY DEF States
<1>6. /\ \E added \in Seq(Commands) :
            /\ calls' = added \o rest
            /\ added = <<>> \/ \E st \in States : added = Trigger[s][st]
      /\ prop'[s] = state /\ \A t \in Services \ {s} : prop'[t] = prop[t]
  BY <1>4, <1>5, NotifyCalls DEF Core
<1>7. state # "running" /\ ~svc'[s].running /\ svc'[s].pid = svc[s].pid
  BY <1>2, <1>3, <1>4
<1>8. QED BY <1>3, <1>4, <1>6, <1>7 DEF Effect

\* A call on top with such an effect keeps the invariant.
LEMMA EffectKeeps ==
    ASSUME Core, StatusInv, calls # <<>>, pc # "recovery", Head(calls).op # "restarting",
           Effect(Head(calls).svc, Tail(calls)),
           Head(calls).op = "stop" => ~svc'[Head(calls).svc].running
    PROVE  StatusInv'
<1> DEFINE c == Head(calls)
<1>1. /\ calls \in Seq(Calls) /\ c \in Calls /\ c.svc \in Services /\ c = calls[1]
      /\ RestOnlyLast(calls) /\ 1 \in DOMAIN calls
  <2>1. calls \in Seq(Calls) /\ c \in Calls /\ c = calls[1] /\ 1 \in DOMAIN calls
    BY DEF Core, TypeOK
  <2>2. QED BY <2>1 DEF Calls, StatusInv
<1>2. PICK added \in Seq(Commands) :
        /\ calls' = added \o Tail(calls)
        /\ added = <<>> \/ \E st \in States : added = Trigger[c.svc][st]
  BY DEF Effect
<1>3. /\ RestOnlyLast(calls')
      /\ \A s : LastIs(calls', Rest(s)) <=> LastIs(calls, Rest(s))
      /\ \A s : LastIs(calls, Rest(s)) => Len(calls) > 1
      /\ \A S : AllButLast(calls, S) /\ (\A i \in DOMAIN added : added[i] \in S)
                        => AllButLast(calls', S)
  BY <1>1, <1>2, TopReplaced
<1>4. SaysStopped'
  BY DEF Effect, StatusInv, SaysStopped
<1>5. ASSUME NEW s \in OthersOnExit, ~Handling(s) PROVE ~Handling(s)' /\ SaysRunning(s)'
  <2>1. s \in Services
    BY DEF OthersOnExit
  <2>2. ~LastIs(calls', Rest(s))
    BY <1>3, <1>5 DEF Handling
  <2>3. SaysRunning(s)
    BY <1>5 DEF StatusInv
  <2>4. SaysRunning(s)'
    BY <2>1, <2>3 DEF Effect, SaysRunning
  <2>5. QED BY <2>2, <2>4 DEF Handling, LastIs, Rest
<1>6. ASSUME NEW s \in OthersOnExit, Handling(s)
      PROVE  Handling(s)' /\ ~svc'[s].running /\ AllButLast(calls', Ran(s))
  <2>1. s \in Services /\ ~svc[s].running /\ AllButLast(calls, Ran(s))
    BY <1>6 DEF OthersOnExit, StatusInv
  <2>2. Len(calls) > 1 /\ LastIs(calls', Rest(s))
    BY <1>3, <1>6 DEF Handling
  <2>3. c \in Ran(s)
    BY <1>1, <2>1, <2>2 DEF AllButLast
  <2>4. \A i \in DOMAIN added : added[i] \in Ran(s)
    <3>1. CASE added = <<>>
      BY <3>1
    <3>2. CASE \E st \in States : added = Trigger[c.svc][st]
      BY <2>3, <3>2, RanRuns DEF RunsOnExit
    <3>3. QED BY <1>2, <3>1, <3>2
  <2>5. AllButLast(calls', Ran(s))
    BY <1>3, <2>1, <2>4
  <2>6. ~svc'[s].running
    <3>1. CASE c.svc = s
      BY <2>3, <3>1, RanRuns
    <3>2. CASE c.svc # s
      BY <2>1, <3>2 DEF Effect
    <3>3. QED BY <3>1, <3>2
  <2>7. QED BY <2>2, <2>5, <2>6 DEF Handling, LastIs, Rest
<1>7. \A s \in OthersOnExit :
            /\ ~Handling(s)' => SaysRunning(s)'
            /\ Handling(s)' => ~svc'[s].running /\ AllButLast(calls', Ran(s))
  BY <1>5, <1>6
<1>8. RestOnlyLast(calls)'
  BY <1>3 DEF RestOnlyLast
<1>9. (\A s \in OthersOnExit : Handling(s) => ~svc[s].running /\ AllButLast(calls, Ran(s)))'
  BY <1>7 DEF AllButLast, Ran, OthersOnExit, RunsOnExit
<1>10. (\A s \in OthersOnExit : ~Handling(s) => SaysRunning(s))'
  BY <1>7 DEF OthersOnExit, RunsOnExit
<1>11. QED BY <1>4, <1>8, <1>9, <1>10 DEF StatusInv


\* With no call left over, an effect with nothing to do next keeps it too.
LEMMA LoneEffectKeeps ==
    ASSUME Core, StatusInv, calls = <<>>, pc # "recovery", NEW s \in Services, Effect(s, <<>>)
    PROVE  StatusInv'
<1>1. PICK added \in Seq(Commands) : calls' = added \o <<>>
  BY DEF Effect
<1>2. calls' = added
  BY <1>1
<1>3. \A i \in DOMAIN calls' : calls'[i].op # "restarting"
  BY <1>2 DEF Commands
<1>4. RestOnlyLast(calls)'
  BY <1>3 DEF RestOnlyLast
<1>5. \A t : ~LastIs(calls', Rest(t))
  <2>1. calls' # <<>> => Len(calls') \in DOMAIN calls'
    BY <1>2
  <2>2. QED BY <1>3, <2>1 DEF LastIs, Rest
<1>6. \A t \in OthersOnExit : SaysRunning(t) /\ t \in Services
  BY DEF StatusInv, Handling, LastIs, OthersOnExit
<1>7. (\A t \in OthersOnExit : ~Handling(t) /\ SaysRunning(t))'
  <2>1. \A t \in OthersOnExit : SaysRunning(t)'
    BY <1>6 DEF Effect, SaysRunning
  <2>2. QED BY <1>5, <2>1 DEF Handling, LastIs, Rest, OthersOnExit, RunsOnExit
<1>8. SaysStopped'
  BY DEF Effect, StatusInv, SaysStopped
<1>9. QED BY <1>4, <1>7, <1>8 DEF StatusInv

\* The notification that ends the handling of an exit.
LEMMA RestKeeps == ASSUME Core, StatusInv, NotifyRestarting PROVE StatusInv'
<1> DEFINE s == Head(calls).svc
<1>1. /\ calls # <<>> /\ Head(calls) \in Calls /\ s \in Services
      /\ Head(calls).op = "restarting" /\ Tail(calls) \in Seq(Calls) /\ pc # "recovery"
      /\ notify_service_state(s, "restarting", Tail(calls)) /\ UNCHANGED <<svc, pc>>
  BY TopType DEF NotifyRestarting, Top, loop
<1>2. /\ RestOnlyLast(calls) /\ SaysStopped /\ calls \in Seq(Calls)
  BY <1>1 DEF Core, TypeOK, StatusInv
<1>3. Head(calls) = Rest(s)
  BY <1>1 DEF Calls, Rest
<1>4. Len(calls) = 1 /\ calls[1] = Head(calls)
  <2>1. calls[1] = Head(calls) /\ 1 \in DOMAIN calls
    BY <1>1, <1>2
  <2>2. calls[1].op = "restarting"
    BY <1>1, <2>1
  <2>3. QED BY <1>2, <2>1, <2>2 DEF RestOnlyLast
<1>5. \A t : LastIs(calls, Rest(t)) <=> t = s
  BY <1>1, <1>3, <1>4 DEF LastIs, Rest
<1>6. /\ \E added \in Seq(Commands) :
            /\ calls' = added \o Tail(calls)
            /\ added = <<>> \/ \E st \in States : added = Trigger[s][st]
      /\ prop'[s] = "restarting" /\ \A t \in Services \ {s} : prop'[t] = prop[t]
  <2>1. "restarting" \in States
    BY DEF States
  <2>2. QED BY <1>1, <2>1, NotifyCalls DEF Core
<1>7. RestOnlyLast(calls') /\ \A t : ~LastIs(calls', Rest(t))
  BY <1>1, <1>2, <1>6, TopReplaced
<1>8. \A t \in OthersOnExit : SaysRunning(t)'
  <2>1. SUFFICES ASSUME NEW t \in OthersOnExit PROVE SaysRunning(t)'
    OBVIOUS
  <2>2. t \in Services
    BY DEF OthersOnExit
  <2>3. CASE t = s
    <3>1. ~svc[s].running
      BY <1>1, <1>5, <2>3 DEF StatusInv, Handling
    <3>2. QED BY <1>1, <1>6, <2>3, <3>1 DEF SaysRunning
  <2>4. CASE t # s
    <3>1. SaysRunning(t)
      BY <1>1, <1>5, <2>4 DEF StatusInv, Handling
    <3>2. QED BY <1>1, <1>6, <2>2, <2>4, <3>1 DEF SaysRunning
  <2>5. QED BY <2>3, <2>4
<1>9. SaysStopped'
  BY <1>1, <1>2, <1>6 DEF SaysStopped
<1>10. (\A t \in OthersOnExit : ~Handling(t) /\ SaysRunning(t))'
  BY <1>7, <1>8 DEF Handling, LastIs, Rest, OthersOnExit, RunsOnExit
<1>11. QED BY <1>7, <1>9, <1>10 DEF StatusInv, RestOnlyLast

\* The exit of a child.
LEMMA ReapKeeps ==
    ASSUME Core, StatusInv, NEW p \in Pids, wait_for_one_process(p)
    PROVE  StatusInv'
<1>1. calls = <<>> /\ pc = "reap"
  BY DEF wait_for_one_process, At
<1>2. SaysStopped /\ \A t \in OthersOnExit : SaysRunning(t) /\ t \in Services
  BY <1>1 DEF StatusInv, Handling, LastIs, OthersOnExit
<1>3. CASE ExitUntracked(p)
  BY <1>1, <1>2, <1>3 DEF ExitUntracked, StatusInv, Handling, LastIs, RestOnlyLast, SaysStopped,
                          SaysRunning, OthersOnExit, RunsOnExit
<1>4. ASSUME NEW s \in service_find_by_pid(p), ExitStopped(s) \/ ExitRecovery(s) \/ ExitRestarting(s)
      PROVE  StatusInv'
  <2>1. /\ s \in Services /\ svc'[s].pid = NoPid /\ ~svc'[s].running
        /\ \A t \in Services : t # s => svc'[t] = svc[t]
    BY <1>4, ExitShape
  <2>2. CASE ExitStopped(s)
    <3>1. notify_service_state(s, "stopped", <<>>) /\ <<>> \in Seq(Calls) /\ "stopped" \in States
      BY <2>2 DEF ExitStopped, States
    <3>2. /\ \E added \in Seq(Commands) :
                /\ calls' = added \o <<>>
                /\ added = <<>> \/ \E st \in States : added = Trigger[s][st]
          /\ prop'[s] = "stopped" /\ \A t \in Services \ {s} : prop'[t] = prop[t]
      BY <2>1, <3>1, NotifyCalls DEF Core
    <3>3. Effect(s, <<>>)
      BY <2>1, <3>2 DEF Effect
    <3>4. QED BY <1>1, <2>1, <3>3, LoneEffectKeeps
  <2>3. CASE ExitRecovery(s)
    BY <2>3 DEF ExitRecovery, StatusInv
  <2>4. CASE ExitRestarting(s)
    <3>1. calls' = OnRestart[s] \o <<Rest(s)>> /\ prop' = prop
      BY <2>4 DEF ExitRestarting, Rest
    <3>2. OnRestart[s] \in Seq(Commands) /\ OnRestart[s] \in Seq(Calls)
      BY <2>1, SupervisorAssumption, CommandsAreCalls
    <3>3. Rest(s) \in Calls /\ Rest(s).op = "restarting"
      BY <2>1 DEF Rest, Calls
    <3> DEFINE o == OnRestart[s]
               c == Rest(s)
    <3>4. calls' = Append(o, c)
      BY <3>1, <3>2, <3>3, AppendIsConcat
    <3>5. \A i \in DOMAIN o : o[i].op # "restarting"
      BY <3>2 DEF Commands
    <3>6. o \in Seq(Calls) /\ c \in Calls
      BY <3>2, <3>3
    <3> HIDE DEF o, c
    <3>7. /\ calls' # <<>> /\ Len(calls') = Len(o) + 1 /\ calls'[Len(calls')] = c
          /\ DOMAIN calls' = 1 .. Len(o) + 1 /\ Len(o) \in Nat /\ DOMAIN o = 1 .. Len(o)
          /\ \A i \in 1 .. Len(o) : calls'[i] = o[i]
      BY <3>4, <3>6
    <3>8. RestOnlyLast(calls')
      <4>1. \A i \in 1 .. Len(o) + 1 : i = Len(o) + 1 \/ i \in 1 .. Len(o)
        BY <3>7
      <4>2. QED BY <3>5, <3>7, <4>1 DEF RestOnlyLast
    <3>9. LastIs(calls', Rest(s)) /\ \A t : t # s => ~LastIs(calls', Rest(t))
      BY <3>7 DEF LastIs, c, Rest
    <3>10. s \in OthersOnExit => AllButLast(calls', Ran(s))
      <4>1. s \in OthersOnExit => \A i \in DOMAIN o : o[i] \in Ran(s)
        BY RanRuns DEF RunsOnExit, o
      <4>2. \A i \in DOMAIN calls' : i < Len(calls') => i \in DOMAIN o /\ calls'[i] = o[i]
        BY <3>7
      <4>3. QED BY <4>1, <4>2 DEF AllButLast
    <3>11. SaysStopped'
      BY <1>2, <2>1, <3>1 DEF SaysStopped
    <3>12. \A t \in OthersOnExit : t # s => SaysRunning(t)'
      BY <1>2, <2>1, <3>1 DEF SaysRunning
    <3>13. (\A t \in OthersOnExit :
              /\ ~Handling(t) => SaysRunning(t)
              /\ Handling(t) => ~svc[t].running /\ AllButLast(calls, Ran(t)))'
      <4>1. \A t \in OthersOnExit :
              /\ ~LastIs(calls', Rest(t)) => SaysRunning(t)'
              /\ LastIs(calls', Rest(t)) => ~svc'[t].running /\ AllButLast(calls', Ran(t))
        BY <2>1, <3>9, <3>10, <3>12
      <4>2. QED BY <4>1 DEF Handling, LastIs, Rest, AllButLast, Ran, OthersOnExit, RunsOnExit
    <3>14. QED BY <3>8, <3>11, <3>13 DEF StatusInv, RestOnlyLast
  <2>5. QED BY <1>4, <2>2, <2>3, <2>4
<1>5. QED BY <1>3, <1>4 DEF wait_for_one_process

\* A step that calls nothing.
LEMMA StillKeeps ==
    ASSUME StatusInv, UNCHANGED <<svc, prop, calls>>, pc # "recovery" \/ pc' = "recovery"
    PROVE  StatusInv'
  BY DEF StatusInv, Handling, LastIs, RestOnlyLast, AllButLast, SaysStopped, SaysRunning, Ran,
         Rest, OthersOnExit, RunsOnExit

LEMMA CallKeeps == ASSUME Core, StatusInv, CallNext PROVE StatusInv'
<1> DEFINE s == Head(calls).svc
           rest == Tail(calls)
<1>1. CASE NotifyRestarting
  BY <1>1, RestKeeps
<1>2. CASE CallStart \/ CallStartArgs
  <2>1. /\ calls # <<>> /\ pc # "recovery" /\ Head(calls).op \in {"start", "start_args"}
        /\ s \in Services /\ rest \in Seq(Calls)
    BY <1>2, TopType DEF CallStart, CallStartArgs, Top
  <2>2. Effect(s, rest)
    BY <1>2, <2>1, StartEffect DEF CallStart, CallStartArgs, StatusInv
  <2>3. QED BY <2>1, <2>2, EffectKeeps
<1>3. CASE service_start_if_not_disabled
  <2>1. /\ calls # <<>> /\ pc # "recovery" /\ Head(calls).op = "start_enabled"
        /\ s \in Services /\ rest \in Seq(Calls) /\ SaysStopped
    BY <1>3, TopType DEF service_start_if_not_disabled, Top, StatusInv
  <2>2. CASE calls' = rest /\ UNCHANGED <<svc, prop, proc>>
    <3>1. <<>> \in Seq(Commands) /\ calls' = <<>> \o rest
      BY <2>1, <2>2
    <3>2. Effect(s, rest)
      BY <2>1, <2>2, <3>1 DEF Effect, SaysStopped
    <3>3. QED BY <2>1, <3>2, EffectKeeps
  <2>3. CASE service_start(s, FALSE, rest)
    BY <2>1, <2>3, StartEffect, EffectKeeps
  <2>4. QED BY <1>3, <2>2, <2>3 DEF service_start_if_not_disabled
<1>4. CASE CallStop
  <2>1. /\ calls # <<>> /\ pc # "recovery" /\ Head(calls).op = "stop"
        /\ s \in Services /\ rest \in Seq(Calls) /\ service_stop(s, rest)
    BY <1>4, TopType DEF CallStop, Top
  <2>2. QED BY <2>1, StopEffect, EffectKeeps
<1>5. QED BY <1>1, <1>2, <1>3, <1>4 DEF CallNext

\* A script or a request starts only when nothing is left over.
LEMMA ScriptKeeps ==
    ASSUME StatusInv, calls = <<>>, pc # "recovery", UNCHANGED <<svc, prop>>,
           calls' \in Seq(Commands)
    PROVE  StatusInv'
<1>1. \A i \in DOMAIN calls' : calls'[i].op # "restarting"
  BY DEF Commands
<1>2. RestOnlyLast(calls)'
  BY <1>1 DEF RestOnlyLast
<1>3. \A t : ~LastIs(calls', Rest(t))
  <2>1. calls' # <<>> => Len(calls') \in DOMAIN calls'
    OBVIOUS
  <2>2. QED BY <1>1, <2>1 DEF LastIs, Rest
<1>4. SaysStopped /\ \A t \in OthersOnExit : SaysRunning(t)
  BY DEF StatusInv, Handling, LastIs
<1>5. SaysStopped' /\ \A t \in OthersOnExit : SaysRunning(t)'
  BY <1>4 DEF SaysStopped, SaysRunning
<1>6. (\A t \in OthersOnExit : ~Handling(t) /\ SaysRunning(t))'
  BY <1>3, <1>5 DEF Handling, LastIs, Rest, OthersOnExit, RunsOnExit
<1>7. QED BY <1>2, <1>5, <1>6 DEF StatusInv

LEMMA NextStatus == Core /\ StatusInv /\ [Next]_vars => StatusInv'
<1> SUFFICES ASSUME Core, StatusInv, [Next]_vars PROVE StatusInv'
  OBVIOUS
<1>1. CASE CallNext
  BY <1>1, CallKeeps
<1>2. CASE \E p \in Pids : wait_for_one_process(p)
  BY <1>2, ReapKeeps
<1>3. CASE \E s \in Services : restart_service_if_needed(s)
  <2>1. PICK s \in Services : restart_service_if_needed(s)
    BY <1>3
  <2>2. calls = <<>> /\ pc = "scan" /\ pc' = pc /\ SaysStopped /\ <<>> \in Seq(Calls)
    BY <2>1 DEF restart_service_if_needed, At, StatusInv
  <2>3. CASE service_start(s, FALSE, <<>>)
    BY <2>2, <2>3, StartEffect, LoneEffectKeeps
  <2>4. CASE UNCHANGED <<svc, prop, proc, calls>>
    BY <2>2, <2>4, StillKeeps
  <2>5. QED BY <2>1, <2>3, <2>4 DEF restart_service_if_needed
<1>4. CASE OpenSignalPipe \/ queue_all_property_triggers \/ ClientNext
  <2>1. /\ calls = <<>> /\ pc # "recovery" /\ UNCHANGED <<svc, prop>>
        /\ calls' \in {BootScript, BootTriggers[prop]} \cup Requests
    BY <1>4 DEF OpenSignalPipe, queue_all_property_triggers, ClientNext, PollRequest, At
  <2>2. prop \in [Services -> States]
    BY DEF Core, TypeOK
  <2>3. calls' \in Seq(Commands)
    BY <2>1, <2>2, SupervisorAssumption
  <2>4. QED BY <2>1, <2>3, ScriptKeeps
<1>5. CASE EnableTriggers \/ restart_processes \/ ScanDone \/ PollSignal \/ PollTimeout \/ ReapDone
  <2>1. UNCHANGED <<svc, prop, calls>> /\ pc # "recovery"
    BY <1>5 DEF EnableTriggers, restart_processes, ScanDone, PollSignal, PollTimeout, ReapDone, At
  <2>2. QED BY <2>1, StillKeeps
<1>6. CASE KernelNext \/ Recovering \/ UNCHANGED vars
  <2>1. UNCHANGED <<svc, prop, calls, pc>>
    BY <1>6 DEF KernelNext, ChildSetpgid, ChildExit, sigchld_handler, Tick, Recovering, vars, loop
  <2>2. QED BY <2>1, StillKeeps
<1>7. QED BY <1>1, <1>2, <1>3, <1>4, <1>5, <1>6 DEF Next, InitNext, LoopNext

LEMMA InitStatus == Init => StatusInv
<1> SUFFICES ASSUME Init PROVE StatusInv
  OBVIOUS
<1>1. calls \in Seq(Commands) /\ calls = InitScript
  BY SupervisorAssumption DEF Init
<1>2. \A i \in DOMAIN calls : calls[i].op # "restarting"
  BY <1>1 DEF Commands
<1>3. \A t : ~LastIs(calls, Rest(t))
  <2>1. calls # <<>> => Len(calls) \in DOMAIN calls
    BY <1>1
  <2>2. QED BY <1>2, <2>1 DEF LastIs, Rest
<1>4. \A s \in Services : prop[s] = "none" /\ ~svc[s].running
  BY DEF Init
<1>5. QED BY <1>2, <1>3, <1>4 DEF StatusInv, RestOnlyLast, Handling, SaysStopped, SaysRunning,
                                 OthersOnExit

\* Whatever the triggers on init.svc.* and the onrestart commands call, and
\* however deep they nest, between calls the properties tell the truth of every
\* service that its own exit does not start.
THEOREM StatusIsTrue == Spec => []StatusTruthful
<1>1. StatusInv => StatusTruthful
  BY DEF StatusInv, StatusTruthful, Handling, LastIs, SaysStopped, SaysRunning
<1>2. QED BY <1>1, InitStatus, CoreHolds, NextStatus, PTL DEF Spec

-----------------------------------------------------------------------------
(* Supervisor implements ServiceLifecycle: Init maps to its initial state,  *)
(* and a step of Supervisor to a move of one service or to a stutter.  The  *)
(* invariant that is needed beyond Core says what a recorded pid means.     *)

\* A service with a process is running or was stopped.
PidMeans == \A s \in Services : svc[s].pid # NoPid => svc[s].running \/ svc[s].disabled

\* The two together, as the induction uses them.
Full == Core /\ PidMeans

\* One service moves, or none.
Moves == Lifecycle!Next \/ UNCHANGED modes

LEMMA OneMoves ==
    ASSUME svc \in [Services -> Service], NEW s \in Services, NEW r \in Service,
           svc' = [svc EXCEPT ![s] = r]
    PROVE  modes' = [modes EXCEPT ![s] = Mode(s)'] /\ modes[s] = Mode(s) /\ svc'[s] = r
<1>1. svc'[s] = r /\ \A t \in Services : t # s => svc'[t] = svc[t]
  OBVIOUS
<1>2. \A t \in Services : t # s => Mode(t)' = Mode(t)
  BY <1>1 DEF Mode
<1>3. QED BY <1>1, <1>2 DEF modes

\* What a start does to the record of the service.
LEMMA StartMoves ==
    ASSUME Full, NEW s \in Services, NEW args, NEW rest \in Seq(Calls),
           service_start(s, args, rest)
    PROVE  Moves /\ PidMeans'
<1>1. svc \in [Services -> Service] /\ svc[s] \in Service
  BY DEF Full, Core, TypeOK
<1>2. Cleared(s) \in Service /\ Cleared(s).pid = svc[s].pid
      /\ Cleared(s).running = svc[s].running /\ ~Cleared(s).disabled /\ ~Cleared(s).restarting
  BY ClearedType DEF Full, Core
<1>3. svc[s].running => ~svc[s].disabled /\ ~svc[s].restarting
  BY DEF Full, Core, FlagsCoherent
<1>4. CASE StartIgnored(s, rest)
  <2>1. svc' = [svc EXCEPT ![s] = Cleared(s)] /\ svc[s].running
    BY <1>4 DEF StartIgnored
  <2>2. modes' = [modes EXCEPT ![s] = Mode(s)'] /\ modes[s] = Mode(s) /\ svc'[s] = Cleared(s)
    BY <1>1, <1>2, <2>1, OneMoves
  <2>3. Mode(s)' = "running" /\ Mode(s) = "running"
    BY <1>2, <2>1, <2>2 DEF Mode
  <2>4. modes' = modes
    BY <2>2, <2>3 DEF modes
  <2>5. PidMeans'
    BY <1>1, <1>2, <2>1 DEF Full, PidMeans
  <2>6. QED BY <2>4, <2>5 DEF Moves
<1>5. CASE StartRefused(s, args, rest)
  <2> DEFINE r == [Cleared(s) EXCEPT !.disabled = TRUE]
  <2>1. r \in Service /\ r.disabled /\ ~r.running /\ ~r.restarting /\ ~svc[s].running
    BY <1>2, <1>5 DEF StartRefused, Service
  <2>2. svc' = [svc EXCEPT ![s] = r]
    BY <1>5 DEF StartRefused
  <2> HIDE DEF r
  <2>3. modes' = [modes EXCEPT ![s] = Mode(s)'] /\ modes[s] = Mode(s) /\ svc'[s] = r
    BY <1>1, <2>1, <2>2, OneMoves
  <2>4. Mode(s)' = "disabled" /\ Mode(s) \in {"restarting", "disabled", "down"}
    BY <2>1, <2>3 DEF Mode
  <2>5. Lifecycle!Refuse(s)
    BY <2>3, <2>4 DEF Lifecycle!Refuse, Lifecycle!Move, Lifecycle!Modes
  <2>6. PidMeans'
    BY <1>1, <2>1, <2>2 DEF Full, PidMeans
  <2>7. QED BY <2>5, <2>6 DEF Moves, Lifecycle!Next
<1>6. CASE ForkFails(s, args, rest)
  <2> DEFINE r == [Cleared(s) EXCEPT !.pid = NoPid]
  <2>1. r \in Service /\ r.pid = NoPid /\ ~r.disabled /\ ~r.running /\ ~r.restarting
        /\ ~svc[s].running
    BY <1>2, <1>6 DEF ForkFails, Service
  <2>2. svc' = [svc EXCEPT ![s] = r]
    BY <1>6 DEF ForkFails
  <2> HIDE DEF r
  <2>3. modes' = [modes EXCEPT ![s] = Mode(s)'] /\ modes[s] = Mode(s) /\ svc'[s] = r
    BY <1>1, <2>1, <2>2, OneMoves
  <2>4. Mode(s)' = "down" /\ Mode(s) \in {"restarting", "disabled", "down"}
    BY <2>1, <2>3 DEF Mode
  <2>5. Lifecycle!ForkFailed(s)
    BY <2>3, <2>4 DEF Lifecycle!ForkFailed, Lifecycle!Move, Lifecycle!Modes
  <2>6. PidMeans'
    BY <1>1, <2>1, <2>2 DEF Full, PidMeans
  <2>7. QED BY <2>5, <2>6 DEF Moves, Lifecycle!Next
<1>7. CASE \E p \in FreePids : Forked(s, args, p, rest)
  <2>1. PICK p \in FreePids : Forked(s, args, p, rest)
    BY <1>7
  <2> DEFINE r == [Cleared(s) EXCEPT !.pid = p, !.running = TRUE, !.time_started = now]
  <2>2. r \in Service /\ r.running /\ ~svc[s].running
    BY <1>2, <2>1 DEF Forked, Service, FreePids, Full, Core, TypeOK
  <2>3. svc' = [svc EXCEPT ![s] = r]
    BY <2>1 DEF Forked
  <2> HIDE DEF r
  <2>4. modes' = [modes EXCEPT ![s] = Mode(s)'] /\ modes[s] = Mode(s) /\ svc'[s] = r
    BY <1>1, <2>2, <2>3, OneMoves
  <2>5. Mode(s)' = "running" /\ Mode(s) \in {"restarting", "disabled", "down"}
    BY <2>2, <2>4 DEF Mode
  <2>6. Lifecycle!Run(s)
    BY <2>4, <2>5 DEF Lifecycle!Run, Lifecycle!Move, Lifecycle!Modes
  <2>7. PidMeans'
    BY <1>1, <2>2, <2>3 DEF Full, PidMeans
  <2>8. QED BY <2>6, <2>7 DEF Moves, Lifecycle!Next
<1>8. QED BY <1>4, <1>5, <1>6, <1>7 DEF service_start

LEMMA StopMoves ==
    ASSUME Full, NEW s \in Services, NEW rest, service_stop(s, rest)
    PROVE  Moves /\ PidMeans'
<1> DEFINE r == [svc[s] EXCEPT !.running = FALSE, !.restarting = FALSE, !.disabled = TRUE]
<1>1. svc \in [Services -> Service] /\ svc[s] \in Service
  BY DEF Full, Core, TypeOK
<1>2. r \in Service /\ r.disabled /\ ~r.running /\ ~r.restarting
  BY <1>1 DEF Service
<1>3. svc' = [svc EXCEPT ![s] = r]
  BY <1>1 DEF service_stop
<1> HIDE DEF r
<1>4. modes' = [modes EXCEPT ![s] = Mode(s)'] /\ modes[s] = Mode(s) /\ svc'[s] = r
  BY <1>1, <1>2, <1>3, OneMoves
<1>5. Mode(s)' = "disabled" /\ Mode(s) \in {"running", "restarting", "disabled", "down"}
  BY <1>2, <1>4 DEF Mode
<1>6. Lifecycle!Stop(s)
  BY <1>4, <1>5 DEF Lifecycle!Stop, Lifecycle!Move, Lifecycle!Modes
<1>7. PidMeans'
  BY <1>1, <1>2, <1>3 DEF Full, PidMeans
<1>8. QED BY <1>6, <1>7 DEF Moves, Lifecycle!Next

\* An exit takes a running service on, and tells nothing new of a stopped one.
LEMMA ExitMoves ==
    ASSUME Full, NEW p \in Pids, NEW s \in service_find_by_pid(p),
           ExitStopped(s) \/ ExitRecovery(s) \/ ExitRestarting(s)
    PROVE  Moves /\ PidMeans'
<1>1. s \in Services /\ svc \in [Services -> Service] /\ svc[s] \in Service
      /\ svc[s].pid # NoPid
  BY SupervisorAssumption DEF Full, Core, TypeOK, service_find_by_pid
<1>2. /\ ~svc[s].restarting
      /\ svc[s].running \/ svc[s].disabled
      /\ svc[s].running => ~svc[s].disabled
  BY <1>1 DEF Full, Core, FlagsCoherent, PidMeans
<1>3. /\ Dead(s) \in Service /\ Dead(s).pid = NoPid
      /\ ~Dead(s).running /\ ~Dead(s).restarting
      /\ Dead(s).disabled <=> svc[s].disabled \/ s \in Oneshot
  BY <1>1, <1>2 DEF Dead, Service
<1>4. PidMeans'
  <2>1. svc'[s].pid = NoPid /\ \A t \in Services : t # s => svc'[t] = svc[t]
    BY ExitShape DEF Full
  <2>2. QED BY <2>1 DEF Full, PidMeans
<1>5. CASE ExitStopped(s)
  <2>1. svc' = [svc EXCEPT ![s] = Dead(s)] /\ Dead(s).disabled
    BY <1>5 DEF ExitStopped
  <2>2. modes' = [modes EXCEPT ![s] = Mode(s)'] /\ modes[s] = Mode(s) /\ svc'[s] = Dead(s)
    BY <1>1, <1>3, <2>1, OneMoves
  <2>3. Mode(s)' = "disabled"
    BY <1>3, <2>1, <2>2 DEF Mode
  <2>4. CASE svc[s].running
    <3>1. Mode(s) = "running" /\ s \in Oneshot
      BY <1>2, <1>3, <2>1, <2>4 DEF Mode
    <3>2. Lifecycle!Finish(s)
      BY <2>2, <2>3, <3>1 DEF Lifecycle!Finish, Lifecycle!Move
    <3>3. QED BY <1>1, <1>4, <3>2 DEF Moves, Lifecycle!Next
  <2>5. CASE ~svc[s].running
    <3>1. Mode(s) = "disabled"
      BY <1>2, <2>5 DEF Mode
    <3>2. modes' = modes
      BY <2>2, <2>3, <3>1 DEF modes
    <3>3. QED BY <1>4, <3>2 DEF Moves
  <2>6. QED BY <2>4, <2>5
<1>6. CASE ExitRecovery(s)
  <2> DEFINE d == [Dead(s) EXCEPT !.nr_crashed = Dead(s).nr_crashed + 1]
  <2>1. svc' = [svc EXCEPT ![s] = d] /\ ~Dead(s).disabled
    BY <1>6 DEF ExitRecovery
  <2>2. d \in Service /\ ~d.running /\ ~d.restarting /\ ~d.disabled
    BY <1>3, <2>1 DEF Service
  <2> HIDE DEF d
  <2>3. modes' = [modes EXCEPT ![s] = Mode(s)'] /\ modes[s] = Mode(s) /\ svc'[s] = d
    BY <1>1, <2>1, <2>2, OneMoves
  <2>4. Mode(s)' = "down" /\ Mode(s) = "running" /\ s \notin Oneshot
    BY <1>2, <1>3, <2>1, <2>2, <2>3 DEF Mode
  <2>5. Lifecycle!GiveUp(s)
    BY <2>3, <2>4 DEF Lifecycle!GiveUp, Lifecycle!Move
  <2>6. QED BY <1>1, <1>4, <2>5 DEF Moves, Lifecycle!Next
<1>7. CASE ExitRestarting(s)
  <2> DEFINE d == [Counted(s) EXCEPT !.restarting = TRUE]
  <2>1. svc' = [svc EXCEPT ![s] = d] /\ ~Dead(s).disabled
    BY <1>7 DEF ExitRestarting
  <2>2. /\ WindowAfter(svc[s].time_crashed, now) \in Nat
        /\ CountAfter(svc[s].time_crashed, svc[s].nr_crashed, now) \in Nat
    BY <1>1 DEF Full, Core, TypeOK, Service, WindowAfter, CountAfter
  <2>3. Counted(s) \in Service /\ ~Counted(s).running
    BY <1>3, <2>2 DEF Counted, Service
  <2>4. d \in Service /\ ~d.running /\ d.restarting
    BY <2>3 DEF Service
  <2> HIDE DEF d
  <2>5. modes' = [modes EXCEPT ![s] = Mode(s)'] /\ modes[s] = Mode(s) /\ svc'[s] = d
    BY <1>1, <2>1, <2>4, OneMoves
  <2>6. Mode(s)' = "restarting" /\ Mode(s) = "running" /\ s \notin Oneshot
    BY <1>2, <1>3, <2>1, <2>4, <2>5 DEF Mode
  <2>7. Lifecycle!Crash(s)
    BY <2>5, <2>6 DEF Lifecycle!Crash, Lifecycle!Move
  <2>8. QED BY <1>1, <1>4, <2>7 DEF Moves, Lifecycle!Next
<1>8. QED BY <1>5, <1>6, <1>7

\* A step that leaves the services alone.
LEMMA StillMoves ==
    ASSUME Full, UNCHANGED svc
    PROVE  Moves /\ PidMeans'
  BY DEF Full, Moves, modes, Mode, PidMeans

LEMMA NextMoves == Full /\ [Next]_vars => Moves /\ PidMeans'
<1> SUFFICES ASSUME Full, [Next]_vars PROVE Moves /\ PidMeans'
  OBVIOUS
<1>1. CASE CallNext
  <2>1. CASE CallStart \/ CallStartArgs
    BY <2>1, StartMoves, TopType DEF CallStart, CallStartArgs, Full
  <2>2. CASE service_start_if_not_disabled
    BY <2>2, StartMoves, StillMoves, TopType DEF service_start_if_not_disabled, Full
  <2>3. CASE CallStop
    BY <2>3, StopMoves, TopType DEF CallStop, Full
  <2>4. CASE NotifyRestarting
    BY <2>4, StillMoves DEF NotifyRestarting
  <2>5. QED BY <1>1, <2>1, <2>2, <2>3, <2>4 DEF CallNext
<1>2. CASE \E s \in Services : restart_service_if_needed(s)
  <2>1. PICK s \in Services : restart_service_if_needed(s)
    BY <1>2
  <2>2. service_start(s, FALSE, <<>>) \/ UNCHANGED svc
    BY <2>1 DEF restart_service_if_needed
  <2>3. <<>> \in Seq(Calls)
    OBVIOUS
  <2>4. QED BY <2>2, <2>3, StartMoves, StillMoves
<1>3. CASE \E p \in Pids : wait_for_one_process(p)
  <2>1. PICK p \in Pids : wait_for_one_process(p)
    BY <1>3
  <2>2. CASE ExitUntracked(p)
    BY <2>2, StillMoves DEF ExitUntracked
  <2>3. CASE \E s \in service_find_by_pid(p) :
                ExitStopped(s) \/ ExitRecovery(s) \/ ExitRestarting(s)
    BY <2>3, ExitMoves
  <2>4. QED BY <2>1, <2>2, <2>3 DEF wait_for_one_process
<1>4. CASE UNCHANGED svc
  BY <1>4, StillMoves
<1>5. [Next]_vars => \/ CallNext \/ (\E s \in Services : restart_service_if_needed(s))
                     \/ (\E p \in Pids : wait_for_one_process(p)) \/ UNCHANGED svc
  BY DEF Next, InitNext, LoopNext, ClientNext, KernelNext, OpenSignalPipe,
         queue_all_property_triggers, EnableTriggers, restart_processes, ScanDone, PollSignal,
         PollTimeout, ReapDone, PollRequest, ChildSetpgid, ChildExit, sigchld_handler, Tick,
         Recovering, vars
<1>6. QED BY <1>1, <1>2, <1>3, <1>4, <1>5

LEMMA InitMoves == Init => PidMeans /\ Lifecycle!Init
<1> SUFFICES ASSUME Init PROVE PidMeans /\ Lifecycle!Init
  OBVIOUS
<1>1. \A s \in Services : /\ svc[s].pid = NoPid /\ ~svc[s].running /\ ~svc[s].restarting
                          /\ svc[s].disabled <=> s \in InitiallyDisabled
  BY DEF Init
<1>2. QED BY <1>1 DEF PidMeans, Lifecycle!Init, modes, Mode

\* init keeps the lifecycle it promises of each service: every step of the boot
\* sequence, the calls, the poll loop and the reaping is one move of one
\* service, or none.
THEOREM ImplementsLifecycle == Spec => RefinesLifecycle
<1>1. Init => Full /\ Lifecycle!Init
  BY InitCore, InitMoves DEF Full
<1>2. Full /\ [Next]_vars => Full' /\ [Lifecycle!Next]_modes
  BY NextCore, NextMoves DEF Full, Moves
<1>3. QED BY <1>1, <1>2, PTL DEF Spec, RefinesLifecycle, Lifecycle!Spec

-----------------------------------------------------------------------------
(* What is stopped stays down.                                             *)

\* A disabled service has neither a process init would restart nor a restart
\* to wait for, and only a start that names it clears the flag.
THEOREM StoppedIsDown == Spec => StoppedStaysDown
<1> DEFINE Named(s) == /\ calls # <<>> /\ Head(calls).op \in {"start", "start_args"}
                       /\ Head(calls).svc = s
<1>1. ASSUME Core, [Next]_vars, NEW s \in Services, svc[s].disabled, ~svc'[s].disabled
      PROVE  Named(s)
  <2>1. svc \in [Services -> Service]
    BY <1>1 DEF Core, TypeOK
  <2>2. ~svc[s].restarting
    BY <1>1 DEF Core, FlagsCoherent
  <2>3. \A args, rest : \A t \in Services :
           service_start(t, args, rest) \/ service_stop(t, rest) => t = s \/ svc'[s] = svc[s]
    BY <2>1 DEF service_start, StartIgnored, StartRefused, ForkFails, Forked, service_stop
  <2>4. CASE CallStart \/ CallStartArgs
    BY <1>1, <2>3, <2>4, TopType DEF CallStart, CallStartArgs
  <2>5. CASE service_start_if_not_disabled
    BY <1>1, <2>3, <2>5, TopType DEF service_start_if_not_disabled
  <2>6. CASE CallStop
    <3>1. \A rest : service_stop(s, rest) => svc'[s].disabled
      BY <1>1, <2>1 DEF service_stop, Service
    <3>2. QED BY <1>1, <2>3, <2>6, <3>1, TopType DEF CallStop
  <2>7. CASE \E t \in Services : restart_service_if_needed(t)
    <3>1. PICK t \in Services : restart_service_if_needed(t)
      BY <2>7
    <3>2. t # s
      BY <2>2, <3>1 DEF restart_service_if_needed
    <3>3. QED BY <1>1, <2>3, <3>1, <3>2 DEF restart_service_if_needed
  <2>8. CASE \E p \in Pids : wait_for_one_process(p)
    <3>1. PICK p \in Pids : wait_for_one_process(p)
      BY <2>8
    <3>2. PICK t \in service_find_by_pid(p) :
             ExitStopped(t) \/ ExitRecovery(t) \/ ExitRestarting(t)
      BY <1>1, <3>1 DEF wait_for_one_process, ExitUntracked
    <3>3. t = s
      BY <1>1, <3>2, ExitShape
    <3>4. Dead(s).disabled /\ svc'[s] = Dead(s)
      BY <1>1, <2>1, <3>2, <3>3 DEF Dead, Service, ExitStopped, ExitRecovery, ExitRestarting
    <3>5. QED BY <1>1, <3>4
  <2>9. CASE UNCHANGED svc
    BY <1>1, <2>9
  <2>10. [Next]_vars => \/ CallStart \/ CallStartArgs \/ service_start_if_not_disabled
                        \/ CallStop \/ (\E t \in Services : restart_service_if_needed(t))
                        \/ (\E p \in Pids : wait_for_one_process(p)) \/ UNCHANGED svc
    BY DEF Next, InitNext, CallNext, LoopNext, ClientNext, KernelNext, NotifyRestarting,
           OpenSignalPipe, queue_all_property_triggers, EnableTriggers, restart_processes,
           ScanDone, PollSignal, PollTimeout, ReapDone, PollRequest, ChildSetpgid, ChildExit,
           sigchld_handler, Tick, Recovering, vars
  <2>11. QED BY <1>1, <2>4, <2>5, <2>6, <2>7, <2>8, <2>9, <2>10
<1>2. Core /\ [Next]_vars =>
        [\A s \in Services :
            svc[s].disabled /\ ~svc'[s].disabled =>
               /\ calls # <<>>
               /\ Head(calls).op \in {"start", "start_args"} /\ Head(calls).svc = s]_vars
  BY <1>1
<1>3. QED BY <1>2, CoreHolds, PTL DEF Spec, StoppedStaysDown

-----------------------------------------------------------------------------
(* What the anchored crash window guarantees, for every threshold, window  *)
(* and history of exits.                                                   *)

CrashInv == CounterTypeOK /\ (~recovery => WindowInv /\ BoundedTolerance) /\ NoSpuriousRecovery

LEMMA InitCrash == CounterInit => CrashInv
<1> SUFFICES ASSUME CounterInit PROVE CrashInv
  OBVIOUS
<1> USE CrashAssumption
<1>1. exits = <<>> /\ exits \in Seq(Nat) /\ Len(exits) = 0 /\ 1 .. Len(exits) = {}
  BY DEF CounterInit
<1>2. CounterTypeOK
  <2>1. recovery \in BOOLEAN /\ ~recovery
    BY Zenon DEF CounterInit
  <2>2. /\ time_crashed \in Nat /\ nr_crashed \in Nat /\ clock \in Nat
        /\ nr_crashed <= CrashThreshold
    BY DEF CounterInit
  <2>3. QED BY <1>1, <2>1, <2>2 DEF CounterTypeOK
<1>3. WindowInv /\ BoundedTolerance /\ NoSpuriousRecovery
  BY <1>1 DEF CounterInit, WindowInv, BoundedTolerance, NoSpuriousRecovery
<1>4. QED BY <1>2, <1>3 DEF CrashInv

\* An exit that leaves the device up keeps the window invariant and the bound.
LEMMA CrashKeepsWindow ==
    ASSUME CrashInv, Crash, ~recovery'
    PROVE  WindowInv' /\ BoundedTolerance' /\ nr_crashed' <= CrashThreshold
<1> USE CrashAssumption
<1> DEFINE n == Len(exits)
<1>1. /\ CounterTypeOK /\ WindowInv /\ BoundedTolerance /\ ~recovery
      /\ exits \in Seq(Nat) /\ n \in Nat /\ nr_crashed \in Nat /\ time_crashed \in Nat
      /\ clock \in Nat
  BY DEF CrashInv, Crash, CounterTypeOK
<1>2. /\ exits' = Append(exits, clock) /\ Len(exits') = n + 1
      /\ exits'[n + 1] = clock
      /\ \A i \in 1 .. n : exits'[i] = exits[i] /\ exits[i] \in Nat
      /\ clock' = clock
  BY <1>1 DEF Crash
<1> HIDE DEF n
<1>3. CASE InWindow(time_crashed, clock)
  <2>1. /\ time_crashed' = time_crashed /\ nr_crashed' = nr_crashed + 1
        /\ clock <= time_crashed + CrashWindow /\ nr_crashed + 1 <= CrashThreshold
    <3>1. ~EntersRecovery(time_crashed, nr_crashed, clock)
      BY Zenon DEF Crash
    <3>2. QED BY <1>1, <1>3, <3>1 DEF Crash, InWindow, EntersRecovery, WindowAfter, CountAfter
  <2>2. WindowInv'
    BY <1>1, <1>2, <2>1 DEF WindowInv, n
  <2>3. BoundedTolerance'
    <3>1. SUFFICES ASSUME NEW i \in 1 .. n + 1, i + 2 * CrashThreshold <= n + 1
                   PROVE  exits'[i + 2 * CrashThreshold] > exits'[i] + CrashWindow
      BY <1>2 DEF BoundedTolerance
    <3>2. CASE i + 2 * CrashThreshold <= n
      BY <1>1, <1>2, <3>2 DEF BoundedTolerance, n
    <3>3. CASE i + 2 * CrashThreshold = n + 1
      <4>1. i \in 1 .. n /\ i + CrashThreshold <= n - nr_crashed
        BY <1>1, <2>1, <3>3
      <4>2. exits[i] + CrashWindow < time_crashed
        BY <1>1, <4>1 DEF WindowInv, n
      <4>3. /\ exits'[n + 1] = clock /\ exits'[i] = exits[i] /\ exits[i] \in Nat
            /\ time_crashed <= clock
        BY <1>1, <1>2, <4>1 DEF WindowInv
        <4>4. exits'[i + 2 * CrashThreshold] = clock
          BY <3>3, <4>3
        <4>5. exits[i] + CrashWindow < clock
          <5>1. \A e \in Nat : e + CrashWindow < time_crashed => e + CrashWindow < clock
            BY <1>1, <4>3
          <5>2. QED BY <4>2, <4>3, <5>1
        <4>6. QED BY <4>3, <4>4, <4>5
    <3>4. QED BY <1>1, <3>1, <3>2, <3>3
  <2>4. QED BY <2>1, <2>2, <2>3
<1>4. CASE ~InWindow(time_crashed, clock)
  <2>1. /\ time_crashed' = clock /\ nr_crashed' = 1 /\ time_crashed + CrashWindow < clock
    BY <1>1, <1>4 DEF Crash, InWindow, WindowAfter, CountAfter
  <2>2. nr_crashed <= CrashThreshold
    BY <1>1 DEF CounterTypeOK
  <2>3. \A i \in 1 .. n : i <= n - nr_crashed => exits[i] + CrashWindow < clock
    BY <1>1, <1>2, <2>1 DEF WindowInv, n
  <2>4. WindowInv'
    <3>1. time_crashed' <= clock' /\ nr_crashed' <= Len(exits')
      BY <1>1, <1>2, <2>1
    <3>2. \A i \in 1 .. n + 1 : exits'[i] <= clock'
      BY <1>1, <1>2 DEF WindowInv, n
    <3>3. ASSUME NEW i \in 1 .. n + 1
          PROVE  /\ i > Len(exits') - nr_crashed' =>
                      time_crashed' <= exits'[i] /\ exits'[i] <= time_crashed' + CrashWindow
                 /\ i <= Len(exits') - nr_crashed' => exits'[i] <= time_crashed'
                 /\ i + CrashThreshold <= Len(exits') - nr_crashed' =>
                      exits'[i] + CrashWindow < time_crashed'
      <4>1. CASE i = n + 1
        BY <1>1, <1>2, <2>1, <4>1
      <4>2. CASE i \in 1 .. n
        BY <1>1, <1>2, <2>1, <2>2, <2>3, <3>2, <4>2
      <4>3. QED BY <1>1, <4>1, <4>2
    <3>4. QED BY <1>2, <3>1, <3>2, <3>3 DEF WindowInv
  <2>5. BoundedTolerance'
    <3>1. SUFFICES ASSUME NEW i \in 1 .. n + 1, i + 2 * CrashThreshold <= n + 1
                   PROVE  exits'[i + 2 * CrashThreshold] > exits'[i] + CrashWindow
      BY <1>2 DEF BoundedTolerance
    <3>2. CASE i + 2 * CrashThreshold <= n
      BY <1>1, <1>2, <3>2 DEF BoundedTolerance, n
    <3>3. CASE i + 2 * CrashThreshold = n + 1
      <4>1. i \in 1 .. n /\ i <= n - nr_crashed
        BY <1>1, <2>2, <3>3
      <4>2. QED BY <1>1, <1>2, <2>3, <3>3, <4>1
    <3>4. QED BY <1>1, <3>1, <3>2, <3>3
  <2>6. QED BY <2>1, <2>4, <2>5
<1>5. QED BY <1>3, <1>4

\* An exit that reboots is the last of CrashThreshold + 1 in one window.
LEMMA CrashReboots ==
    ASSUME CrashInv, Crash, recovery'
    PROVE  NoSpuriousRecovery'
<1> USE CrashAssumption
<1>1. /\ WindowInv /\ exits \in Seq(Nat) /\ Len(exits) \in Nat /\ nr_crashed \in Nat
      /\ time_crashed \in Nat /\ clock \in Nat /\ nr_crashed <= CrashThreshold
  BY DEF CrashInv, Crash, CounterTypeOK
<1>2. /\ exits' = Append(exits, clock) /\ nr_crashed + 1 > CrashThreshold
      /\ clock <= time_crashed + CrashWindow
  BY <1>1 DEF Crash, EntersRecovery, InWindow
<1>3. nr_crashed = CrashThreshold /\ Len(exits) >= CrashThreshold
  BY <1>1, <1>2 DEF WindowInv
<1> DEFINE j == Len(exits) + 1 - CrashThreshold
<1>4. /\ j \in 1 .. Len(exits) /\ Len(exits') = Len(exits) + 1
      /\ exits'[Len(exits')] = clock /\ exits'[j] = exits[j] /\ exits[j] \in Nat
  BY <1>1, <1>2, <1>3
<1>5. time_crashed <= exits[j]
  BY <1>1, <1>3, <1>4 DEF WindowInv
<1>6. QED BY <1>1, <1>2, <1>3, <1>4, <1>5 DEF NoSpuriousRecovery

LEMMA NextCrash == CrashInv /\ [CounterNext]_counter => CrashInv'
<1> SUFFICES ASSUME CrashInv, [CounterNext]_counter PROVE CrashInv'
  OBVIOUS
<1> USE CrashAssumption
<1>1. CASE SecondPasses
  <2>1. CounterTypeOK /\ WindowInv /\ BoundedTolerance /\ ~recovery
    BY <1>1 DEF CrashInv, SecondPasses
  <2>2. WindowInv'
    <3>1. clock' = clock + 1 /\ clock \in Nat /\ exits \in Seq(Nat) /\ time_crashed \in Nat
      BY <1>1, <2>1 DEF SecondPasses, CounterTypeOK
    <3>2. \A i \in 1 .. Len(exits) : exits[i] \in Nat /\ exits[i] <= clock
      BY <2>1, <3>1 DEF WindowInv
    <3>3. time_crashed <= clock' /\ \A i \in 1 .. Len(exits) : exits[i] <= clock'
      BY <2>1, <3>1, <3>2 DEF WindowInv
    <3>4. QED BY <1>1, <2>1, <3>3 DEF SecondPasses, WindowInv
  <2>3. QED BY <1>1, <2>1, <2>2 DEF CrashInv, SecondPasses, CounterTypeOK, BoundedTolerance, NoSpuriousRecovery
<1>2. CASE Crash
  <2>1. CounterTypeOK'
    <3>1. CASE recovery'
      BY <1>2, <3>1
         DEF CrashInv, Crash, CounterTypeOK, EntersRecovery, WindowAfter, CountAfter
    <3>2. CASE ~recovery'
      BY <1>2, <3>2, CrashKeepsWindow
         DEF CrashInv, Crash, CounterTypeOK, EntersRecovery, WindowAfter, CountAfter
    <3>3. QED BY <3>1, <3>2
  <2>2. QED BY <1>2, <2>1, CrashKeepsWindow, CrashReboots DEF CrashInv, NoSpuriousRecovery
<1>3. CASE UNCHANGED counter
  BY <1>3 DEF CrashInv, counter, CounterTypeOK, WindowInv, BoundedTolerance, NoSpuriousRecovery
<1>4. QED BY <1>1, <1>2, <1>3 DEF CounterNext

LEMMA CrashInvariance == CounterSpec => []CrashInv
  BY InitCrash, NextCrash, PTL DEF CounterSpec

\* The device never reboots unless the service exited more than CrashThreshold
\* times within CrashWindow seconds.
THEOREM RecoveryIsNeverSpurious == CounterSpec => []NoSpuriousRecovery
<1>1. CrashInv => NoSpuriousRecovery
  BY DEF CrashInv
<1>2. QED BY <1>1, CrashInvariance, PTL

\* No CrashWindow seconds hold more than twice CrashThreshold exits without a
\* reboot: what is left of the promise once the window is anchored.
THEOREM ToleranceIsBounded == CounterSpec => []BoundedTolerance
<1>1. CrashInv => BoundedTolerance
  BY DEF CrashInv, BoundedTolerance
<1>2. QED BY <1>1, CrashInvariance, PTL

\* The types, and the counter at or below the threshold while the device is up.
THEOREM CounterTypeCorrect == CounterSpec => []CounterTypeOK
<1>1. CrashInv => CounterTypeOK
  BY DEF CrashInv
<1>2. QED BY <1>1, CrashInvariance, PTL
=============================================================================
