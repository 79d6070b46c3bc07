---------------------------- MODULE MCSupervisor ----------------------------
(* Instances of Supervisor for TLC: what init.rc says, and what clients ask. *)
EXTENDS Supervisor, SequencesExt

CONSTANTS zygote, media, p1, p2, p3

NoCommands == [s \in Services |-> <<>>]
NoTriggers == [s \in Services |-> [st \in States |-> <<>>]]
MCBootTriggers ==
    LET order == SetToSeq(Services)
    IN  [state \in [Services -> States] |->
           FlattenSeq([i \in DOMAIN order |-> Trigger[order[i]][state[order[i]]]])]
MCEmpty == <<>>
PidSymmetry == Permutations(Pids)

\* zygote is critical and its exit restarts media, as in the stock init.rc.
CoreBoot == do_class_start(<<zygote, media>>)
CoreOnRestart == [NoCommands EXCEPT ![zygote] = do_restart(media)]
CoreRequests == {do_stop(zygote), do_start(zygote), do_stop(media), do_start(media)}

\* Triggers on init.svc.* nest calls inside other calls.
CoreTriggers ==
    [NoTriggers EXCEPT ![zygote]["stopping"] = do_stop(media),
                       ![zygote]["running"] = do_start(media)]

\* media is a one-shot that takes arguments; zygote takes none.
ArgsOf(s) == <<[op |-> "start_args", svc |-> s]>>
OptionBoot == do_class_start(<<zygote, media>>)
OptionRequests == {ArgsOf(media), ArgsOf(zygote), do_restart(zygote)}

=============================================================================
