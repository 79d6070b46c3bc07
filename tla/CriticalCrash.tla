---------------------------- MODULE CriticalCrash ---------------------------
(***************************************************************************)
(* The crash counter of one critical service over its whole life, with the *)
(* seconds of all its exits kept as a history: what the anchored window of *)
(* wait_for_one_process promises about sliding windows of four minutes.    *)
(***************************************************************************)
EXTENDS CrashCounter, Sequences

CONSTANTS
    LastSecond,  \* bound: the clock stops here
    MaxExits     \* bound: exits recorded

ASSUME CriticalAssumption == LastSecond \in Nat /\ MaxExits \in Nat

VARIABLES
    time_crashed, nr_crashed,   \* struct service
    clock,                      \* CLOCK_MONOTONIC, in seconds
    exits,                      \* history: the second of every counted exit
    recovery                    \* init has called reboot

counter == <<time_crashed, nr_crashed, clock, exits, recovery>>

CounterInit ==
    /\ time_crashed = 0 /\ nr_crashed = 0
    /\ clock = 0
    /\ exits = <<>>
    /\ recovery = FALSE

SecondPasses ==
    /\ clock < LastSecond /\ ~recovery
    /\ clock' = clock + 1
    /\ UNCHANGED <<time_crashed, nr_crashed, exits, recovery>>

\* Mutants: the count survives the end of its window; the threshold is off by one.
Crash_NoReset ==
    /\ ~recovery /\ Len(exits) < MaxExits
    /\ exits' = Append(exits, clock)
    /\ recovery' = (nr_crashed + 1 > CrashThreshold)
    /\ nr_crashed' = nr_crashed + 1
    /\ time_crashed' = WindowAfter(time_crashed, clock)
    /\ UNCHANGED clock
Crash_OffByOne ==
    /\ ~recovery /\ Len(exits) < MaxExits
    /\ exits' = Append(exits, clock)
    /\ recovery' = (InWindow(time_crashed, clock) /\ nr_crashed > CrashThreshold)
    /\ nr_crashed' = CountAfter(time_crashed, nr_crashed, clock)
    /\ time_crashed' = WindowAfter(time_crashed, clock)
    /\ UNCHANGED clock

\* One exit of the service while it is not disabled.
Crash ==
    /\ ~recovery /\ Len(exits) < MaxExits
    /\ exits' = Append(exits, clock)
    /\ recovery' = EntersRecovery(time_crashed, nr_crashed, clock)
    /\ nr_crashed' = CountAfter(time_crashed, nr_crashed, clock)
    /\ time_crashed' = WindowAfter(time_crashed, clock)
    /\ UNCHANGED clock

CounterNext == SecondPasses \/ Crash

CounterSpec == CounterInit /\ [][CounterNext]_counter

-----------------------------------------------------------------------------

\* The type of every variable; the counter stays below the threshold until the
\* reboot.
CounterTypeOK ==
    /\ time_crashed \in Nat
    /\ nr_crashed \in Nat
    /\ clock \in Nat
    /\ exits \in Seq(Nat)
    /\ recovery \in BOOLEAN
    /\ ~recovery => nr_crashed <= CrashThreshold

\* The device reboots only after more than CrashThreshold exits that all fall
\* within CrashWindow seconds (the comment at CRITICAL_CRASH_THRESHOLD).
NoSpuriousRecovery ==
    recovery =>
        /\ Len(exits) > CrashThreshold
        /\ exits[Len(exits)] <= exits[Len(exits) - CrashThreshold] + CrashWindow

\* Twice the threshold is the most exits any CrashWindow seconds can hold
\* without a reboot: one exit more always reboots.
BoundedTolerance ==
    ~recovery =>
        \A i \in 1 .. Len(exits) :
            i + 2 * CrashThreshold <= Len(exits) =>
                exits[i + 2 * CrashThreshold] > exits[i] + CrashWindow


\* The strengthening the proofs use: the exits of the open window lie in it;
\* those before it are not later than its opening; and of those, all but the
\* last CrashThreshold are more than a window older than its opening.
WindowInv ==
    /\ time_crashed <= clock
    /\ nr_crashed <= Len(exits)
    /\ \A i \in 1 .. Len(exits) : exits[i] <= clock
    /\ \A i \in 1 .. Len(exits) :
          /\ i > Len(exits) - nr_crashed =>
                time_crashed <= exits[i] /\ exits[i] <= time_crashed + CrashWindow
          /\ i <= Len(exits) - nr_crashed => exits[i] <= time_crashed
          /\ i + CrashThreshold <= Len(exits) - nr_crashed =>
                exits[i] + CrashWindow < time_crashed
=============================================================================
