------------------------------ MODULE RilProofs ------------------------------
(***************************************************************************)
(* Safety of the event loop, the client socket and the wake lock of Ril,   *)
(* for any instance, any number of blocks, requests and connections, and a *)
(* table of at least four slots.                                           *)
(*                                                                         *)
(* Shape says what a thread has on its stack; the other parts of RilInv    *)
(* say, for every instruction still to be carried out, what it may rely    *)
(* on.  Most steps leave most parts alone: the lemmas called ..Kept say    *)
(* from the instructions that a step takes off and puts on the stack when. *)
(***************************************************************************)
EXTENDS Ril, FiniteSetTheorems, SequenceTheorems, TLAPS

Events == {"wakeup", "listen", "debug", "commands"}
Frames == [nitz : Nat \union {Null}, stash : BOOLEAN]

\* The instructions and what they carry.
Plain == {"ril_event_init", "ril_event_loop", "enter", "select", "wakeup", "listen", "debug",
          "commands", "checkCredentials", "sendNITZ", "freeNITZ", "closeCommand",
          "issueLocalRequest", "RIL_startEventLoop", "RIL_Init", "RIL_register",
          "triggerEvLoop", "timer", "schedule", "grabPartialWakeLock", "releaseWakeLock"}
OfBlock == {"last", "cancel", "userTimerCallback", "free"}
Instructions ==
    [op : Plain]
    \union [op : {"add"}, event : {"wakeup", "listen", "debug"}]
    \union [op : OfBlock, block : Blocks]
    \union [op : {"send", "header", "close"}, frame : Frames]
    \union [op : {"payload"}, frame : Frames, conn : Conns]
    \union [op : {"stash"}, nitz : Nat \union {Null}]
    \union [op : {"complete"}, request : Requests]

\* What V executes, and what E does not.
OfV == {"complete", "send", "header", "payload", "close", "stash", "grabPartialWakeLock",
        "releaseWakeLock", "schedule", "cancel", "timer", "triggerEvLoop", "last"}
NotOfE == {"triggerEvLoop", "RIL_startEventLoop", "RIL_Init", "RIL_register"}

\* What may wait under another instruction.
Under == {"add", "ril_event_loop", "wakeup", "listen", "debug", "commands", "userTimerCallback",
          "sendNITZ", "freeNITZ", "closeCommand", "issueLocalRequest", "triggerEvLoop", "timer",
          "last", "schedule", "send", "releaseWakeLock"}

\* A stack: which instructions are on top, which are the last, which come at most
\* once, and what follows those that cannot be alone.
Shape(w) ==
    /\ \A i \in DOMAIN w : i > 1 => w[i].op \in Under
    /\ \A i \in DOMAIN w : w[i].op \in {"ril_event_loop", "enter", "select"} => i = Len(w)
    /\ \A i \in DOMAIN w : w[i].op = "cancel" =>
            \E j \in DOMAIN w : j > i /\ w[j].op = "timer"
    /\ \A i \in DOMAIN w : w[i].op = "grabPartialWakeLock" =>
            \E j \in DOMAIN w : j > i /\ w[j].op \in {"schedule", "releaseWakeLock"}
    /\ \A i, j \in DOMAIN w : w[i].op = w[j].op =>
            i = j \/ w[i].op \notin {"listen", "debug", "commands", "add"}
    /\ \A i, j \in DOMAIN w : w[i].op \in {"userTimerCallback", "free"} /\ w[j].op \in {"userTimerCallback", "free"} =>
            i = j \/ w[i].block # w[j].block

StackInv ==
    /\ work \in [Threads -> Seq(Instructions)]
    /\ Shape(work[E]) /\ Shape(work[V])
    /\ \A i \in DOMAIN work[V] : work[V][i].op \in OfV
    /\ \A i \in DOMAIN work[E] : work[E][i].op \notin NotOfE
    /\ \A i \in DOMAIN work[E] : work[E][i].op = "add" => work[E][i].event = "wakeup"
    \* main() has its last instructions left.
    /\ Len(work[M]) <= Len(main)
    /\ \A i \in DOMAIN work[M] : work[M][i] = main[i + Len(main) - Len(work[M])]
    /\ dead => \A t \in Threads : work[t] = <<>>

LoopTypes ==
    /\ scenario \in Scenarios
    /\ dead \in BOOLEAN /\ ended \in BOOLEAN /\ wake \in BOOLEAN
    /\ watch \in [1..MAX_FD_EVENTS -> Events \union {Null}]
    /\ \A i, j \in slots : watch[i] = watch[j] => i = j \/ watch[i] = Null
    /\ sel \in [fds : SUBSET Events, wait : BOOLEAN, sock : Conns \union {Null}]
    /\ debug \in {"off", "local", "on", "unsol", Null}
    /\ used \in [commands : Nat, events : Nat, faults : Nat, debugs : Nat]
    /\ used.commands <= scenario.commands /\ used.events <= scenario.events
ClientTypes ==
    /\ client \in [Conns -> {"none", "open", "gone"}]
    /\ backlog \in Seq(Conns) /\ inbox \in [Conns -> Int]
    /\ fdCommand \in BOOLEAN /\ sock \in Conns \union {Null} /\ cut \in BOOLEAN
    /\ request \in [Requests -> [conn : Conns \union {Null}, local : BOOLEAN, cancelled : BOOLEAN, pending : BOOLEAN]]
    /\ vendor \subseteq Requests
    /\ stash \in Nat \union {Null} /\ writer \in Threads \union {Null}
    /\ stream \in [Conns -> {"whole", "orphan", E, V}]

\* The timers in the list and those being fired have each memory of their own.
TimerInv ==
    /\ timers \in Seq(Blocks) /\ IsInjective(timers)
    /\ block \in [Blocks -> {Free, "armed", "cancelled"}] /\ last \in Blocks \union {Null}
    /\ lock \in BOOLEAN
    /\ \A i \in DOMAIN timers : block[timers[i]] # Free
    /\ \A i \in DOMAIN work[E] : work[E][i].op \in {"userTimerCallback", "free"} =>
            /\ block[work[E][i].block] # Free
            /\ \A j \in DOMAIN timers : timers[j] # work[E][i].block

\* Whether the loop listens, or will when it comes to what it has left to do.
Listening == "listen" \in Watched \/ Has(E, {"listen"}) \/ Len(work[M]) >= 4

\* Either the loop listens, and has no client; or it looks at who has come; or it
\* watches the client's socket.
TableInv ==
    /\ ~("listen" \in Watched /\ Has(E, {"listen"}))
    /\ Len(work[M]) >= 4 => "listen" \notin Watched /\ ~Has(E, {"listen"})
    /\ Listening => ~fdCommand /\ "commands" \notin Watched /\ ~Has(E, {"checkCredentials"})
    /\ Has(E, {"commands"}) => "commands" \in Watched
    /\ Has(E, {"checkCredentials"}) => fdCommand /\ "commands" \notin Watched
    /\ "commands" \in Watched /\ sock = Null => cut
    /\ ~fdCommand => sock = Null
    /\ Has(E, {"enter", "select"}) => sel.fds \subseteq Watched
    /\ Has(E, {"debug"}) => debug # Null
    /\ ended => work[E] = <<>> /\ cut
    /\ "wakeup" \in Watched \/ Has(E, {"add"}) \/ work[E] = <<>>
    /\ Has(E, {"add"}) => "wakeup" \notin Watched
    /\ Len(work[M]) >= 2 => "debug" \notin Watched

\* Whose half frames there are.
Writing(t) == At(t, "payload") \/ At(t, "close")
StreamInv ==
    /\ \A i \in DOMAIN backlog :
            client[backlog[i]] # "none" /\ stream[backlog[i]] = "whole" /\ backlog[i] # sock
    /\ \A i, j \in DOMAIN backlog : backlog[i] = backlog[j] => i = j
    /\ \A c \in Conns : client[c] = "none" => stream[c] = "whole" /\ c # sock
    /\ \A t \in {E, V} : Writing(t) => writer = t
    /\ writer # Null => dead \/ (writer \in {E, V} /\ Writing(writer))
    /\ sock # Null => \/ dead
                      \/ stream[sock] \in {"whole", "orphan"}
                      \/ /\ writer # Null /\ stream[sock] = writer
                         /\ At(writer, "payload") => Head(work[writer]).conn = sock
    /\ \A t \in {E, V} : At(t, "payload") /\ Head(work[t]).conn = sock => stream[sock] \in {t, "orphan"}
    /\ \A t \in {E, V} : At(t, "payload") =>
            /\ client[Head(work[t]).conn] # "none"
            /\ \A i \in DOMAIN backlog : backlog[i] # Head(work[t]).conn

Current(r) == request[r].pending /\ ~request[r].local /\ ~request[r].cancelled
RequestInv ==
    /\ PendingIsCurrent
    /\ Listening => \A r \in Requests : ~Current(r)

RilInv == /\ StackInv /\ LoopTypes /\ ClientTypes /\ TimerInv /\ TableInv /\ StreamInv /\ RequestInv
          /\ NoLostWakeup /\ LockReleased

-----------------------------------------------------------------------------
(* Stacks. *)

LEMMA Fields ==
    ASSUME NEW x \in Instructions
    PROVE  /\ x.op \in Plain \union OfBlock \union {"add", "send", "header", "close", "payload", "stash", "complete"}
           /\ x.op \in OfBlock => x.block \in Blocks
           /\ x.op \in {"send", "header", "close", "payload"} => x.frame \in Frames
           /\ x.op = "payload" => x.conn \in Conns
           /\ x.op = "add" => x.event \in {"wakeup", "listen", "debug"}
           /\ x.op = "stash" => x.nitz \in Nat \union {Null}
           /\ x.op = "complete" => x.request \in Requests
  BY DEF Instructions, OfBlock, Plain

LEMMA Made ==
    /\ \A op \in Plain : I(op) \in Instructions /\ I(op).op = op
    /\ \A op \in OfBlock, b \in Blocks : [op |-> op, block |-> b] \in Instructions
    /\ \A op \in {"send", "header", "close"}, f \in Frames : [op |-> op, frame |-> f] \in Instructions
    /\ \A f \in Frames, c \in Conns : [op |-> "payload", frame |-> f, conn |-> c] \in Instructions
    /\ \A n \in Nat \union {Null} : [op |-> "stash", nitz |-> n] \in Instructions
    /\ \A r \in Requests : [op |-> "complete", request |-> r] \in Instructions
    /\ \A e \in {"wakeup", "listen", "debug"} : Add(e) \in Instructions /\ Add(e).op = "add" /\ Add(e).event = e
  BY DEF Instructions, I, Add

\* What is left of a stack when its top gives way to others.
Pushed(ins, w) == ins \o Tail(w)

LEMMA PushedIs ==
    ASSUME NEW ins \in Seq(Instructions), NEW w \in Seq(Instructions), w # <<>>
    PROVE  /\ Pushed(ins, w) \in Seq(Instructions)
           /\ Len(ins) \in Nat /\ Len(w) \in Nat \ {0} /\ Head(w) = w[1]
           /\ Len(Pushed(ins, w)) = Len(ins) + Len(w) - 1
           /\ DOMAIN Pushed(ins, w) = 1..(Len(ins) + Len(w) - 1)
           /\ DOMAIN ins = 1..Len(ins) /\ DOMAIN w = 1..Len(w)
           /\ \A i \in 1..Len(ins) : Pushed(ins, w)[i] = ins[i]
           /\ \A i \in 1..(Len(ins) + Len(w) - 1) : i > Len(ins) => Pushed(ins, w)[i] = w[i - Len(ins) + 1]
           /\ \A j \in 2..Len(w) : Pushed(ins, w)[j + Len(ins) - 1] = w[j]
<1>1. Tail(w) \in Seq(Instructions) /\ Len(Tail(w)) = Len(w) - 1 /\ \A i \in 1..(Len(w) - 1) : Tail(w)[i] = w[i + 1]
  BY HeadTailProperties
<1>2. /\ Pushed(ins, w) \in Seq(Instructions) /\ Len(Pushed(ins, w)) = Len(ins) + Len(Tail(w))
      /\ \A i \in 1..(Len(ins) + Len(Tail(w))) :
            Pushed(ins, w)[i] = IF i <= Len(ins) THEN ins[i] ELSE Tail(w)[i - Len(ins)]
  BY <1>1, ConcatProperties DEF Pushed
<1>3. Len(ins) \in Nat /\ Len(w) \in Nat \ {0} /\ Head(w) = w[1] /\ DOMAIN ins = 1..Len(ins) /\ DOMAIN w = 1..Len(w)
  BY EmptySeq
<1>4. DOMAIN Pushed(ins, w) = 1..(Len(ins) + Len(w) - 1)
  BY <1>1, <1>2, <1>3
<1>5. ASSUME NEW i \in 1..Len(ins) PROVE Pushed(ins, w)[i] = ins[i]
  BY <1>1, <1>2, <1>3
<1>6. ASSUME NEW i \in 1..(Len(ins) + Len(w) - 1), i > Len(ins) PROVE Pushed(ins, w)[i] = w[i - Len(ins) + 1]
  <2>1. i - Len(ins) \in 1..(Len(w) - 1) /\ ~(i <= Len(ins))
    BY <1>3, <1>6
  <2> QED
    BY <1>1, <1>2, <1>3, <2>1
<1>7. ASSUME NEW j \in 2..Len(w) PROVE Pushed(ins, w)[j + Len(ins) - 1] = w[j]
  <2>1. /\ j + Len(ins) - 1 \in 1..(Len(ins) + Len(w) - 1) /\ j + Len(ins) - 1 > Len(ins)
        /\ (j + Len(ins) - 1) - Len(ins) + 1 = j
    BY <1>3
  <2> QED
    BY <1>6, <2>1
<1> QED
  BY <1>1, <1>2, <1>3, <1>4, <1>5, <1>6, <1>7

\* The same, of a stack v.
Over(v, ins, w) ==
    /\ Len(ins) \in Nat /\ Len(w) \in Nat \ {0} /\ Head(w) = w[1] /\ 1 \in DOMAIN w
    /\ Len(v) = Len(ins) + Len(w) - 1
    /\ DOMAIN v = 1..(Len(ins) + Len(w) - 1)
    /\ DOMAIN ins = 1..Len(ins) /\ DOMAIN w = 1..Len(w)
    /\ \A i \in 1..Len(ins) : v[i] = ins[i]
    /\ \A i \in 1..(Len(ins) + Len(w) - 1) : i > Len(ins) => v[i] = w[i - Len(ins) + 1]
    /\ \A j \in 2..Len(w) : v[j + Len(ins) - 1] = w[j]

LEMMA PushedOver ==
    ASSUME NEW ins \in Seq(Instructions), NEW w \in Seq(Instructions), w # <<>>
    PROVE  Over(Pushed(ins, w), ins, w)
<1>1. 1 \in DOMAIN w
  BY EmptySeq
<1> QED
  BY <1>1, PushedIs DEF Over

\* Each instruction of it was put there, or was under the top.
LEMMA From ==
    ASSUME NEW ins, NEW w, NEW v, Over(v, ins, w), NEW i \in DOMAIN v
    PROVE  \/ i \in DOMAIN ins /\ v[i] = ins[i]
           \/ /\ i > Len(ins) /\ i - Len(ins) + 1 \in DOMAIN w
              /\ i - Len(ins) + 1 > 1 /\ v[i] = w[i - Len(ins) + 1]
  BY DEF Over

LEMMA Stays ==
    ASSUME NEW ins, NEW w, NEW v, Over(v, ins, w), NEW j \in DOMAIN w, j # 1
    PROVE  j + Len(ins) - 1 \in DOMAIN v /\ v[j + Len(ins) - 1] = w[j]
  BY DEF Over

\* What may be put on a stack.
Fits(ins, w) ==
    /\ \A i \in DOMAIN ins : i > 1 => ins[i].op \in Under
    /\ \A i \in DOMAIN ins : ins[i].op \notin {"ril_event_loop", "enter", "select", "listen", "debug", "add", "userTimerCallback"}
    /\ \A i \in DOMAIN ins : ins[i].op = "cancel" => \E j \in DOMAIN ins : j > i /\ ins[j].op = "timer"
    /\ \A i \in DOMAIN ins : ins[i].op = "grabPartialWakeLock" =>
            \E j \in DOMAIN ins : j > i /\ ins[j].op \in {"schedule", "releaseWakeLock"}
    /\ \A i \in DOMAIN ins : ins[i].op = "commands" => Head(w).op = "commands" /\ i = Len(ins)
    /\ \A i \in DOMAIN ins : ins[i].op = "free" =>
            i = 1 /\ Head(w).op = "userTimerCallback" /\ ins[i].block = Head(w).block

LEMMA ShapeKept ==
    ASSUME NEW ins \in Seq(Instructions), NEW w \in Seq(Instructions), w # <<>>, Shape(w), Fits(ins, w)
    PROVE  Shape(Pushed(ins, w))
<1> DEFINE v == Pushed(ins, w)
           n == Len(ins)
<1>1. /\ v \in Seq(Instructions) /\ n \in Nat /\ Len(w) \in Nat \ {0} /\ Head(w) = w[1]
      /\ Len(v) = n + Len(w) - 1 /\ DOMAIN v = 1..(n + Len(w) - 1)
      /\ DOMAIN ins = 1..n /\ DOMAIN w = 1..Len(w)
      /\ \A i \in 1..n : v[i] = ins[i]
      /\ \A i \in 1..(n + Len(w) - 1) : i > n => v[i] = w[i - n + 1]
      /\ \A j \in 2..Len(w) : v[j + n - 1] = w[j]
  <2>1. /\ Pushed(ins, w) \in Seq(Instructions)
        /\ Len(ins) \in Nat /\ Len(w) \in Nat \ {0} /\ Head(w) = w[1]
        /\ Len(Pushed(ins, w)) = Len(ins) + Len(w) - 1
        /\ DOMAIN Pushed(ins, w) = 1..(Len(ins) + Len(w) - 1)
        /\ DOMAIN ins = 1..Len(ins) /\ DOMAIN w = 1..Len(w)
        /\ \A i \in 1..Len(ins) : Pushed(ins, w)[i] = ins[i]
        /\ \A i \in 1..(Len(ins) + Len(w) - 1) : i > Len(ins) => Pushed(ins, w)[i] = w[i - Len(ins) + 1]
        /\ \A j \in 2..Len(w) : Pushed(ins, w)[j + Len(ins) - 1] = w[j]
    BY PushedIs
  <2> QED
    BY <2>1
<1> HIDE DEF v, n
<1>9. 1 \in DOMAIN w
  BY <1>1
\* Where an instruction of the new stack comes from.
<1>2. ASSUME NEW i \in DOMAIN v
      PROVE  \/ i \in DOMAIN ins /\ v[i] = ins[i]
             \/ i > n /\ i - n + 1 \in DOMAIN w /\ i - n + 1 > 1 /\ v[i] = w[i - n + 1]
  BY <1>1
<1>3. ASSUME NEW i \in DOMAIN v, i > 1 PROVE v[i].op \in Under
  BY <1>2, <1>3 DEF Fits, Shape
<1>4. ASSUME NEW i \in DOMAIN v, v[i].op \in {"ril_event_loop", "enter", "select"} PROVE i = Len(v)
  <2>1. i > n /\ i - n + 1 \in DOMAIN w /\ v[i] = w[i - n + 1]
    BY <1>2, <1>4 DEF Fits
  <2>2. i - n + 1 = Len(w)
    BY <1>4, <2>1 DEF Shape
  <2> QED
    BY <1>1, <2>1, <2>2
<1>5. ASSUME NEW i \in DOMAIN v, v[i].op = "cancel" PROVE \E j \in DOMAIN v : j > i /\ v[j].op = "timer"
  <2>1. i \in DOMAIN ins /\ v[i] = ins[i]
    BY <1>2, <1>5 DEF Shape, Under
  <2>2. PICK j \in DOMAIN ins : j > i /\ ins[j].op = "timer"
    BY <1>5, <2>1 DEF Fits
  <2> QED
    BY <1>1, <2>2
<1>6. ASSUME NEW i \in DOMAIN v, v[i].op = "grabPartialWakeLock"
      PROVE  \E j \in DOMAIN v : j > i /\ v[j].op \in {"schedule", "releaseWakeLock"}
  <2>1. i \in DOMAIN ins /\ v[i] = ins[i]
    BY <1>2, <1>6 DEF Shape, Under
  <2>2. PICK j \in DOMAIN ins : j > i /\ ins[j].op \in {"schedule", "releaseWakeLock"}
    BY <1>6, <2>1 DEF Fits
  <2> QED
    BY <1>1, <2>2
<1>7. ASSUME NEW i \in DOMAIN v, NEW j \in DOMAIN v, v[i].op = v[j].op
      PROVE  i = j \/ v[i].op \notin {"listen", "debug", "commands", "add"}
  <2>1. SUFFICES ASSUME v[i].op \in {"listen", "debug", "commands", "add"} PROVE i = j
    OBVIOUS
  <2>2. CASE i \in DOMAIN ins /\ v[i] = ins[i]
    <3>1. v[i].op = "commands" /\ Head(w).op = "commands" /\ i = n
      BY <2>1, <2>2 DEF Fits, n
    <3>2. CASE j \in DOMAIN ins /\ v[j] = ins[j]
      BY <1>7, <3>1, <3>2 DEF Fits, n
    <3>3. CASE j > n /\ j - n + 1 \in DOMAIN w /\ j - n + 1 > 1 /\ v[j] = w[j - n + 1]
      <4>1. w[1].op = "commands" /\ w[j - n + 1].op = "commands"
        BY <1>1, <1>7, <3>1, <3>3
      <4> QED
        BY <1>9, <3>3, <4>1 DEF Shape
    <3> QED
      BY <1>2, <3>2, <3>3
  <2>3. CASE i > n /\ i - n + 1 \in DOMAIN w /\ i - n + 1 > 1 /\ v[i] = w[i - n + 1]
    <3>2. CASE j \in DOMAIN ins /\ v[j] = ins[j]
      <4>1. v[j].op = "commands" /\ Head(w).op = "commands"
        BY <1>7, <2>1, <3>2 DEF Fits
      <4> QED
        <5>1. w[1].op = "commands" /\ w[i - n + 1].op = "commands"
          BY <1>1, <1>7, <2>3, <4>1
        <5> QED
          BY <1>9, <2>3, <5>1 DEF Shape
    <3>3. CASE j > n /\ j - n + 1 \in DOMAIN w /\ j - n + 1 > 1 /\ v[j] = w[j - n + 1]
      <4>1. i - n + 1 = j - n + 1
        BY <1>7, <2>1, <2>3, <3>3 DEF Shape
      <4> QED
        BY <1>1, <4>1
    <3> QED
      BY <1>2, <3>2, <3>3
  <2> QED
    BY <1>2, <2>2, <2>3
<1>8. ASSUME NEW i \in DOMAIN v, NEW j \in DOMAIN v,
             v[i].op \in {"userTimerCallback", "free"}, v[j].op \in {"userTimerCallback", "free"}
      PROVE  i = j \/ v[i].block # v[j].block
  <2> DEFINE Old(k) == k > n /\ k - n + 1 \in DOMAIN w /\ k - n + 1 > 1 /\ v[k] = w[k - n + 1]
             New(k) == k = 1 /\ Head(w).op = "userTimerCallback" /\ v[k].block = Head(w).block
  <2>1. ASSUME NEW k \in DOMAIN v, v[k].op \in {"userTimerCallback", "free"}
        PROVE  Old(k) \/ New(k)
    BY <1>2, <2>1 DEF Fits
  <2>2. CASE New(i) /\ New(j)
    BY <2>2
  <2>3. CASE New(i) /\ Old(j)
    <3>1. w[1].op = "userTimerCallback" /\ v[i].block = w[1].block
      BY <1>1, <2>3
    <3>2. w[j - n + 1].block # w[1].block
      BY <1>8, <1>9, <2>3, <3>1 DEF Shape
    <3> QED
      BY <2>3, <3>1, <3>2
  <2>4. CASE Old(i) /\ New(j)
    <3>1. w[1].op = "userTimerCallback" /\ v[j].block = w[1].block
      BY <1>1, <2>4
    <3>2. w[i - n + 1].block # w[1].block
      BY <1>8, <1>9, <2>4, <3>1 DEF Shape
    <3> QED
      BY <2>4, <3>1, <3>2
  <2>5. CASE Old(i) /\ Old(j)
    <3>1. i - n + 1 = j - n + 1 \/ v[i].block # v[j].block
      BY <1>8, <2>5 DEF Shape
    <3> QED
      BY <1>1, <3>1
  <2> QED
    BY <1>8, <2>1, <2>2, <2>3, <2>4, <2>5
<1> QED
  BY <1>3, <1>4, <1>5, <1>6, <1>7, <1>8 DEF Shape, v

\* A step of E or V that puts ins where the top of its stack was.
Move(t, ins) ==
    /\ t \in {E, V} /\ work[t] # <<>>
    /\ ins \in Seq(Instructions) /\ Goes(t, ins) /\ Fits(ins, work[t])
    /\ t = V => \A i \in DOMAIN ins : ins[i].op \in OfV
    /\ t = E => \A i \in DOMAIN ins : ins[i].op \notin NotOfE /\ ins[i].op # "add"

LEMMA MoveIs ==
    ASSUME StackInv, NEW t, NEW ins, Move(t, ins)
    PROVE  /\ t \in Threads /\ work[t] \in Seq(Instructions) /\ work[t] # <<>>
           /\ ins \in Seq(Instructions)
           /\ work' \in [Threads -> Seq(Instructions)]
           /\ work'[t] = Pushed(ins, work[t]) /\ Over(work'[t], ins, work[t])
           /\ \A q \in Threads : q # t => work'[q] = work[q]
<1>1. t \in Threads /\ work[t] \in Seq(Instructions) /\ work[t] # <<>> /\ ins \in Seq(Instructions)
  BY DEF Move, StackInv, Threads
<1>2. Pushed(ins, work[t]) \in Seq(Instructions)
  BY <1>1, PushedIs
<1>3. work' = [work EXCEPT ![t] = Pushed(ins, work[t])]
  BY DEF Move, Goes, Pushed
<1>4. Over(Pushed(ins, work[t]), ins, work[t])
  BY <1>1, PushedOver
<1>5. /\ work' \in [Threads -> Seq(Instructions)] /\ work'[t] = Pushed(ins, work[t])
      /\ \A q \in Threads : q # t => work'[q] = work[q]
  BY <1>1, <1>2, <1>3 DEF StackInv
<1> QED
  BY <1>1, <1>4, <1>5

LEMMA StackKept ==
    ASSUME StackInv, NEW t, NEW ins, Move(t, ins), dead' = dead
    PROVE  StackInv'
<1>1. /\ t \in Threads /\ work[t] \in Seq(Instructions) /\ work[t] # <<>>
      /\ ins \in Seq(Instructions)
      /\ work' \in [Threads -> Seq(Instructions)]
      /\ work'[t] = Pushed(ins, work[t]) /\ Over(work'[t], ins, work[t])
      /\ \A q \in Threads : q # t => work'[q] = work[q]
  BY MoveIs
<1>2. Shape(work[t]) /\ Fits(ins, work[t]) /\ t \in {E, V} /\ t # M /\ {E, V, M} = Threads /\ E # V
  BY DEF StackInv, Move, E, V, M, Threads
<1>3. Shape(work'[t])
  BY <1>1, <1>2, ShapeKept
<1>4. Shape(work'[E]) /\ Shape(work'[V]) /\ work'[M] = work[M]
  BY <1>1, <1>2, <1>3 DEF StackInv
<1>5. ASSUME NEW i \in DOMAIN work'[t]
      PROVE  \/ \E j \in DOMAIN ins : work'[t][i] = ins[j]
             \/ \E j \in DOMAIN work[t] : work'[t][i] = work[t][j]
  BY <1>1, From
<1>6. ASSUME NEW i \in DOMAIN work'[V] PROVE work'[V][i].op \in OfV
  <2>1. CASE t = V
    BY <1>1, <1>5, <2>1 DEF StackInv, Move
  <2>2. CASE t # V
    BY <1>1, <1>2, <2>2 DEF StackInv
  <2> QED
    BY <2>1, <2>2
<1>7. ASSUME NEW i \in DOMAIN work'[E]
      PROVE  work'[E][i].op \notin NotOfE /\ (work'[E][i].op = "add" => work'[E][i].event = "wakeup")
  <2>1. CASE t = E
    <3>1. CASE \E j \in DOMAIN ins : work'[E][i] = ins[j]
      BY <2>1, <3>1 DEF Move
    <3>2. CASE \E j \in DOMAIN work[E] : work'[E][i] = work[E][j]
      BY <3>2 DEF StackInv
    <3> QED
      BY <1>5, <2>1, <3>1, <3>2
  <2>2. CASE t # E
    BY <1>1, <1>2, <2>2 DEF StackInv
  <2> QED
    BY <2>1, <2>2
<1>8. ~dead
  BY <1>1 DEF StackInv
<1> QED
  BY <1>1, <1>4, <1>6, <1>7, <1>8 DEF StackInv

\* Where the instructions of a stack come from, and where they go.
LEMMA TokensOf ==
    ASSUME StackInv, NEW t, NEW ins, Move(t, ins), NEW ops
    PROVE  /\ Has(t, ops)' => Has(t, ops) \/ \E i \in DOMAIN ins : ins[i].op \in ops
           /\ Has(t, ops) => Has(t, ops)' \/ Head(work[t]).op \in ops
           /\ (\E i \in DOMAIN ins : ins[i].op \in ops) => Has(t, ops)'
           /\ \A q \in Threads : q # t => (Has(q, ops)' <=> Has(q, ops))
<1>1. /\ t \in Threads /\ work[t] \in Seq(Instructions) /\ work[t] # <<>>
      /\ ins \in Seq(Instructions)
      /\ work'[t] = Pushed(ins, work[t]) /\ Over(work'[t], ins, work[t])
      /\ \A q \in Threads : q # t => work'[q] = work[q]
  BY MoveIs
<1> DEFINE w == work[t]
           v == work'[t]
<1>2. Over(v, ins, w)
  BY <1>1
<1>3. Has(t, ops)' <=> \E i \in DOMAIN v : v[i].op \in ops
  BY <1>1 DEF Has
<1>4. Has(t, ops) <=> \E i \in DOMAIN w : w[i].op \in ops
  BY DEF Has
<1>8. Head(work[t]) = w[1]
  BY <1>2 DEF Over
<1> HIDE DEF w, v
<1>5. ASSUME NEW i \in DOMAIN v, v[i].op \in ops
      PROVE  (\E j \in DOMAIN w : w[j].op \in ops) \/ \E j \in DOMAIN ins : ins[j].op \in ops
  BY <1>2, <1>5, From
<1>6. ASSUME NEW j \in DOMAIN w, w[j].op \in ops, w[1].op \notin ops
      PROVE  \E i \in DOMAIN v : v[i].op \in ops
  BY <1>2, <1>6, Stays
<1>7. ASSUME NEW j \in DOMAIN ins, ins[j].op \in ops
      PROVE  \E i \in DOMAIN v : v[i].op \in ops
  <2>1. j \in DOMAIN v /\ v[j] = ins[j]
    BY <1>2 DEF Over
  <2> QED
    BY <1>7, <2>1
<1>9. ASSUME NEW q \in Threads, q # t PROVE Has(q, ops)' <=> Has(q, ops)
  BY <1>1, <1>9 DEF Has
<1> QED
  BY <1>3, <1>4, <1>5, <1>6, <1>7, <1>8, <1>9

\* What is under the top is never what only the top can be.
LEMMA TopOf ==
    ASSUME StackInv, NEW t, NEW ins, Move(t, ins), NEW op, op \notin Under, At(t, op)'
    PROVE  ins # <<>> /\ Len(ins) \in Nat \ {0} /\ 1 \in DOMAIN ins /\ ins[1].op = op /\ work'[t][1] = ins[1]
<1>1. /\ t \in Threads /\ work[t] \in Seq(Instructions) /\ work[t] # <<>>
      /\ ins \in Seq(Instructions) /\ Over(work'[t], ins, work[t]) /\ work'[t] \in Seq(Instructions)
  BY MoveIs
<1>2. Shape(work[t])
  BY DEF StackInv, Move
<1>3. /\ Len(ins) \in Nat /\ Len(work[t]) \in Nat \ {0}
      /\ DOMAIN work'[t] = 1..(Len(ins) + Len(work[t]) - 1)
      /\ DOMAIN ins = 1..Len(ins) /\ DOMAIN work[t] = 1..Len(work[t])
      /\ \A i \in 1..Len(ins) : work'[t][i] = ins[i]
      /\ \A i \in 1..(Len(ins) + Len(work[t]) - 1) : i > Len(ins) => work'[t][i] = work[t][i - Len(ins) + 1]
  BY <1>1 DEF Over
<1>4. work'[t] # <<>> /\ Head(work'[t]) = work'[t][1] /\ work'[t][1].op = op /\ 1 \in DOMAIN work'[t]
  BY <1>1 DEF At
<1>5. CASE Len(ins) = 0
  <2>1. work'[t][1] = work[t][2] /\ 2 \in DOMAIN work[t]
    BY <1>3, <1>4, <1>5
  <2>2. work[t][2].op \in Under
    BY <1>2, <2>1 DEF Shape
  <2> QED
    BY <1>4, <2>1, <2>2
<1>6. CASE Len(ins) # 0
  BY <1>1, <1>3, <1>4, <1>6
<1> QED
  BY <1>5, <1>6

-----------------------------------------------------------------------------
(* What a step that moves a stack leaves as it is. *)

LEMMA HeadIs ==
    ASSUME StackInv, NEW t \in Threads, NEW op, At(t, op)
    PROVE  /\ work[t] \in Seq(Instructions) /\ work[t] # <<>> /\ 1 \in DOMAIN work[t]
           /\ Head(work[t]) = work[t][1] /\ Head(work[t]) \in Instructions /\ Head(work[t]).op = op
<1>1. work[t] \in Seq(Instructions) /\ work[t] # <<>> /\ Head(work[t]).op = op
  BY DEF StackInv, At
<1> QED
  BY <1>1

LEMMA HasTop ==
    ASSUME StackInv, NEW t \in Threads, NEW op, At(t, op), NEW ops, op \in ops
    PROVE  Has(t, ops)
  BY HeadIs DEF Has

Tokens == {"listen", "checkCredentials", "commands", "debug", "enter", "select", "add"}

LEMMA TableSame ==
    ASSUME StackInv, TableInv, NEW t, NEW ins, Move(t, ins),
           UNCHANGED <<watch, fdCommand, sock, cut, ended, sel>>,
           Has(E, {"listen"})' <=> Has(E, {"listen"}), Has(E, {"add"})' <=> Has(E, {"add"}),
           Has(E, {"commands"})' => Has(E, {"commands"}),
           Has(E, {"checkCredentials"})' => Has(E, {"checkCredentials"}),
           Has(E, {"enter", "select"})' => Has(E, {"enter", "select"}),
           Has(E, {"debug"})' => debug' # Null
    PROVE  TableInv' /\ (Listening' <=> Listening)
<1>1. t \in Threads /\ t # M /\ work[t] # <<>> /\ E \in Threads /\ M \in Threads /\ t \in {E, V}
  BY DEF Move, Threads, E, V, M
<1>3. work'[M] = work[M]
  BY <1>1, MoveIs
<1>5. Watched' = Watched
  BY DEF Watched, slots
<1>6. Listening' <=> Listening
  BY <1>3, <1>5 DEF Listening
<1>7. work'[E] = work[E] \/ work[E] # <<>>
  BY <1>1, MoveIs
<1>8. (ended => work[E] = <<>> /\ cut)' /\ ("wakeup" \in Watched \/ Has(E, {"add"}) \/ work[E] = <<>>)'
  BY <1>1, <1>5, <1>7 DEF TableInv
<1> QED
  BY <1>3, <1>5, <1>6, <1>8 DEF TableInv

LEMMA TableKept ==
    ASSUME StackInv, TableInv, NEW t, NEW ins, Move(t, ins),
           UNCHANGED <<watch, fdCommand, sock, cut, ended, sel, debug>>,
           t = E => Head(work[E]).op \notin Tokens /\ \A i \in DOMAIN ins : ins[i].op \notin Tokens
    PROVE  TableInv' /\ (Listening' <=> Listening)
<1>1. t \in Threads /\ t # M /\ work[t] # <<>> /\ E \in Threads /\ M \in Threads /\ t \in {E, V}
  BY DEF Move, Threads, E, V, M
<1>2. ASSUME NEW ops \in SUBSET Tokens PROVE Has(E, ops)' <=> Has(E, ops)
  <2>1. CASE t = E
    BY <1>1, <2>1, TokensOf
  <2>2. CASE t # E
    BY <1>1, <2>2, TokensOf
  <2> QED
    BY <2>1, <2>2
<1>4. /\ (Has(E, {"listen"})' <=> Has(E, {"listen"}))
      /\ (Has(E, {"commands"})' <=> Has(E, {"commands"}))
      /\ (Has(E, {"checkCredentials"})' <=> Has(E, {"checkCredentials"}))
      /\ (Has(E, {"debug"})' <=> Has(E, {"debug"}))
      /\ (Has(E, {"add"})' <=> Has(E, {"add"}))
      /\ (Has(E, {"enter", "select"})' <=> Has(E, {"enter", "select"}))
  BY <1>2 DEF Tokens
<1>5. Has(E, {"debug"})' => debug' # Null
  BY <1>4 DEF TableInv
<1> QED
  BY <1>4, <1>5, TableSame

LEMMA StreamKept ==
    ASSUME StackInv, StreamInv, NEW t, NEW ins, Move(t, ins),
           UNCHANGED <<client, backlog, stream, sock, writer, dead>>,
           ~Writing(t), \A i \in DOMAIN ins : ins[i].op \notin {"payload", "close"}
    PROVE  StreamInv'
<1>1. t \in Threads /\ t \in {E, V} /\ {E, V} \subseteq Threads
  BY DEF Move, Threads
<1>2. ~At(t, "payload")' /\ ~At(t, "close")'
  BY TopOf DEF Under
<1>3. \A q \in {E, V} : q # t => work'[q] = work[q]
  BY <1>1, MoveIs
<1>4. \A q \in {E, V} : q # t => /\ (At(q, "payload")' <=> At(q, "payload"))
                                /\ (At(q, "close")' <=> At(q, "close"))
                                /\ (Writing(q)' <=> Writing(q))
  BY <1>3 DEF At, Writing
<1>5. ~Writing(t)' /\ ~At(t, "payload")
  BY <1>2 DEF Writing
<1>6. writer # Null => dead \/ (writer \in {E, V} /\ Writing(writer) /\ writer # t)
  BY DEF StreamInv
<1>7. (\A q \in {E, V} : Writing(q) => writer = q)'
  BY <1>4, <1>5 DEF StreamInv
<1>8. (writer # Null => dead \/ (writer \in {E, V} /\ Writing(writer)))'
  BY <1>4, <1>6
<1>9. (\A q \in {E, V} : At(q, "payload") /\ Head(work[q]).conn = sock => stream[sock] \in {q, "orphan"})'
  BY <1>2, <1>3, <1>4 DEF StreamInv
<1>10. (sock # Null => \/ dead
                       \/ stream[sock] \in {"whole", "orphan"}
                       \/ /\ writer # Null /\ stream[sock] = writer
                          /\ At(writer, "payload") => Head(work[writer]).conn = sock)'
  BY <1>3, <1>4, <1>6 DEF StreamInv
<1>11. (\A q \in {E, V} : At(q, "payload") =>
            /\ client[Head(work[q]).conn] # "none"
            /\ \A i \in DOMAIN backlog : backlog[i] # Head(work[q]).conn)'
  BY <1>2, <1>3, <1>4 DEF StreamInv
<1> QED
  BY <1>7, <1>8, <1>9, <1>10, <1>11 DEF StreamInv

LEMMA TimerKept ==
    ASSUME StackInv, TimerInv, NEW t, NEW ins, Move(t, ins),
           timers' = timers, last' \in Blocks \union {Null}, lock' \in BOOLEAN,
           block' \in [Blocks -> {Free, "armed", "cancelled"}],
           \A b \in Blocks : block[b] # Free => block'[b] # Free,
           t = E => \A i \in DOMAIN ins : ins[i].op \notin {"userTimerCallback", "free"}
    PROVE  TimerInv'
<1>1. /\ t \in Threads /\ work[t] \in Seq(Instructions) /\ work[t] # <<>>
      /\ ins \in Seq(Instructions)
      /\ Over(work'[t], ins, work[t])
      /\ \A q \in Threads : q # t => work'[q] = work[q]
      /\ E \in Threads
  BY MoveIs DEF Threads
<1>2. ASSUME NEW i \in DOMAIN work'[E], work'[E][i].op \in {"userTimerCallback", "free"}
      PROVE  \E j \in DOMAIN work[E] : work'[E][i] = work[E][j]
  <2>1. CASE t = E
    <3>1. \/ \E j \in DOMAIN ins : work'[E][i] = ins[j]
          \/ \E j \in DOMAIN work[E] : work'[E][i] = work[E][j]
      BY <1>1, <2>1, From
    <3> QED
      BY <1>2, <2>1, <3>1
  <2>2. CASE t # E
    BY <1>1, <2>2
  <2> QED
    BY <2>1, <2>2
<1>3. ASSUME NEW i \in DOMAIN work'[E], work'[E][i].op \in {"userTimerCallback", "free"}
      PROVE  /\ block'[work'[E][i].block] # Free
             /\ \A j \in DOMAIN timers' : timers'[j] # work'[E][i].block
  <2>1. PICK j \in DOMAIN work[E] : work'[E][i] = work[E][j]
    BY <1>2, <1>3
  <2>2. work[E][j] \in Instructions /\ work[E][j].op \in OfBlock
    BY <1>1, <1>3, <2>1 DEF StackInv, OfBlock
  <2>3. work[E][j].block \in Blocks
    BY <2>2, Fields
  <2> QED
    BY <1>3, <2>1, <2>3 DEF TimerInv
<1>4. \A i \in DOMAIN timers : timers[i] \in Blocks
  BY DEF TimerInv
<1> QED
  BY <1>3, <1>4 DEF TimerInv

LEMMA LockKept ==
    ASSUME StackInv, LockReleased, NEW t, NEW ins, Move(t, ins),
           UNCHANGED <<timers, block, dead>>, lock' => lock,
           Head(work[t]).op \notin {"schedule", "timer", "releaseWakeLock", "userTimerCallback"}
    PROVE  LockReleased'
<1>1. /\ t \in Threads /\ work[t] \in Seq(Instructions) /\ work[t] # <<>>
      /\ ins \in Seq(Instructions)
      /\ Over(work'[t], ins, work[t])
      /\ \A q \in Threads : q # t => work'[q] = work[q]
      /\ E \in Threads
  BY MoveIs DEF Threads
<1>2. SUFFICES ASSUME lock', ~dead' PROVE LockReleased'
  BY DEF LockReleased
<1>3. CASE \E q \in Threads : Has(q, {"schedule", "timer", "releaseWakeLock"})
  <2>1. PICK q \in Threads : Has(q, {"schedule", "timer", "releaseWakeLock"})
    BY <1>3
  <2>2. Has(q, {"schedule", "timer", "releaseWakeLock"})'
    BY <1>1, <2>1, TokensOf
  <2> QED
    BY <2>2 DEF LockReleased
<1>4. CASE \E b \in Range(timers) : block[b] = "armed"
  BY <1>4 DEF LockReleased
<1>5. CASE \E i \in DOMAIN work[E] : work[E][i].op = "userTimerCallback" /\ block[work[E][i].block] = "armed"
  <2>1. PICK i \in DOMAIN work[E] : work[E][i].op = "userTimerCallback" /\ block[work[E][i].block] = "armed"
    BY <1>5
  <2>2. \E j \in DOMAIN work'[E] : work'[E][j] = work[E][i]
    <3>1. CASE t = E
      <4>1. i # 1 /\ Over(work'[E], ins, work[E])
        BY <1>1, <2>1, <3>1 DEF Over
      <4> QED
        BY <4>1, Stays
    <3>2. CASE t # E
      BY <1>1, <3>2
    <3> QED
      BY <3>1, <3>2
  <2> QED
    BY <2>1, <2>2 DEF LockReleased
<1> QED
  BY <1>2, <1>3, <1>4, <1>5 DEF LockReleased

LEMMA WakeKept ==
    ASSUME StackInv, NoLostWakeup, NEW t, NEW ins, Move(t, ins),
           t = V => UNCHANGED <<watch, sel, timers, wake>> /\ Head(work[t]).op # "triggerEvLoop"
    PROVE  NoLostWakeup'
<1>1. t \in {E, V} /\ t \in Threads /\ {E, V, M} \subseteq Threads /\ E # V /\ M # V /\ M # E
  BY DEF Move, Threads, E, V, M
<1>2. \A q \in Threads : q # t => work'[q] = work[q]
  BY MoveIs
<1>3. CASE t = E
  <2>1. ~At(E, "enter")' /\ ~At(E, "select")'
    <3>1. ASSUME NEW op \in {"enter", "select"}, At(E, op)' PROVE FALSE
      BY <1>3, <3>1, TopOf DEF Under, Move, Fits
    <3> QED
      BY <3>1
  <2> QED
    BY <2>1 DEF NoLostWakeup
<1>4. CASE t = V
  <2>1. work'[E] = work[E] /\ work'[M] = work[M]
    BY <1>1, <1>2, <1>4
  <2>2. ~At(V, "triggerEvLoop")
    BY <1>4 DEF At
  <2>3. Watched' = Watched
    BY <1>4 DEF Watched, slots
  <2> QED
    BY <1>4, <2>1, <2>2, <2>3 DEF NoLostWakeup, At
<1> QED
  BY <1>1, <1>3, <1>4

LEMMA RequestKept ==
    ASSUME RequestInv, UNCHANGED <<request, fdCommand, sock>>, Listening' => Listening
    PROVE  RequestInv'
  BY DEF RequestInv, PendingIsCurrent, Current

-----------------------------------------------------------------------------
(* What the functions put on the stack. *)

\* Instructions that can be put anywhere on top.
Plainly == {"ril_event_init", "wakeup", "checkCredentials", "sendNITZ", "freeNITZ", "closeCommand",
            "issueLocalRequest", "triggerEvLoop", "timer", "schedule", "releaseWakeLock",
            "last", "send", "header", "close", "payload", "stash", "complete"}

LEMMA FitsNone ==
    ASSUME NEW w
    PROVE  Fits(<<>>, w) /\ <<>> \in Seq(Instructions) /\ DOMAIN <<>> = {}
<1>1. DOMAIN <<>> = {} /\ <<>> \in Seq(Instructions)
  OBVIOUS
<1> QED
  BY <1>1 DEF Fits

LEMMA FitsOne ==
    ASSUME NEW w, NEW x \in Instructions, x.op \in Plainly
    PROVE  /\ Fits(<<x>>, w) /\ <<x>> \in Seq(Instructions)
           /\ DOMAIN <<x>> = {1} /\ <<x>>[1] = x
<1>1. DOMAIN <<x>> = {1} /\ <<x>>[1] = x /\ <<x>> \in Seq(Instructions)
  OBVIOUS
<1> QED
  BY <1>1 DEF Fits, Plainly

LEMMA FitsTwo ==
    ASSUME NEW w, NEW x \in Instructions, NEW y \in Instructions,
           y.op \in Plainly \intersect Under \/ (y.op = "commands" /\ Head(w).op = "commands"),
           \/ x.op \in Plainly
           \/ x.op = "cancel" /\ y.op = "timer"
           \/ x.op = "grabPartialWakeLock" /\ y.op \in {"releaseWakeLock", "schedule"}
    PROVE  /\ Fits(<<x, y>>, w) /\ <<x, y>> \in Seq(Instructions)
           /\ DOMAIN <<x, y>> = {1, 2} /\ <<x, y>>[1] = x /\ <<x, y>>[2] = y
<1>1. /\ DOMAIN <<x, y>> = {1, 2} /\ <<x, y>>[1] = x /\ <<x, y>>[2] = y
      /\ <<x, y>> \in Seq(Instructions) /\ Len(<<x, y>>) = 2
  OBVIOUS
<1> DEFINE ins == <<x, y>>
<1> HIDE DEF ins
<1>2. DOMAIN ins = {1, 2} /\ ins[1] = x /\ ins[2] = y /\ Len(ins) = 2
  BY <1>1 DEF ins
<1>3. y.op \in Under
  BY DEF Under
<1>4. /\ \A i \in DOMAIN ins : i > 1 => ins[i].op \in Under
      /\ \A i \in DOMAIN ins : ins[i].op \notin {"ril_event_loop", "enter", "select", "listen", "debug", "add", "userTimerCallback"}
  BY <1>2, <1>3 DEF Plainly
<1>5. /\ \A i \in DOMAIN ins : ins[i].op = "cancel" => \E j \in DOMAIN ins : j > i /\ ins[j].op = "timer"
      /\ \A i \in DOMAIN ins : ins[i].op = "grabPartialWakeLock" =>
            \E j \in DOMAIN ins : j > i /\ ins[j].op \in {"schedule", "releaseWakeLock"}
  BY <1>2 DEF Plainly
<1>6. /\ \A i \in DOMAIN ins : ins[i].op = "commands" => Head(w).op = "commands" /\ i = Len(ins)
      /\ \A i \in DOMAIN ins : ins[i].op = "free" =>
            i = 1 /\ Head(w).op = "userTimerCallback" /\ ins[i].block = Head(w).block
  BY <1>2 DEF Plainly
<1>7. Fits(ins, w)
  BY <1>4, <1>5, <1>6 DEF Fits
<1> QED
  BY <1>1, <1>7 DEF ins

\* An event that wakes takes the wake lock, is sent, and sets a timer.
LEMMA FitsEvent ==
    ASSUME NEW w, NEW x \in Instructions, NEW y \in Instructions, NEW z \in Instructions,
           x.op = "grabPartialWakeLock", y.op = "send", z.op = "schedule"
    PROVE  /\ Fits(<<x, y, z>>, w) /\ <<x, y, z>> \in Seq(Instructions)
           /\ DOMAIN <<x, y, z>> = {1, 2, 3} /\ <<x, y, z>>[1] = x /\ <<x, y, z>>[2] = y /\ <<x, y, z>>[3] = z
<1>1. /\ DOMAIN <<x, y, z>> = {1, 2, 3} /\ <<x, y, z>>[1] = x /\ <<x, y, z>>[2] = y /\ <<x, y, z>>[3] = z
      /\ <<x, y, z>> \in Seq(Instructions) /\ Len(<<x, y, z>>) = 3
  OBVIOUS
<1> DEFINE ins == <<x, y, z>>
<1> HIDE DEF ins
<1>2. DOMAIN ins = {1, 2, 3} /\ ins[1] = x /\ ins[2] = y /\ ins[3] = z
  BY <1>1 DEF ins
<1>3. Fits(ins, w)
  BY <1>2 DEF Fits, Under
<1> QED
  BY <1>1, <1>3 DEF ins

LEMMA FitsEventThen ==
    ASSUME NEW w, NEW x \in Instructions, NEW y \in Instructions, NEW z \in Instructions, NEW u \in Instructions,
           x.op = "grabPartialWakeLock", y.op = "send", z.op = "schedule", u.op = "sendNITZ"
    PROVE  /\ Fits(<<x, y, z, u>>, w) /\ <<x, y, z, u>> \in Seq(Instructions)
           /\ DOMAIN <<x, y, z, u>> = {1, 2, 3, 4} /\ <<x, y, z, u>>[1] = x /\ <<x, y, z, u>>[2] = y
           /\ <<x, y, z, u>>[3] = z /\ <<x, y, z, u>>[4] = u
<1>1. /\ DOMAIN <<x, y, z, u>> = {1, 2, 3, 4} /\ <<x, y, z, u>>[1] = x /\ <<x, y, z, u>>[2] = y
      /\ <<x, y, z, u>>[3] = z /\ <<x, y, z, u>>[4] = u
      /\ <<x, y, z, u>> \in Seq(Instructions) /\ Len(<<x, y, z, u>>) = 4
  OBVIOUS
<1> DEFINE ins == <<x, y, z, u>>
<1> HIDE DEF ins
<1>2. DOMAIN ins = {1, 2, 3, 4} /\ ins[1] = x /\ ins[2] = y /\ ins[3] = z /\ ins[4] = u
  BY <1>1 DEF ins
<1>3. Fits(ins, w)
  BY <1>2 DEF Fits, Under
<1> QED
  BY <1>1, <1>3 DEF ins

LEMMA JoinOne ==
    ASSUME NEW a, NEW b
    PROVE  <<a>> \o <<b>> = <<a, b>>
<1> DEFINE S == {a, b}
           s == <<a>> \o <<b>>
<1>1. <<a>> \in Seq(S) /\ <<b>> \in Seq(S) /\ Len(<<a>>) = 1 /\ Len(<<b>>) = 1 /\ <<a>>[1] = a /\ <<b>>[1] = b
  OBVIOUS
<1>2. s \in Seq(S) /\ Len(s) = 2
      /\ \A i \in 1..2 : s[i] = IF i <= 1 THEN <<a>>[i] ELSE <<b>>[i - 1]
  BY <1>1, ConcatProperties
<1> HIDE DEF s
<1>3. s[1] = a /\ s[2] = b
  BY <1>1, <1>2
<1>4. <<a, b>> \in Seq(S) /\ Len(<<a, b>>) = 2 /\ <<a, b>>[1] = a /\ <<a, b>>[2] = b
  OBVIOUS
<1>5. s = <<a, b>>
  BY <1>2, <1>3, <1>4
<1> QED
  BY <1>5 DEF s

LEMMA JoinTwo ==
    ASSUME NEW a, NEW b, NEW c
    PROVE  <<a>> \o <<b, c>> = <<a, b, c>>
<1> DEFINE S == {a, b, c}
           s == <<a>> \o <<b, c>>
<1>1. <<a>> \in Seq(S) /\ <<b, c>> \in Seq(S) /\ Len(<<a>>) = 1 /\ Len(<<b, c>>) = 2
      /\ <<a>>[1] = a /\ <<b, c>>[1] = b /\ <<b, c>>[2] = c
  OBVIOUS
<1>2. s \in Seq(S) /\ Len(s) = 3
      /\ \A i \in 1..3 : s[i] = IF i <= 1 THEN <<a>>[i] ELSE <<b, c>>[i - 1]
  BY <1>1, ConcatProperties
<1> HIDE DEF s
<1>3. s[1] = a /\ s[2] = b /\ s[3] = c
  BY <1>1, <1>2
<1>4. <<a, b, c>> \in Seq(S) /\ Len(<<a, b, c>>) = 3
      /\ <<a, b, c>>[1] = a /\ <<a, b, c>>[2] = b /\ <<a, b, c>>[3] = c
  OBVIOUS
<1>5. s = <<a, b, c>>
  BY <1>2, <1>3, <1>4
<1> QED
  BY <1>5 DEF s

LEMMA JoinThree ==
    ASSUME NEW a, NEW b, NEW c, NEW d
    PROVE  <<a, b, c>> \o <<d>> = <<a, b, c, d>>
<1> DEFINE S == {a, b, c, d}
           s == <<a, b, c>> \o <<d>>
<1>1. <<a, b, c>> \in Seq(S) /\ <<d>> \in Seq(S) /\ Len(<<a, b, c>>) = 3 /\ Len(<<d>>) = 1
      /\ <<a, b, c>>[1] = a /\ <<a, b, c>>[2] = b /\ <<a, b, c>>[3] = c /\ <<d>>[1] = d
  OBVIOUS
<1>2. s \in Seq(S) /\ Len(s) = 4
      /\ \A i \in 1..4 : s[i] = IF i <= 3 THEN <<a, b, c>>[i] ELSE <<d>>[i - 3]
  BY <1>1, ConcatProperties
<1> HIDE DEF s
<1>3. s[1] = a /\ s[2] = b /\ s[3] = c /\ s[4] = d
  BY <1>1, <1>2
<1>4. <<a, b, c, d>> \in Seq(S) /\ Len(<<a, b, c, d>>) = 4
      /\ <<a, b, c, d>>[1] = a /\ <<a, b, c, d>>[2] = b /\ <<a, b, c, d>>[3] = c /\ <<a, b, c, d>>[4] = d
  OBVIOUS
<1>5. s = <<a, b, c, d>>
  BY <1>2, <1>3, <1>4
<1> QED
  BY <1>5 DEF s

Frame(nitz) == [NoFrame EXCEPT !.nitz = nitz, !.stash = TRUE]

LEMMA FrameIs ==
    /\ NoFrame \in Frames
    /\ \A n \in Nat \union {Null} : Frame(n) \in Frames /\ [NoFrame EXCEPT !.nitz = n] \in Frames
  BY DEF NoFrame, Frames, Frame

\* The four shapes of what an event does.
Sending(nitz) == [op |-> "send", frame |-> Frame(nitz)]
LEMMA EventIs ==
    ASSUME NEW event, NEW nitz, NEW marshals \in BOOLEAN
    PROVE  RIL_onUnsolicitedResponse(event, nitz, marshals) \in
              {<<>>, <<I("grabPartialWakeLock"), I("releaseWakeLock")>>, <<Sending(nitz)>>,
               <<I("grabPartialWakeLock"), Sending(nitz), I("schedule")>>}
<1> DEFINE g == I("grabPartialWakeLock")
           r == I("releaseWakeLock")
           s == Sending(nitz)
           d == I("schedule")
           wakes == event \in scenario.wakes
<1>1. RIL_onUnsolicitedResponse(event, nitz, marshals) =
        (IF wakes THEN <<g>> ELSE <<>>)
        \o (IF ~marshals THEN IF wakes THEN <<r>> ELSE <<>>
            ELSE <<s>> \o (IF wakes THEN <<d>> ELSE <<>>))
  BY DEF RIL_onUnsolicitedResponse, Sending, Frame
<1> HIDE DEF g, r, s, d, wakes
<1>2. \A a, b : <<a>> \o <<b>> = <<a, b>>
  BY JoinOne
<1>3. \A a, b, c : <<a>> \o <<b, c>> = <<a, b, c>>
  BY JoinTwo
<1>4. <<>> \o <<>> = <<>> /\ \A a : <<>> \o <<a>> = <<a>> /\ <<a>> \o <<>> = <<a>>
  OBVIOUS
<1>5. CASE wakes /\ marshals
  BY <1>1, <1>2, <1>3, <1>5 DEF g, r, s, d
<1>6. CASE wakes /\ ~marshals
  BY <1>1, <1>2, <1>6 DEF g, r, s, d
<1>7. CASE ~wakes /\ marshals
  BY <1>1, <1>4, <1>7 DEF g, r, s, d
<1>8. CASE ~wakes /\ ~marshals
  BY <1>1, <1>4, <1>8 DEF g, r, s, d
<1> QED
  BY <1>5, <1>6, <1>7, <1>8

-----------------------------------------------------------------------------
(* The steps that E and V share. *)

LEMMA DiesKeeps ==
    ASSUME RilInv, Dies, scenario' = scenario
    PROVE  RilInv'
<1>1. work' = [t \in Threads |-> <<>>] /\ dead'
  BY DEF Dies
<1>2. E \in Threads /\ V \in Threads /\ M \in Threads
  BY DEF Threads
<1>3. \A t \in Threads : work'[t] = <<>>
  BY <1>1
<1>4. /\ UNCHANGED <<ended, watch, sel, wake>> /\ UNCHANGED <<timers, block, last, lock>>
      /\ UNCHANGED <<client, backlog, inbox, fdCommand, sock, cut>> /\ UNCHANGED <<request, vendor>>
      /\ UNCHANGED <<stash, writer, stream>> /\ UNCHANGED <<debug, used>>
  BY DEF Dies, timerVars, sockVars, requestVars, sendVars
<1>5. \A ops : ~Has(E, ops)'
  BY <1>2, <1>3 DEF Has
<1>6. \A t \in Threads : \A op : ~At(t, op)'
  BY <1>3 DEF At
<1>7. Watched' = Watched
  BY <1>4 DEF Watched, slots
<1>8. StackInv'
  <2>1. work' \in [Threads -> Seq(Instructions)]
    BY <1>1
  <2>2. Len(work'[M]) = 0 /\ Len(main) = 7
    BY <1>2, <1>3 DEF main
  <2>3. Shape(<<>>)
    BY DEF Shape
  <2> QED
    BY <1>2, <1>3, <2>1, <2>2, <2>3 DEF StackInv
<1>9. LoopTypes'
  BY <1>1, <1>4 DEF RilInv, LoopTypes, slots
<1>10. ClientTypes'
  BY <1>4 DEF RilInv, ClientTypes
<1>11. TimerInv'
  BY <1>2, <1>3, <1>4 DEF RilInv, TimerInv
<1>12. Listening' => Listening
  <2>1. ~(Len(work'[M]) >= 4)
    BY <1>2, <1>3
  <2> QED
    BY <1>5, <1>7, <2>1 DEF Listening
<1>13. TableInv'
  <2>1. work'[E] = <<>> /\ ~(Len(work'[M]) >= 4) /\ ~(Len(work'[M]) >= 2)
    BY <1>2, <1>3
  <2> QED
    BY <1>4, <1>5, <1>7, <1>12, <2>1 DEF RilInv, TableInv
<1>14. StreamInv'
  <2>1. \A t \in {E, V} : ~Writing(t)' /\ ~At(t, "payload")'
    BY <1>2, <1>6 DEF Writing
  <2> QED
    BY <1>1, <1>4, <2>1 DEF RilInv, StreamInv
<1>15. RequestInv'
  BY <1>4, <1>12, RequestKept DEF RilInv
<1>16. NoLostWakeup'
  BY <1>2, <1>6 DEF NoLostWakeup
<1>17. LockReleased'
  BY <1>1 DEF LockReleased
<1> QED
  BY <1>8, <1>9, <1>10, <1>11, <1>13, <1>14, <1>15, <1>16, <1>17 DEF RilInv

\* A step that leaves the table, the socket, the timers and the wake lock as they are.
LEMMA Calm ==
    ASSUME RilInv, NEW t, NEW ins, Move(t, ins), scenario' = scenario,
           UNCHANGED <<ended, watch, sel, debug>>, t = V => wake' = wake,
           UNCHANGED <<timers, block, last, lock>>, UNCHANGED <<fdCommand, sock, cut, dead>>,
           LoopTypes', ClientTypes', StreamInv', (Listening' => Listening) => RequestInv',
           Head(work[t]).op \notin Tokens \union {"schedule", "timer", "releaseWakeLock", "userTimerCallback",
                                                 "triggerEvLoop"},
           \A i \in DOMAIN ins : ins[i].op \notin Tokens \union {"userTimerCallback", "free"}
    PROVE  RilInv'
<1>1. StackInv /\ StackInv'
  BY StackKept DEF RilInv
<1>4. TimerInv'
  <2>1. /\ lock' \in BOOLEAN /\ last' \in Blocks \union {Null}
        /\ block' \in [Blocks -> {Free, "armed", "cancelled"}]
        /\ \A b \in Blocks : block[b] # Free => block'[b] # Free
    BY DEF RilInv, TimerInv
  <2> QED
    BY <1>1, <2>1, TimerKept DEF RilInv
<1>5. TableInv' /\ (Listening' <=> Listening)
  BY <1>1, TableKept DEF RilInv
<1>8. NoLostWakeup'
  BY <1>1, WakeKept DEF RilInv
<1>9. LockReleased'
  BY <1>1, LockKept DEF RilInv
<1> QED
  BY <1>1, <1>4, <1>5, <1>8, <1>9 DEF RilInv

\* A step that changes nothing but its own stack and, perhaps, the NITZ event kept.
LEMMA Quiet ==
    ASSUME RilInv, NEW t, NEW ins, Move(t, ins), scenario' = scenario,
           UNCHANGED <<dead, ended, watch, sel, wake>>, UNCHANGED <<timers, block, last, lock>>,
           UNCHANGED <<client, backlog, inbox, fdCommand, sock, cut>>, UNCHANGED <<request, vendor>>,
           UNCHANGED <<writer, stream, debug, used>>, stash' \in Nat \union {Null},
           Head(work[t]).op \notin Tokens \union {"schedule", "timer", "releaseWakeLock", "userTimerCallback",
                                                 "triggerEvLoop", "payload", "close"},
           \A i \in DOMAIN ins : ins[i].op \notin Tokens \union {"userTimerCallback", "free", "payload", "close"}
    PROVE  RilInv'
<1>1. StackInv
  BY DEF RilInv
<1>2. LoopTypes'
  BY DEF RilInv, LoopTypes, slots
<1>3. ClientTypes'
  BY DEF RilInv, ClientTypes
<1>6. StreamInv'
  BY <1>1, StreamKept DEF RilInv, Writing, At
<1>7. (Listening' => Listening) => RequestInv'
  BY RequestKept DEF RilInv
<1> QED
  BY <1>2, <1>3, <1>6, <1>7, Calm

LEMMA MoveNone ==
    ASSUME StackInv, NEW t \in {E, V}, work[t] # <<>>, Goes(t, <<>>)
    PROVE  Move(t, <<>>) /\ DOMAIN <<>> = {}
  BY FitsNone DEF Move

LEMMA MoveOne ==
    ASSUME StackInv, NEW t \in {E, V}, work[t] # <<>>, NEW x \in Instructions, Goes(t, <<x>>),
           x.op \in Plainly, x.op \in OfV, x.op # "triggerEvLoop"
    PROVE  Move(t, <<x>>) /\ DOMAIN <<x>> = {1} /\ <<x>>[1] = x
  BY FitsOne DEF Move, OfV, NotOfE

LEMMA sendResponseRawKeeps ==
    ASSUME RilInv, NEW t \in {E, V}, sendResponseRaw(t), scenario' = scenario
    PROVE  RilInv'
<1>1. StackInv /\ t \in Threads /\ At(t, "send")
  BY DEF RilInv, sendResponseRaw, Threads
<1>2. work[t] # <<>> /\ Head(work[t]) \in Instructions /\ Head(work[t]).op = "send"
  BY <1>1, HeadIs
<1>3. PICK frame \in Frames : frame = Head(work[t]).frame
  BY <1>2, Fields
<1>4. Goes(t, IF fdCommand THEN <<[op |-> "header", frame |-> frame]>> ELSE KeepNITZ(frame))
  BY <1>3 DEF sendResponseRaw
<1>5. [op |-> "header", frame |-> frame] \in Instructions
  BY Made
<1>6. frame.nitz \in Nat \union {Null} /\ [op |-> "stash", nitz |-> frame.nitz] \in Instructions
  BY Made DEF Frames
<1>7. stash' \in Nat \union {Null}
  BY DEF RilInv, ClientTypes, sendResponseRaw, sendVars
<1>8. /\ UNCHANGED <<dead, ended, watch, sel, wake>> /\ UNCHANGED <<timers, block, last, lock>>
      /\ UNCHANGED <<client, backlog, inbox, fdCommand, sock, cut>> /\ UNCHANGED <<request, vendor>>
      /\ UNCHANGED <<writer, stream, debug, used>>
  BY DEF sendResponseRaw, loopVars, timerVars, sockVars, requestVars, sendVars
<1>9. CASE Goes(t, <<>>)
  BY <1>1, <1>2, <1>7, <1>8, <1>9, MoveNone, Quiet DEF Tokens
<1>10. ASSUME NEW x \in Instructions, x.op \in {"header", "stash"}, Goes(t, <<x>>) PROVE RilInv'
  <2>1. Move(t, <<x>>) /\ DOMAIN <<x>> = {1} /\ <<x>>[1] = x
    BY <1>1, <1>2, <1>10, MoveOne DEF Plainly, OfV
  <2> QED
    BY <1>1, <1>2, <1>7, <1>8, <1>10, <2>1, Quiet DEF Tokens
<1>11. KeepNITZ(frame) \in {<<[op |-> "stash", nitz |-> frame.nitz]>>, <<>>}
  BY DEF KeepNITZ
<1> QED
  BY <1>4, <1>5, <1>6, <1>9, <1>10, <1>11

LEMMA keepNITZKeeps ==
    ASSUME RilInv, NEW t \in {E, V}, keepNITZ(t), scenario' = scenario
    PROVE  RilInv'
<1>1. StackInv /\ t \in Threads /\ At(t, "stash") /\ Goes(t, <<>>)
  BY DEF RilInv, keepNITZ, Threads
<1>2. work[t] # <<>> /\ Head(work[t]) \in Instructions /\ Head(work[t]).op = "stash"
  BY <1>1, HeadIs
<1>3. stash' \in Nat \union {Null}
  BY <1>2, Fields DEF keepNITZ
<1>4. /\ UNCHANGED <<dead, ended, watch, sel, wake>> /\ UNCHANGED <<timers, block, last, lock>>
      /\ UNCHANGED <<client, backlog, inbox, fdCommand, sock, cut>> /\ UNCHANGED <<request, vendor>>
      /\ UNCHANGED <<writer, stream, debug, used>>
  BY DEF keepNITZ, loopVars, timerVars, sockVars, requestVars
<1> QED
  BY <1>1, <1>2, <1>3, <1>4, MoveNone, Quiet DEF Tokens

\* What is left to show of a step that moves timers or the wake lock only.
LEMMA TimerStep ==
    ASSUME RilInv, NEW t, NEW ins, Move(t, ins), scenario' = scenario,
           UNCHANGED <<dead, ended, watch, sel, wake>>, timers' = timers,
           UNCHANGED <<client, backlog, inbox, fdCommand, sock, cut>>, UNCHANGED <<request, vendor>>,
           UNCHANGED <<stash, writer, stream, debug, used>>,
           TimerInv', LockReleased',
           Head(work[t]).op \notin Tokens \union {"triggerEvLoop", "payload", "close"},
           \A i \in DOMAIN ins : ins[i].op \notin Tokens \union {"payload", "close"}
    PROVE  RilInv'
<1>1. StackInv /\ StackInv'
  BY StackKept DEF RilInv
<1>2. LoopTypes'
  BY DEF RilInv, LoopTypes, slots
<1>3. ClientTypes'
  BY DEF RilInv, ClientTypes
<1>5. TableInv' /\ (Listening' <=> Listening)
  BY <1>1, TableKept DEF RilInv
<1>6. StreamInv'
  BY <1>1, StreamKept DEF RilInv, Writing, At
<1>7. RequestInv'
  BY <1>5, RequestKept DEF RilInv
<1>8. NoLostWakeup'
  BY <1>1, WakeKept DEF RilInv
<1> QED
  BY <1>1, <1>2, <1>3, <1>5, <1>6, <1>7, <1>8 DEF RilInv

LEMMA grabPartialWakeLockKeeps ==
    ASSUME RilInv, NEW t \in {E, V}, grabPartialWakeLock(t), scenario' = scenario
    PROVE  RilInv'
<1>1. StackInv /\ t \in Threads /\ At(t, "grabPartialWakeLock") /\ Goes(t, <<>>)
  BY DEF RilInv, grabPartialWakeLock, Threads
<1>2. /\ work[t] # <<>> /\ Head(work[t]) \in Instructions /\ Head(work[t]).op = "grabPartialWakeLock"
      /\ 1 \in DOMAIN work[t] /\ Head(work[t]) = work[t][1] /\ work[t] \in Seq(Instructions)
  BY <1>1, HeadIs
<1>3. /\ UNCHANGED <<dead, ended, watch, sel, wake>> /\ UNCHANGED <<timers, block, last>> /\ lock' = TRUE
      /\ UNCHANGED <<client, backlog, inbox, fdCommand, sock, cut>> /\ UNCHANGED <<request, vendor>>
      /\ UNCHANGED <<stash, writer, stream, debug, used>>
  BY DEF grabPartialWakeLock, loopVars, timerVars, sockVars, requestVars, sendVars
<1>4. Move(t, <<>>) /\ DOMAIN <<>> = {}
  BY <1>1, <1>2, MoveNone
<1>5. TimerInv'
  BY <1>1, <1>3, <1>4, TimerKept DEF RilInv, TimerInv
<1>6. Shape(work[t])
  BY <1>1 DEF StackInv
<1>7. PICK j \in DOMAIN work[t] : j > 1 /\ work[t][j].op \in {"schedule", "releaseWakeLock"}
  BY <1>2, <1>6 DEF Shape
<1>8. Over(work'[t], <<>>, work[t])
  BY <1>1, <1>4, MoveIs
<1>9. \E k \in DOMAIN work'[t] : work'[t][k] = work[t][j]
  BY <1>7, <1>8, Stays
<1>10. LockReleased'
  BY <1>1, <1>7, <1>9 DEF LockReleased, Has
<1> QED
  BY <1>1, <1>2, <1>3, <1>4, <1>5, <1>10, TimerStep DEF Tokens

LEMMA releaseWakeLockKeeps ==
    ASSUME RilInv, NEW t \in {E, V}, releaseWakeLock(t), scenario' = scenario
    PROVE  RilInv'
<1>1. StackInv /\ t \in Threads /\ At(t, "releaseWakeLock") /\ Goes(t, <<>>)
  BY DEF RilInv, releaseWakeLock, Threads
<1>2. work[t] # <<>> /\ Head(work[t]).op = "releaseWakeLock"
  BY <1>1, HeadIs
<1>3. /\ UNCHANGED <<dead, ended, watch, sel, wake>> /\ UNCHANGED <<timers, block, last>> /\ lock' = FALSE
      /\ UNCHANGED <<client, backlog, inbox, fdCommand, sock, cut>> /\ UNCHANGED <<request, vendor>>
      /\ UNCHANGED <<stash, writer, stream, debug, used>>
  BY DEF releaseWakeLock, loopVars, timerVars, sockVars, requestVars, sendVars
<1>4. Move(t, <<>>) /\ DOMAIN <<>> = {}
  BY <1>1, <1>2, MoveNone
<1>5. TimerInv'
  BY <1>1, <1>3, <1>4, TimerKept DEF RilInv, TimerInv
<1>6. LockReleased'
  BY <1>3 DEF LockReleased
<1> QED
  BY <1>1, <1>2, <1>3, <1>4, <1>5, <1>6, TimerStep DEF Tokens

LEMMA setLastKeeps ==
    ASSUME RilInv, NEW t \in {E, V}, setLast(t), scenario' = scenario
    PROVE  RilInv'
<1>1. StackInv /\ t \in Threads /\ At(t, "last") /\ Goes(t, <<>>)
  BY DEF RilInv, setLast, Threads
<1>2. work[t] # <<>> /\ Head(work[t]) \in Instructions /\ Head(work[t]).op = "last"
  BY <1>1, HeadIs
<1>3. /\ UNCHANGED <<dead, ended, watch, sel, wake>> /\ UNCHANGED <<timers, block, lock>>
      /\ UNCHANGED <<client, backlog, inbox, fdCommand, sock, cut>> /\ UNCHANGED <<request, vendor>>
      /\ UNCHANGED <<stash, writer, stream, debug, used>> /\ last' = Head(work[t]).block
  BY DEF setLast, loopVars, sockVars, requestVars, sendVars
<1>4. Move(t, <<>>) /\ DOMAIN <<>> = {}
  BY <1>1, <1>2, MoveNone
<1>5. last' \in Blocks
  BY <1>2, <1>3, Fields DEF OfBlock
<1>6. TimerInv'
  BY <1>1, <1>3, <1>4, <1>5, TimerKept DEF RilInv, TimerInv
<1>7. LockReleased'
  BY <1>1, <1>2, <1>3, <1>4, LockKept DEF RilInv
<1> QED
  BY <1>1, <1>2, <1>3, <1>4, <1>6, <1>7, TimerStep DEF Tokens

LEMMA scheduleKeeps ==
    ASSUME RilInv, NEW t \in {E, V}, schedule(t), scenario' = scenario
    PROVE  RilInv'
<1>1. StackInv /\ t \in Threads /\ At(t, "schedule")
  BY DEF RilInv, schedule, Threads
<1>2. work[t] # <<>> /\ Head(work[t]).op = "schedule"
  BY <1>1, HeadIs
<1>3. /\ UNCHANGED <<dead, ended, watch, sel, wake>> /\ UNCHANGED <<timers, block, last, lock>>
      /\ UNCHANGED <<client, backlog, inbox, fdCommand, sock, cut>> /\ UNCHANGED <<request, vendor>>
      /\ UNCHANGED <<stash, writer, stream, debug, used>>
  BY DEF schedule, loopVars, timerVars, sockVars, requestVars, sendVars
<1>4. I("timer") \in Instructions /\ I("timer").op = "timer"
  BY Made DEF Plain
<1>5. ASSUME NEW ins, Move(t, ins), \E i \in DOMAIN ins : ins[i].op = "timer",
             \A i \in DOMAIN ins : ins[i].op \in {"cancel", "timer"}
      PROVE  RilInv'
  <2>1. TimerInv'
    BY <1>1, <1>3, <1>5, TimerKept DEF RilInv, TimerInv
  <2>2. Has(t, {"schedule", "timer", "releaseWakeLock"})'
    BY <1>1, <1>5, TokensOf
  <2>3. LockReleased'
    BY <1>1, <2>2 DEF LockReleased
  <2> QED
    BY <1>1, <1>2, <1>3, <1>5, <2>1, <2>3, TimerStep DEF Tokens
<1>6. CASE last = Null
  <2>1. Goes(t, <<I("timer")>>)
    BY <1>6 DEF schedule
  <2>2. Move(t, <<I("timer")>>) /\ DOMAIN <<I("timer")>> = {1} /\ <<I("timer")>>[1] = I("timer")
    BY <1>1, <1>2, <1>4, <2>1, MoveOne DEF Plainly, OfV
  <2> QED
    BY <1>4, <1>5, <2>2
<1>7. CASE last # Null
  <2> DEFINE c == [op |-> "cancel", block |-> last]
             ins == <<c, I("timer")>>
  <2>1. Goes(t, ins)
    BY <1>7 DEF schedule
  <2>2. c \in Instructions /\ c.op = "cancel"
    BY <1>7, Made DEF RilInv, TimerInv, OfBlock
  <2> HIDE DEF c
  <2>3. /\ Fits(ins, work[t]) /\ ins \in Seq(Instructions)
        /\ DOMAIN ins = {1, 2} /\ ins[1] = c /\ ins[2] = I("timer")
    BY <1>4, <2>2, FitsTwo DEF Plainly, Under
  <2> HIDE DEF ins
  <2>4. Move(t, ins)
    BY <1>2, <1>4, <2>1, <2>2, <2>3 DEF Move, OfV, NotOfE
  <2> QED
    BY <1>4, <1>5, <2>2, <2>3, <2>4
<1> QED
  BY <1>6, <1>7

LEMMA cancelPreviousKeeps ==
    ASSUME RilInv, NEW t \in {E, V}, cancelPrevious(t), scenario' = scenario
    PROVE  RilInv'
<1>1. StackInv /\ t \in Threads /\ At(t, "cancel")
  BY DEF RilInv, cancelPrevious, Threads
<1>2. /\ work[t] # <<>> /\ Head(work[t]) \in Instructions /\ Head(work[t]).op = "cancel"
      /\ 1 \in DOMAIN work[t] /\ Head(work[t]) = work[t][1]
  BY <1>1, HeadIs
<1>3. CASE Dies
  BY <1>3, DiesKeeps
<1>4. CASE ~Dies
  <2>1. PICK b \in Blocks : b = Head(work[t]).block
    BY <1>2, Fields DEF OfBlock
  <2>2. /\ block' = IF block[b] = Free THEN block ELSE [block EXCEPT ![b] = "cancelled"]
        /\ Goes(t, <<>>)
        /\ UNCHANGED <<loopVars, timers, last, lock, startVars, sockVars,
                             requestVars, sendVars, debug, used>>
    BY <1>4, <2>1 DEF cancelPrevious
  <2>3. /\ UNCHANGED <<dead, ended, watch, sel, wake>> /\ UNCHANGED <<timers, last, lock>>
        /\ UNCHANGED <<client, backlog, inbox, fdCommand, sock, cut>> /\ UNCHANGED <<request, vendor>>
        /\ UNCHANGED <<stash, writer, stream, debug, used>>
    BY <2>2 DEF loopVars, sockVars, requestVars, sendVars
  <2>4. Move(t, <<>>) /\ DOMAIN <<>> = {}
    BY <1>1, <1>2, <2>2, MoveNone
  <2>5. /\ block' \in [Blocks -> {Free, "armed", "cancelled"}]
        /\ \A a \in Blocks : block[a] # Free => block'[a] # Free
    BY <2>2 DEF RilInv, TimerInv, Free
  <2>6. TimerInv'
    BY <1>1, <2>3, <2>4, <2>5, TimerKept DEF RilInv, TimerInv
  <2>11. Shape(work[t])
    BY <1>1 DEF StackInv
  <2>7. PICK j \in DOMAIN work[t] : j > 1 /\ work[t][j].op = "timer"
    BY <1>2, <2>11 DEF Shape
  <2>8. Over(work'[t], <<>>, work[t])
    BY <1>1, <2>4, MoveIs
  <2>9. \E k \in DOMAIN work'[t] : work'[t][k] = work[t][j]
    BY <2>7, <2>8, Stays
  <2>10. LockReleased'
    BY <1>1, <2>7, <2>9 DEF LockReleased, Has
  <2> QED
    BY <1>1, <1>2, <2>3, <2>4, <2>6, <2>10, TimerStep DEF Tokens
<1> QED
  BY <1>3, <1>4

LEMMA internalRequestTimedCallbackKeeps ==
    ASSUME RilInv, NEW t \in {E, V}, internalRequestTimedCallback(t), scenario' = scenario
    PROVE  RilInv'
<1>1. StackInv /\ t \in Threads /\ At(t, "timer") /\ E \in Threads /\ E # V
  BY DEF RilInv, internalRequestTimedCallback, Threads, E, V
<1>2. work[t] # <<>> /\ Head(work[t]).op = "timer"
  BY <1>1, HeadIs
<1>3. CASE Dies
  BY <1>3, DiesKeeps
<1>4. CASE ~Dies
  <2>1. PICK b \in Blocks :
            /\ block[b] = Free
            /\ block' = [block EXCEPT ![b] = "armed"]
            /\ timers' = Append(timers, b)
            /\ Goes(t, (IF t = E THEN <<>> ELSE <<I("triggerEvLoop")>>) \o <<[op |-> "last", block |-> b]>>)
            /\ UNCHANGED <<loopVars, last, lock, startVars, sockVars, requestVars, sendVars, debug, used>>
    BY <1>4 DEF internalRequestTimedCallback, Allocated
  <2>2. /\ UNCHANGED <<dead, ended, watch, sel, wake>> /\ UNCHANGED <<last, lock>>
        /\ UNCHANGED <<client, backlog, inbox, fdCommand, sock, cut>> /\ UNCHANGED <<request, vendor>>
        /\ UNCHANGED <<stash, writer, stream, debug, used>>
    BY <2>1 DEF loopVars, sockVars, requestVars, sendVars
  <2> DEFINE l == [op |-> "last", block |-> b]
             g == I("triggerEvLoop")
  <2>3. l \in Instructions /\ l.op = "last" /\ g \in Instructions /\ g.op = "triggerEvLoop"
    BY Made DEF Plain, OfBlock
  <2>4. Goes(t, IF t = E THEN <<l>> ELSE <<g, l>>)
    <3>1. <<>> \o <<l>> = <<l>> /\ <<g>> \o <<l>> = <<g, l>>
      BY JoinOne
    <3> QED
      BY <2>1, <3>1
  <2> HIDE DEF l, g
  <2>5. PICK ins : /\ Move(t, ins)
                   /\ \A i \in DOMAIN ins : ins[i].op \in {"last", "triggerEvLoop"}
                   /\ t = V => ins # <<>> /\ ins[1].op = "triggerEvLoop"
    <3>1. CASE t = E
      <4>1. Goes(t, <<l>>)
        BY <2>4, <3>1
      <4>2. Move(t, <<l>>) /\ DOMAIN <<l>> = {1} /\ <<l>>[1] = l
        BY <1>1, <1>2, <2>3, <4>1, MoveOne DEF Plainly, OfV
      <4> QED
        BY <1>1, <2>3, <3>1, <4>2
    <3>2. CASE t = V
      <4>1. Goes(t, <<g, l>>)
        BY <1>1, <2>4, <3>2
      <4>2. /\ Fits(<<g, l>>, work[t]) /\ <<g, l>> \in Seq(Instructions)
            /\ DOMAIN <<g, l>> = {1, 2} /\ <<g, l>>[1] = g /\ <<g, l>>[2] = l
        BY <2>3, FitsTwo DEF Plainly, Under
      <4> DEFINE ins == <<g, l>>
      <4>4. ins # <<>>
        OBVIOUS
      <4> HIDE DEF ins
      <4>3. Move(t, ins)
        BY <1>1, <1>2, <2>3, <3>2, <4>1, <4>2 DEF Move, OfV, ins
      <4> QED
        BY <2>3, <4>2, <4>3, <4>4 DEF ins
    <3> QED
      BY <3>1, <3>2
  <2>6. StackInv'
    BY <1>1, <2>2, <2>5, StackKept
  <2>7. LoopTypes' /\ ClientTypes'
    <3>1. LoopTypes'
      BY <2>2 DEF RilInv, LoopTypes, slots
    <3>2. ClientTypes'
      BY <2>2 DEF RilInv, ClientTypes
    <3> QED
      BY <3>1, <3>2
  <2>8. TimerInv'
    <3>1. /\ timers \in Seq(Blocks) /\ \A i, j \in DOMAIN timers : timers[i] = timers[j] => i = j
          /\ block \in [Blocks -> {Free, "armed", "cancelled"}]
          /\ \A i \in DOMAIN timers : block[timers[i]] # Free /\ timers[i] \in Blocks
      BY DEF RilInv, TimerInv, IsInjective
    <3>2. /\ timers' \in Seq(Blocks) /\ DOMAIN timers' = 1..(Len(timers) + 1) /\ DOMAIN timers = 1..Len(timers)
          /\ Len(timers) \in Nat
          /\ timers'[Len(timers) + 1] = b /\ \A i \in 1..Len(timers) : timers'[i] = timers[i]
      BY <2>1, <3>1
    <3>3. \A i \in DOMAIN timers : timers[i] # b
      BY <2>1, <3>1
    <3>4. \A i, j \in DOMAIN timers' : timers'[i] = timers'[j] => i = j
      BY <3>1, <3>2, <3>3
    <3>5. /\ block' \in [Blocks -> {Free, "armed", "cancelled"}] /\ "armed" # Free
          /\ \A a \in Blocks : block[a] # Free => block'[a] # Free
          /\ block'[b] # Free
      BY <2>1, <3>1 DEF Free
    <3>6. \A i \in DOMAIN timers' : block'[timers'[i]] # Free
      BY <3>1, <3>2, <3>5
    <3>7. ASSUME NEW i \in DOMAIN work'[E], work'[E][i].op \in {"userTimerCallback", "free"}
          PROVE  /\ block'[work'[E][i].block] # Free
                 /\ \A j \in DOMAIN timers' : timers'[j] # work'[E][i].block
      <4>1. \E k \in DOMAIN work[E] : work'[E][i] = work[E][k]
        <5>1. CASE t = E
          <6>1. Over(work'[E], ins, work[E])
            BY <1>1, <2>5, <5>1, MoveIs
          <6>2. \/ \E k \in DOMAIN ins : work'[E][i] = ins[k]
                \/ \E k \in DOMAIN work[E] : work'[E][i] = work[E][k]
            BY <6>1, From
          <6> QED
            BY <2>5, <3>7, <6>2
        <5>2. CASE t # E
          BY <1>1, <2>5, <5>2, MoveIs
        <5> QED
          BY <5>1, <5>2
      <4>2. PICK k \in DOMAIN work[E] : work'[E][i] = work[E][k]
        BY <4>1
      <4>3. work[E] \in Seq(Instructions)
        BY <1>1 DEF StackInv
      <4>4. work[E][k] \in Instructions /\ work[E][k].op \in OfBlock
        BY <3>7, <4>2, <4>3 DEF OfBlock
      <4>5. work[E][k].block \in Blocks
        BY <4>4, Fields
      <4>6. block[work[E][k].block] # Free /\ \A j \in DOMAIN timers : timers[j] # work[E][k].block
        BY <3>7, <4>2 DEF RilInv, TimerInv
      <4> QED
        BY <2>1, <3>2, <3>5, <4>2, <4>5, <4>6
    <3> QED
      BY <2>2, <3>2, <3>4, <3>5, <3>6, <3>7 DEF RilInv, TimerInv, IsInjective
  <2>9. TableInv' /\ (Listening' <=> Listening)
    BY <1>1, <1>2, <2>2, <2>5, TableKept DEF RilInv, Tokens
  <2>10. StreamInv'
    BY <1>1, <1>2, <2>2, <2>5, StreamKept DEF RilInv, Writing, At
  <2>11. RequestInv'
    BY <2>2, <2>9, RequestKept DEF RilInv
  <2>12. NoLostWakeup'
    <3>1. CASE t = E
      BY <1>1, <2>5, <3>1, WakeKept DEF RilInv
    <3>2. CASE t = V
      <4>1. work'[V] \in Seq(Instructions) /\ Over(work'[V], ins, work[V]) /\ ins \in Seq(Instructions)
        BY <1>1, <2>5, <3>2, MoveIs
      <4>2. 1 \in DOMAIN ins /\ 1 \in DOMAIN work'[V] /\ work'[V][1] = ins[1]
        BY <2>5, <3>2, <4>1 DEF Over
      <4>3. At(V, "triggerEvLoop")'
        BY <2>5, <3>2, <4>1, <4>2 DEF At
      <4> QED
        BY <4>3 DEF NoLostWakeup
    <3> QED
      BY <3>1, <3>2
  <2>13. LockReleased'
    <3>1. timers \in Seq(Blocks) /\ block \in [Blocks -> {Free, "armed", "cancelled"}]
      BY DEF RilInv, TimerInv
    <3>2. /\ Len(timers) + 1 \in DOMAIN timers' /\ timers'[Len(timers) + 1] = b /\ block'[b] = "armed"
      BY <2>1, <3>1
    <3>3. b \in Range(timers') /\ block'[b] = "armed"
      BY <3>2 DEF Range
    <3> QED
      BY <3>3 DEF LockReleased
  <2> QED
    BY <2>6, <2>7, <2>8, <2>9, <2>10, <2>11, <2>12, <2>13 DEF RilInv
<1> QED
  BY <1>3, <1>4

LEMMA RIL_onRequestCompleteKeeps ==
    ASSUME RilInv, NEW t \in {E, V}, RIL_onRequestComplete(t), scenario' = scenario
    PROVE  RilInv'
<1>1. StackInv /\ t \in Threads /\ At(t, "complete")
  BY DEF RilInv, RIL_onRequestComplete, Threads
<1>2. work[t] # <<>> /\ Head(work[t]) \in Instructions /\ Head(work[t]).op = "complete"
  BY <1>1, HeadIs
<1>3. PICK r \in Requests : r = Head(work[t]).request
  BY <1>2, Fields
<1>4. /\ request' = [request EXCEPT ![r] = Done]
      /\ Goes(t, <<>>) \/ Goes(t, <<[op |-> "send", frame |-> NoFrame]>>)
  BY <1>3 DEF RIL_onRequestComplete
<1>5. /\ UNCHANGED <<dead, ended, watch, sel, wake>> /\ UNCHANGED <<timers, block, last, lock>>
      /\ UNCHANGED <<client, backlog, inbox, fdCommand, sock, cut>> /\ vendor' = vendor
      /\ UNCHANGED <<stash, writer, stream, debug, used>>
  BY DEF RIL_onRequestComplete, loopVars, timerVars, sockVars, sendVars
<1>6. LoopTypes'
  BY <1>5 DEF RilInv, LoopTypes, slots
<1>7. ClientTypes'
  <2>1. Done \in [conn : Conns \union {Null}, local : BOOLEAN, cancelled : BOOLEAN, pending : BOOLEAN]
    BY DEF Done, NoRequest
  <2> QED
    BY <1>4, <1>5, <2>1 DEF RilInv, ClientTypes
<1>8. (Listening' => Listening) => RequestInv'
  <2>1. ~Done.pending
    BY DEF Done, NoRequest
  <2>2. \A q \in Requests : request'[q] = request[q] \/ ~request'[q].pending
    BY <1>4, <2>1 DEF RilInv, ClientTypes
  <2> QED
    BY <1>5, <2>2 DEF RilInv, RequestInv, PendingIsCurrent, Current
<1>9. PICK ins : Move(t, ins) /\ \A i \in DOMAIN ins : ins[i].op = "send"
  <2>1. CASE Goes(t, <<>>)
    BY <1>1, <1>2, <2>1, MoveNone
  <2>2. CASE Goes(t, <<[op |-> "send", frame |-> NoFrame]>>)
    <3> DEFINE x == [op |-> "send", frame |-> NoFrame]
    <3>1. x \in Instructions /\ x.op = "send"
      BY Made, FrameIs
    <3> HIDE DEF x
    <3>2. Move(t, <<x>>) /\ DOMAIN <<x>> = {1} /\ <<x>>[1] = x
      BY <1>1, <1>2, <2>2, <3>1, MoveOne DEF Plainly, OfV, x
    <3> QED
      BY <3>1, <3>2
  <2> QED
    BY <1>4, <2>1, <2>2
<1>10. StreamInv'
  BY <1>1, <1>2, <1>5, <1>9, StreamKept DEF RilInv, Writing, At
<1> QED
  BY <1>2, <1>5, <1>6, <1>7, <1>8, <1>9, <1>10, Calm DEF Tokens

\* Who holds s_writeMutex is the only one that is between two halves.
LEMMA Writers ==
    ASSUME RilInv, NEW t \in {E, V}, MayWrite(t) \/ At(t, "close")
    PROVE  /\ t \in Threads /\ work[t] # <<>> /\ work[t] \in Seq(Instructions) /\ 1 \in DOMAIN work[t]
           /\ Head(work[t]) \in Instructions /\ Head(work[t]) = work[t][1]
           /\ Head(work[t]).op \in {"header", "payload", "close"}
           /\ Head(work[t]).frame \in Frames /\ ~dead
           /\ writer \in {Null, t} /\ (Head(work[t]).op # "header" => writer = t)
           /\ (Head(work[t]).op = "header" => writer = Null)
           /\ \A q \in {E, V} : q # t => ~Writing(q)
           /\ sock # Null => /\ sock \in Conns
                             /\ \/ stream[sock] \in {"whole", "orphan"}
                                \/ /\ writer = t /\ stream[sock] = t
                                   /\ At(t, "payload") => Head(work[t]).conn = sock
<1>1. t \in Threads /\ StackInv /\ Null \notin Threads /\ {E, V} \subseteq Threads
  BY RilAssumption DEF Threads, E, V, M, RilInv
<1>2. /\ work[t] \in Seq(Instructions) /\ work[t] # <<>> /\ 1 \in DOMAIN work[t]
      /\ Head(work[t]) = work[t][1] /\ Head(work[t]) \in Instructions
      /\ Head(work[t]).op \in {"header", "payload", "close"}
  BY <1>1, HeadIs DEF MayWrite
<1>3. Head(work[t]).frame \in Frames
  BY <1>2, Fields
<1>4. ~dead
  BY <1>1, <1>2 DEF StackInv
<1>5. /\ Head(work[t]).op # "header" => writer = t
      /\ Head(work[t]).op = "header" => writer = Null
  BY <1>2 DEF RilInv, StreamInv, Writing, MayWrite, At
<1>6. \A q \in {E, V} : q # t => ~Writing(q)
  BY <1>1, <1>2, <1>5 DEF RilInv, StreamInv
<1>7. sock # Null => /\ sock \in Conns
                     /\ \/ stream[sock] \in {"whole", "orphan"}
                        \/ /\ writer = t /\ stream[sock] = t
                           /\ At(t, "payload") => Head(work[t]).conn = sock
  BY <1>2, <1>4, <1>5 DEF RilInv, StreamInv, ClientTypes
<1> QED
  BY <1>1, <1>2, <1>3, <1>4, <1>5, <1>6, <1>7

LEMMA blockingWriteKeeps ==
    ASSUME RilInv, NEW t \in {E, V}, blockingWrite(t), scenario' = scenario
    PROVE  RilInv'
<1>1. StackInv /\ MayWrite(t)
  BY DEF RilInv, blockingWrite
<1>2. /\ t \in Threads /\ work[t] # <<>> /\ work[t] \in Seq(Instructions) /\ 1 \in DOMAIN work[t]
      /\ Head(work[t]) \in Instructions /\ Head(work[t]) = work[t][1]
      /\ Head(work[t]).op \in {"header", "payload", "close"}
      /\ Head(work[t]).frame \in Frames /\ ~dead
      /\ writer \in {Null, t} /\ (Head(work[t]).op # "header" => writer = t)
      /\ (Head(work[t]).op = "header" => writer = Null)
      /\ \A q \in {E, V} : q # t => ~Writing(q)
      /\ sock # Null => /\ sock \in Conns
                        /\ \/ stream[sock] \in {"whole", "orphan"}
                           \/ /\ writer = t /\ stream[sock] = t
                              /\ At(t, "payload") => Head(work[t]).conn = sock
  BY <1>1, Writers
<1>3. PICK i \in Instructions : i = Head(work[t])
  BY <1>2
<1>4. /\ UNCHANGED <<ended, watch, sel, wake>> /\ UNCHANGED <<timers, block, last, lock>>
      /\ UNCHANGED <<client, backlog, inbox, fdCommand, sock, cut>> /\ UNCHANGED <<request, vendor>>
      /\ UNCHANGED <<stash, debug>>
  BY DEF blockingWrite, timerVars, sockVars, requestVars
<1>5. client[sock] # "none" => \A c \in DOMAIN backlog : backlog[c] # sock
  BY DEF RilInv, StreamInv
<1>6. i.op \in {"header", "payload"}
  BY <1>1, <1>3 DEF MayWrite, At
\* What is left of a step that is not the end.
<1>7. ASSUME NEW ins, Move(t, ins), \A j \in DOMAIN ins : ins[j].op \in {"payload", "close"},
             dead' = dead, LoopTypes', ClientTypes', StreamInv'
      PROVE  RilInv'
  <2>1. (Listening' => Listening) => RequestInv'
    BY <1>4, RequestKept DEF RilInv
  <2> QED
    BY <1>2, <1>4, <1>7, <2>1, Calm DEF Tokens
<1>8. ASSUME Goes(t, <<>>) \/ \E x \in Instructions : x.op \in {"payload", "close"} /\ Goes(t, <<x>>)
      PROVE  \A q \in {E, V} : q # t => work'[q] = work[q] /\ ~Writing(q)' /\ ~At(q, "payload")'
  <2>1. \E ins : Move(t, ins)
    BY <1>1, <1>2, <1>8, MoveNone, MoveOne DEF Plainly, OfV
  <2>2. \A q \in {E, V} : q # t => work'[q] = work[q]
    BY <1>1, <2>1, MoveIs DEF Threads
  <2> QED
    BY <1>2, <2>2 DEF Writing, At
<1>9. CASE /\ sock # Null /\ client[sock] = "open" /\ i.op = "header"
           /\ stream' = [stream EXCEPT ![sock] = AfterHeader(sock, t)]
           /\ writer' = t
           /\ Goes(t, <<[op |-> "payload", frame |-> i.frame, conn |-> sock]>>)
           /\ UNCHANGED <<dead, used>>
  <2> DEFINE x == [op |-> "payload", frame |-> i.frame, conn |-> sock]
  <2>1. x \in Instructions /\ x.op = "payload" /\ x.conn = sock
    BY <1>2, <1>3, <1>9, Made
  <2>2. Goes(t, <<x>>)
    BY <1>9
  <2> HIDE DEF x
  <2>3. Move(t, <<x>>) /\ DOMAIN <<x>> = {1} /\ <<x>>[1] = x
    BY <1>1, <1>2, <2>1, <2>2, MoveOne DEF Plainly, OfV
  <2>4. LoopTypes'
    BY <1>4, <1>9 DEF RilInv, LoopTypes, slots
  <2>5. /\ stream' \in [Conns -> {"whole", "orphan", E, V}]
        /\ stream'[sock] \in {t, "orphan"} /\ \A c \in Conns : c # sock => stream'[c] = stream[c]
    <3>1. stream[sock] \in {"whole", "orphan"}
      BY <1>2, <1>3, <1>9, RilAssumption DEF Threads, E, V, M
    <3>2. AfterHeader(sock, t) \in {t, "orphan"}
      BY <3>1 DEF AfterHeader
    <3> QED
      BY <1>2, <1>9, <3>2 DEF RilInv, ClientTypes
  <2>6. ClientTypes'
    BY <1>2, <1>4, <1>9, <2>5 DEF RilInv, ClientTypes
  <2>7. At(t, "payload")' /\ ~At(t, "close")' /\ Head(work'[t]) = x
    <3>1. Over(work'[t], <<x>>, work[t]) /\ work'[t] \in Seq(Instructions)
      BY <1>1, <2>3, MoveIs
    <3>2. 1 \in DOMAIN work'[t] /\ work'[t][1] = x
      BY <2>3, <3>1 DEF Over
    <3>3. work'[t] # <<>> /\ Head(work'[t]) = x
      BY <3>1, <3>2
    <3> QED
      BY <2>1, <3>3 DEF At
  <2>8. \A q \in {E, V} : q # t => work'[q] = work[q] /\ ~Writing(q)' /\ ~At(q, "payload")'
    BY <1>8, <2>1, <2>2
  <2>9. StreamInv'
    <3>1. \A j \in DOMAIN backlog : /\ client[backlog[j]] # "none" /\ stream[backlog[j]] = "whole"
                                    /\ backlog[j] # sock /\ backlog[j] \in Conns
      BY DEF RilInv, StreamInv, ClientTypes
    <3>2. \A c \in Conns : client[c] = "none" => stream[c] = "whole" /\ c # sock
      BY DEF RilInv, StreamInv
    <3>3. \A j, k \in DOMAIN backlog : backlog[j] = backlog[k] => j = k
      BY DEF RilInv, StreamInv
    <3>4. /\ \A q \in {E, V} : Writing(q)' => writer' = q
          /\ writer' \in {E, V} /\ Writing(t)' /\ writer' = t /\ t # Null
      BY <1>2, <1>9, <2>7, <2>8, RilAssumption DEF Writing, Threads, E, V, M
    <3>5. /\ sock' = sock /\ backlog' = backlog /\ client' = client /\ sock # Null
          /\ At(t, "payload")' /\ Head(work'[t]).conn = sock
          /\ \A q \in {E, V} : At(q, "payload")' => q = t
      BY <1>4, <1>9, <2>1, <2>7, <2>8
    <3>6. client[sock] # "none" /\ \A j \in DOMAIN backlog : backlog[j] # sock
      BY <1>9, <3>1
    <3>7. \A j \in DOMAIN backlog : stream'[backlog[j]] = "whole"
      BY <2>5, <3>1
    <3>8. \A c \in Conns : client[c] = "none" => stream'[c] = "whole" /\ c # sock
      BY <2>5, <3>2
    <3>9. /\ sock # Null => stream'[sock] \in {"whole", "orphan"} \/ stream'[sock] = t
          /\ stream'[sock] \in {t, "orphan"}
      BY <2>5
    <3> QED
      BY <3>1, <3>3, <3>4, <3>5, <3>6, <3>7, <3>8, <3>9 DEF StreamInv
  <2> QED
    BY <1>7, <1>9, <2>1, <2>3, <2>4, <2>6, <2>9
<1>10. CASE /\ sock # Null /\ client[sock] = "open" /\ i.op = "payload"
            /\ stream' = [stream EXCEPT ![sock] = AfterPayload(sock, t, i.conn)]
            /\ writer' = Null
            /\ Goes(t, <<>>)
            /\ UNCHANGED <<dead, used>>
  <2>3. Move(t, <<>>) /\ DOMAIN <<>> = {}
    BY <1>1, <1>2, <1>10, MoveNone
  <2>4. LoopTypes'
    BY <1>4, <1>10 DEF RilInv, LoopTypes, slots
  <2>5. /\ stream' \in [Conns -> {"whole", "orphan", E, V}]
        /\ stream'[sock] \in {"whole", "orphan"} /\ \A c \in Conns : c # sock => stream'[c] = stream[c]
    <3>1. At(t, "payload")
      BY <1>2, <1>3, <1>10 DEF At
    <3>2. i.conn = sock => stream[sock] \in {t, "orphan"}
      BY <1>3, <3>1 DEF RilInv, StreamInv
    <3>3. AfterPayload(sock, t, i.conn) \in {"whole", "orphan"}
      BY <3>2 DEF AfterPayload
    <3> QED
      BY <1>2, <1>10, <3>3 DEF RilInv, ClientTypes
  <2>6. ClientTypes'
    BY <1>2, <1>4, <1>10, <2>5 DEF RilInv, ClientTypes
  <2>7. ~At(t, "payload")' /\ ~At(t, "close")'
    BY <1>1, <2>3, TopOf DEF Under
  <2>8. \A q \in {E, V} : q # t => work'[q] = work[q] /\ ~Writing(q)' /\ ~At(q, "payload")'
    BY <1>8, <1>10
  <2>9. StreamInv'
    <3>1. \A j \in DOMAIN backlog : /\ client[backlog[j]] # "none" /\ stream[backlog[j]] = "whole"
                                    /\ backlog[j] # sock /\ backlog[j] \in Conns
      BY DEF RilInv, StreamInv, ClientTypes
    <3>2. \A c \in Conns : client[c] = "none" => stream[c] = "whole" /\ c # sock
      BY DEF RilInv, StreamInv
    <3>3. \A j, k \in DOMAIN backlog : backlog[j] = backlog[k] => j = k
      BY DEF RilInv, StreamInv
    <3> QED
      BY <1>2, <1>4, <1>10, <2>5, <2>7, <2>8, <3>1, <3>2, <3>3 DEF StreamInv, Writing
  <2> QED
    BY <1>7, <1>10, <2>3, <2>4, <2>6, <2>9
<1>11. CASE /\ sock = Null \/ used.faults < scenario.faults
            /\ used' = IF sock = Null THEN used ELSE [used EXCEPT !.faults = @ + 1]
            /\ writer' = t
            /\ Goes(t, <<[op |-> "close", frame |-> i.frame]>>)
            /\ UNCHANGED <<dead, stream>>
  <2> DEFINE x == [op |-> "close", frame |-> i.frame]
  <2>1. x \in Instructions /\ x.op = "close"
    BY <1>2, <1>3, <1>11, Made
  <2>2. Goes(t, <<x>>)
    BY <1>11
  <2> HIDE DEF x
  <2>3. Move(t, <<x>>) /\ DOMAIN <<x>> = {1} /\ <<x>>[1] = x
    BY <1>1, <1>2, <2>1, <2>2, MoveOne DEF Plainly, OfV
  <2>4. LoopTypes'
    <3>1. used' \in [commands : Nat, events : Nat, faults : Nat, debugs : Nat]
          /\ used'.commands = used.commands /\ used'.events = used.events
      BY <1>11 DEF RilInv, LoopTypes
    <3> QED
      BY <1>4, <1>11, <3>1 DEF RilInv, LoopTypes, slots
  <2>6. ClientTypes'
    BY <1>2, <1>4, <1>11 DEF RilInv, ClientTypes
  <2>7. ~At(t, "payload")' /\ At(t, "close")'
    <3>1. Over(work'[t], <<x>>, work[t]) /\ work'[t] \in Seq(Instructions)
      BY <1>1, <2>3, MoveIs
    <3>2. 1 \in DOMAIN work'[t] /\ work'[t][1] = x
      BY <2>3, <3>1 DEF Over
    <3>3. work'[t] # <<>> /\ Head(work'[t]) = x
      BY <3>1, <3>2
    <3> QED
      BY <2>1, <3>3 DEF At
  <2>8. \A q \in {E, V} : q # t => work'[q] = work[q] /\ ~Writing(q)' /\ ~At(q, "payload")'
    BY <1>8, <2>1, <2>2
  <2>9. StreamInv'
    <3>1. \A j \in DOMAIN backlog : /\ client[backlog[j]] # "none" /\ stream[backlog[j]] = "whole"
                                    /\ backlog[j] # sock /\ backlog[j] \in Conns
      BY DEF RilInv, StreamInv, ClientTypes
    <3>2. \A c \in Conns : client[c] = "none" => stream[c] = "whole" /\ c # sock
      BY DEF RilInv, StreamInv
    <3>3. \A j, k \in DOMAIN backlog : backlog[j] = backlog[k] => j = k
      BY DEF RilInv, StreamInv
    <3>4. t # Null
      BY <1>2, RilAssumption DEF Threads, E, V, M
    <3> QED
      BY <1>2, <1>4, <1>11, <2>7, <2>8, <3>1, <3>2, <3>3, <3>4 DEF StreamInv, Writing
  <2> QED
    BY <1>7, <1>11, <2>1, <2>3, <2>4, <2>6, <2>9
<1>12. CASE work' = [q \in Threads |-> <<>>] /\ dead' = TRUE /\ UNCHANGED <<writer, stream, used>>
  <2>1. Dies
    BY <1>12 DEF Dies, blockingWrite, sendVars
  <2> QED
    BY <2>1, DiesKeeps
<1>13. \/ /\ sock # Null /\ client[sock] = "open"
          /\ IF i.op = "header"
             THEN /\ stream' = [stream EXCEPT ![sock] = AfterHeader(sock, t)]
                  /\ writer' = t
                  /\ Goes(t, <<[op |-> "payload", frame |-> i.frame, conn |-> sock]>>)
             ELSE /\ stream' = [stream EXCEPT ![sock] = AfterPayload(sock, t, i.conn)]
                  /\ writer' = Null
                  /\ Goes(t, <<>>)
          /\ UNCHANGED <<dead, used>>
       \/ /\ sock = Null \/ used.faults < scenario.faults
          /\ used' = IF sock = Null THEN used ELSE [used EXCEPT !.faults = @ + 1]
          /\ writer' = t
          /\ Goes(t, <<[op |-> "close", frame |-> i.frame]>>)
          /\ UNCHANGED <<dead, stream>>
       \/ work' = [q \in Threads |-> <<>>] /\ dead' = TRUE /\ UNCHANGED <<writer, stream, used>>
  BY <1>3 DEF blockingWrite
<1> QED
  BY <1>6, <1>9, <1>10, <1>11, <1>12, <1>13

LEMMA closeAfterWriteKeeps ==
    ASSUME RilInv, NEW t \in {E, V}, closeAfterWrite(t), scenario' = scenario
    PROVE  RilInv'
<1>1. StackInv /\ At(t, "close")
  BY DEF RilInv, closeAfterWrite
<1>2. /\ t \in Threads /\ work[t] # <<>> /\ work[t] \in Seq(Instructions) /\ 1 \in DOMAIN work[t]
      /\ Head(work[t]) \in Instructions /\ Head(work[t]) = work[t][1] /\ Head(work[t]).op = "close"
      /\ Head(work[t]).frame \in Frames /\ ~dead
      /\ \A q \in {E, V} : q # t => ~Writing(q)
  <2>1. Head(work[t]).op = "close"
    BY <1>1 DEF At
  <2> QED
    BY <1>1, <2>1, Writers
<1>3. PICK frame \in Frames : frame = Head(work[t]).frame
  BY <1>2
<1>4. /\ client' = IF sock = Null THEN client ELSE [client EXCEPT ![sock] = "gone"]
      /\ sock' = Null
      /\ cut' = (cut \/ sock # Null)
      /\ writer' = Null
      /\ Goes(t, KeepNITZ(frame))
      /\ UNCHANGED <<dead, ended, watch, sel, wake>> /\ UNCHANGED <<timers, block, last, lock>>
      /\ UNCHANGED <<backlog, inbox, fdCommand>> /\ UNCHANGED <<request, vendor>>
      /\ UNCHANGED <<stash, stream, debug, used>>
  BY <1>3 DEF closeAfterWrite, Closed, loopVars, timerVars, requestVars
<1>5. PICK ins : Move(t, ins) /\ \A i \in DOMAIN ins : ins[i].op = "stash"
  <2> DEFINE x == [op |-> "stash", nitz |-> frame.nitz]
  <2>1. x \in Instructions /\ x.op = "stash"
    BY Made DEF Frames
  <2>2. Goes(t, <<>>) \/ Goes(t, <<x>>)
    BY <1>4 DEF KeepNITZ
  <2> HIDE DEF x
  <2>3. CASE Goes(t, <<>>)
    BY <1>1, <1>2, <2>3, MoveNone
  <2>4. CASE Goes(t, <<x>>)
    <3>1. Move(t, <<x>>) /\ DOMAIN <<x>> = {1} /\ <<x>>[1] = x
      BY <1>1, <1>2, <2>1, <2>4, MoveOne DEF Plainly, OfV
    <3> QED
      BY <2>1, <3>1
  <2> QED
    BY <2>2, <2>3, <2>4
<1>6. StackInv'
  BY <1>1, <1>4, <1>5, StackKept
<1>7. LoopTypes'
  <2>1. sock' \in Conns \union {Null}
    BY <1>4
  <2> QED
    BY <1>4, <2>1 DEF RilInv, LoopTypes, slots
<1>8. ClientTypes' /\ (cut => cut') /\ (sock # Null => cut')
  <2>1. client' \in [Conns -> {"none", "open", "gone"}]
    BY <1>4 DEF RilInv, ClientTypes
  <2>2. cut' \in BOOLEAN /\ (cut => cut') /\ (sock # Null => cut')
    BY <1>4 DEF RilInv, ClientTypes
  <2>3. sock' \in Conns \union {Null} /\ writer' \in Threads \union {Null}
    BY <1>4
  <2> QED
    BY <1>4, <2>1, <2>2, <2>3 DEF RilInv, ClientTypes
<1>9. TimerInv'
  BY <1>1, <1>4, <1>5, TimerKept DEF RilInv, TimerInv
<1>10. \A ops \in SUBSET Tokens : Has(E, ops)' <=> Has(E, ops)
  <2>1. E \in Threads /\ t \in {E, V}
    BY DEF Threads
  <2>2. ASSUME NEW ops \in SUBSET Tokens PROVE Has(E, ops)' <=> Has(E, ops)
    <3>1. CASE t = E
      BY <1>1, <1>2, <1>5, <3>1, TokensOf DEF Tokens
    <3>2. CASE t # E
      BY <1>1, <1>5, <2>1, <3>2, TokensOf
    <3> QED
      BY <3>1, <3>2
  <2> QED
    BY <2>2
<1>11. work'[M] = work[M] /\ (work'[E] = work[E] \/ work[E] # <<>>)
  BY <1>1, <1>2, <1>5, MoveIs DEF Threads, E, V, M
<1>12. TableInv' /\ (Listening' <=> Listening)
  <2>1. /\ (Has(E, {"listen"})' <=> Has(E, {"listen"}))
        /\ (Has(E, {"commands"})' <=> Has(E, {"commands"}))
        /\ (Has(E, {"checkCredentials"})' <=> Has(E, {"checkCredentials"}))
        /\ (Has(E, {"debug"})' <=> Has(E, {"debug"}))
        /\ (Has(E, {"add"})' <=> Has(E, {"add"}))
        /\ (Has(E, {"enter", "select"})' <=> Has(E, {"enter", "select"}))
    BY <1>10 DEF Tokens
  <2>2. Watched' = Watched
    BY <1>4 DEF Watched, slots
  <2>3. Listening' <=> Listening
    BY <1>11, <2>1, <2>2 DEF Listening
  <2>4. ("commands" \in Watched /\ sock = Null) => cut
    BY DEF RilInv, TableInv
  <2>5. ("commands" \in Watched' /\ sock' = Null) => cut'
    BY <1>8, <2>2, <2>4
  <2>6. ended' => work'[E] = <<>> /\ cut'
    BY <1>4, <1>8, <1>11 DEF RilInv, TableInv
  <2>7. "wakeup" \in Watched' \/ Has(E, {"add"})' \/ work'[E] = <<>>
    BY <1>11, <2>1, <2>2 DEF RilInv, TableInv
  <2> QED
    BY <1>4, <1>11, <2>1, <2>2, <2>3, <2>5, <2>6, <2>7 DEF RilInv, TableInv
<1>13. StreamInv'
  <2>1. ~At(t, "payload")' /\ ~At(t, "close")'
    BY <1>1, <1>5, TopOf DEF Under
  <2>2. \A q \in {E, V} : q # t => work'[q] = work[q]
    BY <1>1, <1>5, MoveIs DEF Threads
  <2>3. \A q \in {E, V} : ~Writing(q)' /\ ~At(q, "payload")'
    BY <1>2, <2>1, <2>2 DEF Writing, At
  <2>4. \A c \in Conns : client'[c] = "none" <=> client[c] = "none"
    <3>1. sock # Null => sock \in Conns /\ client[sock] # "none"
      BY DEF RilInv, ClientTypes, StreamInv
    <3> QED
      BY <1>4, <3>1 DEF RilInv, ClientTypes
  <2>5. \A i \in DOMAIN backlog : backlog[i] \in Conns
    BY DEF RilInv, ClientTypes
  <2>6. Null \notin Conns
    BY RilAssumption
  <2> QED
    BY <1>4, <2>3, <2>4, <2>5, <2>6 DEF RilInv, StreamInv
<1>14. RequestInv'
  BY <1>4, <1>12 DEF RilInv, RequestInv, PendingIsCurrent, Current
<1>15. NoLostWakeup'
  BY <1>1, <1>2, <1>4, <1>5, WakeKept DEF RilInv
<1>16. LockReleased'
  BY <1>1, <1>2, <1>4, <1>5, LockKept DEF RilInv
<1> QED
  BY <1>6, <1>7, <1>8, <1>9, <1>12, <1>13, <1>14, <1>15, <1>16 DEF RilInv

\* The byte is written, unless the pipe is not made yet.
LEMMA triggerEvLoopKeeps ==
    ASSUME RilInv, triggerEvLoop(V), scenario' = scenario
    PROVE  RilInv'
<1>1. StackInv /\ At(V, "triggerEvLoop") /\ Goes(V, <<>>) /\ V \in Threads /\ E # V /\ E \in Threads
  BY DEF RilInv, triggerEvLoop, Threads, E, V
<1>2. work[V] # <<>> /\ Head(work[V]).op = "triggerEvLoop"
  BY <1>1, HeadIs
<1>3. /\ wake' = (wake \/ "wakeup" \in Watched)
      /\ UNCHANGED <<dead, ended, watch, sel>> /\ UNCHANGED <<timers, block, last, lock>>
      /\ UNCHANGED <<client, backlog, inbox, fdCommand, sock, cut>> /\ UNCHANGED <<request, vendor>>
      /\ UNCHANGED <<stash, writer, stream, debug, used>>
  BY DEF triggerEvLoop, timerVars, sockVars, requestVars, sendVars
<1>4. Move(V, <<>>) /\ DOMAIN <<>> = {}
  BY <1>1, <1>2, MoveNone
<1>5. StackInv'
  BY <1>1, <1>3, <1>4, StackKept
<1>6. LoopTypes'
  <2>1. wake' \in BOOLEAN
    BY <1>3 DEF RilInv, LoopTypes
  <2> QED
    BY <1>3, <2>1 DEF RilInv, LoopTypes, slots
<1>7. ClientTypes'
  BY <1>3 DEF RilInv, ClientTypes
<1>8. TimerInv'
  BY <1>1, <1>3, <1>4, TimerKept DEF RilInv, TimerInv
<1>9. TableInv' /\ (Listening' <=> Listening)
  BY <1>1, <1>3, <1>4, TableKept DEF RilInv
<1>10. StreamInv'
  BY <1>1, <1>2, <1>3, <1>4, StreamKept DEF RilInv, Writing, At
<1>11. RequestInv'
  BY <1>3, <1>9, RequestKept DEF RilInv
<1>12. NoLostWakeup'
  <2>1. work'[E] = work[E]
    BY <1>1, <1>4, MoveIs
  <2>2. SUFFICES ASSUME At(E, "enter") \/ At(E, "select") PROVE wake'
    BY <2>1 DEF NoLostWakeup, At
  <2>3. work[E] # <<>> /\ Head(work[E]).op \in {"enter", "select"} /\ work[E] \in Seq(Instructions) /\ Shape(work[E])
    BY <1>1, <2>2 DEF At, StackInv
  <2>4. 1 = Len(work[E]) /\ DOMAIN work[E] = {1} /\ work[E][1] = Head(work[E])
    <3>1. 1 \in DOMAIN work[E] /\ work[E][1] = Head(work[E]) /\ DOMAIN work[E] = 1..Len(work[E])
      BY <2>3
    <3>2. 1 = Len(work[E])
      BY <2>3, <3>1 DEF Shape
    <3>3. 1..1 = {1}
      OBVIOUS
    <3>4. DOMAIN work[E] = 1..1
      BY <3>1, <3>2
    <3> QED
      BY <3>1, <3>2, <3>3, <3>4
  <2>5. ~Has(E, {"add"})
    BY <2>3, <2>4 DEF Has
  <2>6. "wakeup" \in Watched
    BY <2>3, <2>5 DEF RilInv, TableInv
  <2> QED
    BY <1>3, <2>6
<1>13. LockReleased'
  BY <1>1, <1>2, <1>3, <1>4, LockKept DEF RilInv
<1> QED
  BY <1>5, <1>6, <1>7, <1>8, <1>9, <1>10, <1>11, <1>12, <1>13 DEF RilInv

-----------------------------------------------------------------------------
(* The table of events. *)

LEMMA WithEventIs ==
    ASSUME NEW w \in [1..MAX_FD_EVENTS -> Events \union {Null}], NEW e \in Events,
           DOMAIN watch = 1..MAX_FD_EVENTS,
           \A i, j \in 1..MAX_FD_EVENTS : w[i] = w[j] => i = j \/ w[i] = Null,
           \A i \in 1..MAX_FD_EVENTS : w[i] # e
    PROVE  /\ WithEvent(w, e) \in [1..MAX_FD_EVENTS -> Events \union {Null}]
           /\ \A i, j \in 1..MAX_FD_EVENTS : WithEvent(w, e)[i] = WithEvent(w, e)[j] => i = j \/ WithEvent(w, e)[i] = Null
           /\ \A i \in 1..MAX_FD_EVENTS : WithEvent(w, e)[i] \in {w[i], e}
           /\ \A i \in 1..MAX_FD_EVENTS : w[i] # Null => WithEvent(w, e)[i] = w[i]
<1> DEFINE n == MAX_FD_EVENTS
           first(i) == w[i] = Null /\ \A j \in 1..n : w[j] = Null => i <= j
           v == [i \in 1..n |-> IF first(i) THEN e ELSE w[i]]
<1>1. WithEvent(w, e) = v
  BY DEF WithEvent, slots
<1>2. \A i, j \in 1..n : first(i) /\ first(j) => i = j
  <2>1. n \in Nat
    BY RilAssumption
  <2> QED
    BY <2>1
<1> HIDE DEF first
<1>3. v \in [1..n -> Events \union {Null}] /\ \A i \in 1..n : v[i] = IF first(i) THEN e ELSE w[i]
  OBVIOUS
<1>4. \A i \in 1..n : first(i) => w[i] = Null
  BY DEF first
<1> HIDE DEF v
<1>5. \A i, j \in 1..n : v[i] = v[j] => i = j \/ v[i] = Null
  BY <1>2, <1>3
<1>6. \A i \in 1..n : w[i] # Null => v[i] = w[i]
  BY <1>3, <1>4
<1> QED
  BY <1>1, <1>3, <1>5, <1>6 DEF n

\* There is a slot for each event there is.
LEMMA ThereIsRoom ==
    ASSUME NEW w \in [1..MAX_FD_EVENTS -> Events \union {Null}],
           \A i, j \in 1..MAX_FD_EVENTS : w[i] = w[j] => i = j \/ w[i] = Null,
           \A i \in 1..MAX_FD_EVENTS : w[i] # "wakeup"
    PROVE  \E i \in 1..MAX_FD_EVENTS : w[i] = Null /\ \A j \in 1..MAX_FD_EVENTS : w[j] = Null => i <= j
<1>1. MAX_FD_EVENTS \in Nat /\ 1..4 \subseteq 1..MAX_FD_EVENTS
  BY RilAssumption
<1>2. w[1] = Null \/ w[2] = Null \/ w[3] = Null \/ w[4] = Null
  <2>1. SUFFICES ASSUME w[1] # Null, w[2] # Null, w[3] # Null, w[4] # Null PROVE FALSE
    OBVIOUS
  <2>2. {w[1], w[2], w[3], w[4]} \subseteq {"listen", "debug", "commands"}
    BY <1>1, <2>1 DEF Events
  <2>3. w[1] # w[2] /\ w[1] # w[3] /\ w[1] # w[4] /\ w[2] # w[3] /\ w[2] # w[4] /\ w[3] # w[4]
    BY <1>1, <2>1
  <2> QED
    BY <2>2, <2>3
<1>3. PICK i \in 1..4 : w[i] = Null /\ \A j \in 1..4 : w[j] = Null => i <= j
  BY <1>2
<1> QED
  BY <1>1, <1>3

\* What the table watches when an event has been added to it.
LEMMA Added ==
    ASSUME LoopTypes, NEW e \in Events, e \notin Watched, watch' = WithEvent(watch, e)
    PROVE  /\ watch' \in [1..MAX_FD_EVENTS -> Events \union {Null}] /\ slots' = slots
           /\ \A i, j \in slots : watch'[i] = watch'[j] => i = j \/ watch'[i] = Null
           /\ Watched \subseteq Watched' /\ Watched' \subseteq Watched \union {e}
           /\ e = "wakeup" => e \in Watched'
<1>1. slots = 1..MAX_FD_EVENTS /\ DOMAIN watch = 1..MAX_FD_EVENTS /\ e # Null
  BY RilAssumption DEF LoopTypes, slots, Events
<1>2. \A i \in 1..MAX_FD_EVENTS : watch[i] # e
  BY <1>1 DEF Watched
<1>3. /\ watch' \in [1..MAX_FD_EVENTS -> Events \union {Null}]
      /\ \A i, j \in 1..MAX_FD_EVENTS : watch'[i] = watch'[j] => i = j \/ watch'[i] = Null
      /\ \A i \in 1..MAX_FD_EVENTS : watch'[i] \in {watch[i], e}
      /\ \A i \in 1..MAX_FD_EVENTS : watch[i] # Null => watch'[i] = watch[i]
  <2>1. /\ watch \in [1..MAX_FD_EVENTS -> Events \union {Null}]
        /\ \A i, j \in 1..MAX_FD_EVENTS : watch[i] = watch[j] => i = j \/ watch[i] = Null
    BY <1>1 DEF LoopTypes
  <2> HIDE DEF WithEvent
  <2>2. /\ WithEvent(watch, e) \in [1..MAX_FD_EVENTS -> Events \union {Null}]
        /\ \A i, j \in 1..MAX_FD_EVENTS :
                WithEvent(watch, e)[i] = WithEvent(watch, e)[j] => i = j \/ WithEvent(watch, e)[i] = Null
        /\ \A i \in 1..MAX_FD_EVENTS : WithEvent(watch, e)[i] \in {watch[i], e}
        /\ \A i \in 1..MAX_FD_EVENTS : watch[i] # Null => WithEvent(watch, e)[i] = watch[i]
    BY <1>1, <1>2, <2>1, WithEventIs
  <2> QED
    BY <2>2
<1>4. slots' = 1..MAX_FD_EVENTS
  BY <1>3 DEF slots
<1>5. Watched \subseteq Watched' /\ Watched' \subseteq Watched \union {e}
  BY <1>1, <1>3, <1>4 DEF Watched
<1>6. ASSUME e = "wakeup" PROVE e \in Watched'
  <2>2. PICK i \in 1..MAX_FD_EVENTS : watch[i] = Null /\ \A j \in 1..MAX_FD_EVENTS : watch[j] = Null => i <= j
    BY <1>1, <1>2, <1>6, ThereIsRoom DEF LoopTypes
  <2>3. watch'[i] = e
    BY <1>1, <2>2 DEF WithEvent
  <2> QED
    BY <1>1, <1>4, <2>3 DEF Watched
<1> QED
  BY <1>1, <1>3, <1>4, <1>5, <1>6

\* The only instruction of the stack: what the event loop does between callbacks.
LEMMA Alone ==
    ASSUME StackInv, NEW op \in {"ril_event_loop", "enter", "select"}, At(E, op)
    PROVE  /\ work[E] \in Seq(Instructions) /\ work[E] # <<>> /\ Len(work[E]) = 1
           /\ DOMAIN work[E] = {1} /\ work[E][1].op = op /\ E \in Threads /\ ~dead
           /\ \A ops : Has(E, ops) <=> op \in ops
           /\ \A ins \in Seq(Instructions) : Goes(E, ins) =>
                work'[E] = ins /\ work' \in [Threads -> Seq(Instructions)]
                /\ \A q \in Threads : q # E => work'[q] = work[q]
<1>1. E \in Threads
  BY DEF Threads
<1>2. /\ work[E] \in Seq(Instructions) /\ work[E] # <<>> /\ 1 \in DOMAIN work[E]
      /\ work[E][1].op = op
  BY <1>1, HeadIs
<1>3. Shape(work[E])
  BY DEF StackInv
<1>4. Len(work[E]) = 1
  BY <1>2, <1>3 DEF Shape
<1>5. DOMAIN work[E] = {1}
  <2>1. DOMAIN work[E] = 1..1 /\ 1..1 = {1}
    BY <1>2, <1>4
  <2> QED
    BY <2>1
<1>6. \A ops : Has(E, ops) <=> op \in ops
  BY <1>2, <1>5 DEF Has
<1>7. ~dead
  BY <1>1, <1>2 DEF StackInv
<1>8. ASSUME NEW ins \in Seq(Instructions), Goes(E, ins)
      PROVE  work'[E] = ins /\ work' \in [Threads -> Seq(Instructions)]
                /\ \A q \in Threads : q # E => work'[q] = work[q]
  <2>1. Tail(work[E]) = <<>>
    <3>1. Tail(work[E]) \in Seq(Instructions) /\ Len(Tail(work[E])) = 0
      BY <1>2, <1>4, HeadTailProperties
    <3> QED
      BY <3>1, EmptySeq
  <2>2. ins \o <<>> = ins
    BY ConcatEmptySeq
  <2>3. work' = [work EXCEPT ![E] = ins]
    BY <1>8, <2>1, <2>2 DEF Goes
  <2> QED
    BY <1>1, <2>3 DEF StackInv
<1> QED
  BY <1>1, <1>2, <1>4, <1>5, <1>6, <1>7, <1>8

\* While a callback is carried out the loop is not in select().
LEMMA OnTop ==
    ASSUME StackInv, NEW op, At(E, op)
    PROVE  /\ Has(E, {"checkCredentials"}) => op = "checkCredentials"
           /\ Has(E, {"enter", "select"}) => op \in {"enter", "select"}
<1>1. E \in Threads
  BY DEF Threads
<1>2. 1 \in DOMAIN work[E] /\ work[E][1].op = op /\ work[E] \in Seq(Instructions)
  BY <1>1, HeadIs
<1>3. Shape(work[E])
  BY DEF StackInv
<1>4. \A i \in DOMAIN work[E] : i = 1 \/ i > 1
  BY <1>2
<1> QED
  BY <1>2, <1>3, <1>4 DEF Has, Shape, Under

\* What comes at most once is gone when it is taken off.
LEMMA Popped ==
    ASSUME StackInv, NEW op \in {"listen", "debug", "commands", "add"}, At(E, op),
           NEW ins, Move(E, ins), \A i \in DOMAIN ins : ins[i].op # op
    PROVE  ~Has(E, {op})'
<1>1. E \in Threads
  BY DEF Threads
<1>2. 1 \in DOMAIN work[E] /\ work[E][1].op = op /\ work[E] \in Seq(Instructions)
  BY <1>1, HeadIs
<1>3. Shape(work[E])
  BY DEF StackInv
<1>4. Over(work'[E], ins, work[E])
  BY MoveIs
<1>5. \A j \in DOMAIN work[E] : work[E][j].op = op => j = 1
  BY <1>2, <1>3 DEF Shape
<1>6. ASSUME NEW i \in DOMAIN work'[E], work'[E][i].op = op PROVE FALSE
  <2>1. \/ \E j \in DOMAIN ins : work'[E][i] = ins[j]
        \/ \E j \in DOMAIN work[E] : j > 1 /\ work'[E][i] = work[E][j]
    BY <1>4, From
  <2>2. \E j \in DOMAIN work[E] : j > 1 /\ work'[E][i] = work[E][j]
    BY <1>6, <2>1
  <2>3. PICK j \in DOMAIN work[E] : j > 1 /\ work[E][j].op = op
    BY <1>6, <2>2
  <2> QED
    BY <1>5, <2>3
<1> QED
  BY <1>6 DEF Has

\* What is left to show of a callback.
LEMMA LoopStep ==
    ASSUME RilInv, NEW ins, Move(E, ins), dead' = dead, UNCHANGED <<timers, block, last, lock>>,
           Head(work[E]).op \notin {"schedule", "timer", "releaseWakeLock", "userTimerCallback"},
           \A i \in DOMAIN ins : ins[i].op \notin {"userTimerCallback", "free"},
           LoopTypes', ClientTypes', TableInv', StreamInv', RequestInv'
    PROVE  RilInv'
<1>1. StackInv /\ StackInv' /\ E # V
  BY StackKept DEF RilInv, E, V
<1>2. TimerInv'
  BY <1>1, TimerKept DEF RilInv, TimerInv
<1>3. NoLostWakeup'
  BY <1>1, WakeKept DEF RilInv
<1>4. LockReleased'
  BY <1>1, LockKept DEF RilInv
<1> QED
  BY <1>1, <1>2, <1>3, <1>4 DEF RilInv

LEMMA ril_event_addKeeps ==
    ASSUME RilInv, ril_event_add(E), scenario' = scenario
    PROVE  RilInv'
<1>1. StackInv /\ At(E, "add") /\ Goes(E, <<>>) /\ E \in Threads /\ M \in Threads /\ E # M /\ LoopTypes
  BY DEF RilInv, ril_event_add, Threads, E, M
<1>2. /\ work[E] # <<>> /\ Head(work[E]).op = "add" /\ 1 \in DOMAIN work[E]
      /\ Head(work[E]) = work[E][1] /\ Head(work[E]).event = "wakeup"
  <2>1. work[E] # <<>> /\ Head(work[E]).op = "add" /\ 1 \in DOMAIN work[E] /\ Head(work[E]) = work[E][1]
    BY <1>1, HeadIs
  <2> QED
    BY <1>1, <2>1 DEF StackInv
<1>3. /\ watch' = WithEvent(watch, "wakeup")
      /\ UNCHANGED <<dead, ended, sel, wake>> /\ UNCHANGED <<timers, block, last, lock>>
      /\ UNCHANGED <<client, backlog, inbox, fdCommand, sock, cut>> /\ UNCHANGED <<request, vendor>>
      /\ UNCHANGED <<stash, writer, stream, debug, used>>
  BY <1>2 DEF ril_event_add, timerVars, sockVars, requestVars, sendVars
<1>4. Move(E, <<>>) /\ DOMAIN <<>> = {}
  BY <1>1, <1>2, MoveNone
<1>5. "wakeup" \notin Watched /\ "wakeup" \in Events
  BY <1>1, HasTop DEF RilInv, TableInv, Events
<1>6. /\ watch' \in [1..MAX_FD_EVENTS -> Events \union {Null}] /\ slots' = slots
      /\ \A i, j \in slots : watch'[i] = watch'[j] => i = j \/ watch'[i] = Null
      /\ Watched \subseteq Watched' /\ Watched' \subseteq Watched \union {"wakeup"}
      /\ "wakeup" \in Watched'
  BY <1>1, <1>3, <1>5, Added
<1>7. LoopTypes'
  BY <1>3, <1>6 DEF RilInv, LoopTypes
<1>8. ClientTypes'
  BY <1>3 DEF RilInv, ClientTypes
<1>9. TableInv' /\ (Listening' <=> Listening)
  <2>1. ~Has(E, {"add"})'
    BY <1>1, <1>4, Popped
  <2>2. /\ (Has(E, {"listen"})' <=> Has(E, {"listen"}))
        /\ (Has(E, {"commands"})' <=> Has(E, {"commands"}))
        /\ (Has(E, {"checkCredentials"})' <=> Has(E, {"checkCredentials"}))
        /\ (Has(E, {"debug"})' <=> Has(E, {"debug"}))
        /\ (Has(E, {"enter", "select"})' => Has(E, {"enter", "select"}))
    BY <1>1, <1>2, <1>4, TokensOf
  <2>3. \A e \in {"listen", "commands", "debug"} : e \in Watched' <=> e \in Watched
    BY <1>6
  <2>4. work'[M] = work[M]
    BY <1>1, <1>4, MoveIs
  <2>5. Listening' <=> Listening
    BY <2>2, <2>3, <2>4 DEF Listening
  <2>6. ~ended
    BY <1>2 DEF RilInv, TableInv
  <2>7. Has(E, {"enter", "select"})' => sel.fds' \subseteq Watched'
    BY <1>3, <1>6, <2>2 DEF RilInv, TableInv
  <2> QED
    BY <1>3, <1>6, <2>1, <2>2, <2>3, <2>4, <2>5, <2>6, <2>7 DEF RilInv, TableInv
<1>10. StreamInv'
  BY <1>1, <1>2, <1>3, <1>4, StreamKept DEF RilInv, Writing, At
<1>11. RequestInv'
  BY <1>3, <1>9, RequestKept DEF RilInv
<1> QED
  BY <1>2, <1>3, <1>4, <1>7, <1>8, <1>9, <1>10, <1>11, LoopStep

\* What E and V share with main() only.
LEMMA NotOnStack ==
    ASSUME RilInv
    PROVE  /\ ~At(V, "add") /\ ~At(E, "triggerEvLoop")
           /\ ~At(E, "RIL_startEventLoop") /\ ~At(E, "RIL_Init") /\ ~At(E, "RIL_register")
<1>1. StackInv /\ E \in Threads /\ V \in Threads
  BY DEF RilInv, Threads
<1>2. \A t \in Threads, op \in {"add", "triggerEvLoop", "RIL_startEventLoop", "RIL_Init", "RIL_register"} :
        At(t, op) => 1 \in DOMAIN work[t] /\ work[t][1].op = op
  BY <1>1, HeadIs
<1> QED
  BY <1>1, <1>2 DEF StackInv, OfV, NotOfE

LEMMA SharedKeeps ==
    ASSUME RilInv, NEW t \in {E, V}, Shared(t), scenario' = scenario
    PROVE  RilInv'
<1>1. CASE ril_event_add(t)
  <2>1. t = E
    BY <1>1, NotOnStack DEF ril_event_add
  <2> QED
    BY <1>1, <2>1, ril_event_addKeeps
<1>2. CASE triggerEvLoop(t)
  <2>1. t = V
    BY <1>2, NotOnStack DEF triggerEvLoop
  <2> QED
    BY <1>2, <2>1, triggerEvLoopKeeps
<1> QED
  BY <1>1, <1>2, internalRequestTimedCallbackKeeps, setLastKeeps, scheduleKeeps, cancelPreviousKeeps,
     sendResponseRawKeeps, blockingWriteKeeps, closeAfterWriteKeeps, keepNITZKeeps,
     grabPartialWakeLockKeeps, releaseWakeLockKeeps, RIL_onRequestCompleteKeeps DEF Shared

-----------------------------------------------------------------------------
(* The event loop: callbacks. *)

LEMMA ril_event_initKeeps ==
    ASSUME RilInv, ril_event_init, scenario' = scenario
    PROVE  RilInv'
<1>1. StackInv /\ At(E, "ril_event_init") /\ Goes(E, <<>>) /\ E \in Threads
  BY DEF RilInv, ril_event_init, Threads
<1>2. work[E] # <<>> /\ Head(work[E]).op = "ril_event_init"
  BY <1>1, HeadIs
<1>3. stash' \in Nat \union {Null}
  BY DEF RilInv, ClientTypes, ril_event_init, sendVars
<1>4. /\ UNCHANGED <<dead, ended, watch, sel, wake>> /\ UNCHANGED <<timers, block, last, lock>>
      /\ UNCHANGED <<client, backlog, inbox, fdCommand, sock, cut>> /\ UNCHANGED <<request, vendor>>
      /\ UNCHANGED <<writer, stream, debug, used>>
  BY DEF ril_event_init, loopVars, timerVars, sockVars, requestVars, sendVars
<1> QED
  BY <1>1, <1>2, <1>3, <1>4, MoveNone, Quiet DEF Tokens

LEMMA processWakeupCallbackKeeps ==
    ASSUME RilInv, processWakeupCallback, scenario' = scenario
    PROVE  RilInv'
<1>1. StackInv /\ At(E, "wakeup") /\ Goes(E, <<>>) /\ E \in Threads /\ E # V
  BY DEF RilInv, processWakeupCallback, Threads, E, V
<1>2. work[E] # <<>> /\ Head(work[E]).op = "wakeup"
  BY <1>1, HeadIs
<1>3. /\ UNCHANGED <<dead, ended, watch, sel>> /\ UNCHANGED <<timers, block, last, lock>>
      /\ UNCHANGED <<client, backlog, inbox, fdCommand, sock, cut>> /\ UNCHANGED <<request, vendor>>
      /\ UNCHANGED <<stash, writer, stream, debug, used>> /\ wake' = FALSE
  BY DEF processWakeupCallback, timerVars, sockVars, requestVars, sendVars
<1>4. Move(E, <<>>) /\ DOMAIN <<>> = {}
  BY <1>1, <1>2, MoveNone
<1>5. LoopTypes'
  BY <1>3 DEF RilInv, LoopTypes, slots
<1>6. ClientTypes'
  BY <1>3 DEF RilInv, ClientTypes
<1>7. StreamInv'
  BY <1>1, <1>2, <1>3, <1>4, StreamKept DEF RilInv, Writing, At
<1>8. (Listening' => Listening) => RequestInv'
  BY <1>3, RequestKept DEF RilInv
<1> QED
  BY <1>1, <1>2, <1>3, <1>4, <1>5, <1>6, <1>7, <1>8, Calm DEF Tokens

LEMMA sendNITZKeeps ==
    ASSUME RilInv, sendNITZ, scenario' = scenario
    PROVE  RilInv'
<1>1. StackInv /\ At(E, "sendNITZ") /\ E \in Threads /\ E # V
  BY DEF RilInv, sendNITZ, Threads, E, V
<1>2. work[E] # <<>> /\ Head(work[E]).op = "sendNITZ"
  BY <1>1, HeadIs
<1>3. stash \in Nat \union {Null} /\ stash' = stash
  BY DEF RilInv, ClientTypes, sendNITZ, sendVars
<1>4. /\ UNCHANGED <<dead, ended, watch, sel, wake>> /\ UNCHANGED <<timers, block, last, lock>>
      /\ UNCHANGED <<client, backlog, inbox, fdCommand, sock, cut>> /\ UNCHANGED <<request, vendor>>
      /\ UNCHANGED <<writer, stream, debug, used>>
  BY DEF sendNITZ, loopVars, timerVars, sockVars, requestVars, sendVars
<1> DEFINE x == [op |-> "send", frame |-> [NoFrame EXCEPT !.nitz = stash]]
           y == I("freeNITZ")
           ins == <<x, y>>
<1>5. x \in Instructions /\ x.op = "send" /\ y \in Instructions /\ y.op = "freeNITZ"
  BY <1>3, Made, FrameIs DEF Plain
<1>6. Goes(E, <<>>) \/ Goes(E, ins)
  BY DEF sendNITZ
<1> HIDE DEF x, y
<1>7. CASE Goes(E, <<>>)
  BY <1>1, <1>2, <1>3, <1>4, <1>7, MoveNone, Quiet DEF Tokens
<1>8. CASE Goes(E, ins)
  <2>1. /\ Fits(ins, work[E]) /\ ins \in Seq(Instructions)
        /\ DOMAIN ins = {1, 2} /\ ins[1] = x /\ ins[2] = y
    BY <1>5, FitsTwo DEF Plainly, Under
  <2> HIDE DEF ins
  <2>2. Move(E, ins)
    BY <1>1, <1>2, <1>5, <1>8, <2>1 DEF Move, NotOfE
  <2>3. \A i \in DOMAIN ins : ins[i].op \notin Tokens \union {"userTimerCallback", "free", "payload", "close"}
    BY <1>5, <2>1 DEF Tokens
  <2> QED
    BY <1>2, <1>3, <1>4, <2>2, <2>3, Quiet DEF Tokens
<1> QED
  BY <1>6, <1>7, <1>8

LEMMA freeNITZKeeps ==
    ASSUME RilInv, freeNITZ, scenario' = scenario
    PROVE  RilInv'
<1>1. StackInv /\ At(E, "freeNITZ") /\ Goes(E, <<>>) /\ E \in Threads
  BY DEF RilInv, freeNITZ, Threads
<1>2. work[E] # <<>> /\ Head(work[E]).op = "freeNITZ"
  BY <1>1, HeadIs
<1>3. stash' \in Nat \union {Null}
  BY DEF freeNITZ
<1>4. /\ UNCHANGED <<dead, ended, watch, sel, wake>> /\ UNCHANGED <<timers, block, last, lock>>
      /\ UNCHANGED <<client, backlog, inbox, fdCommand, sock, cut>> /\ UNCHANGED <<request, vendor>>
      /\ UNCHANGED <<writer, stream, debug, used>>
  BY DEF freeNITZ, loopVars, timerVars, sockVars, requestVars
<1> QED
  BY <1>1, <1>2, <1>3, <1>4, MoveNone, Quiet DEF Tokens

\* A RequestInfo that is new, and what that leaves of the others.
LEMMA NewRequestIs ==
    ASSUME ClientTypes, NEW r \in Requests, NEW conn \in Conns \union {Null}, NEW local \in BOOLEAN,
           NewRequest(r, conn, local)
    PROVE  /\ request' \in [Requests -> [conn : Conns \union {Null}, local : BOOLEAN, cancelled : BOOLEAN, pending : BOOLEAN]]
           /\ request'[r] = [conn |-> conn, local |-> local, cancelled |-> FALSE, pending |-> TRUE]
           /\ \A q \in Requests : q # r => request'[q] = request[q]
<1>1. [conn |-> conn, local |-> local, cancelled |-> FALSE, pending |-> TRUE] \in
        [conn : Conns \union {Null}, local : BOOLEAN, cancelled : BOOLEAN, pending : BOOLEAN]
  OBVIOUS
<1> QED
  BY <1>1 DEF ClientTypes, NewRequest

LEMMA issueLocalRequestKeeps ==
    ASSUME RilInv, issueLocalRequest, scenario' = scenario
    PROVE  RilInv'
<1>1. StackInv /\ At(E, "issueLocalRequest") /\ E \in Threads /\ E # V
  BY DEF RilInv, issueLocalRequest, Threads, E, V
<1>2. work[E] # <<>> /\ Head(work[E]).op = "issueLocalRequest"
  BY <1>1, HeadIs
<1>3. PICK r \in Requests : /\ NewRequest(r, Null, TRUE)
                            /\ \/ vendor' = vendor /\ Goes(E, Complete(r))
                               \/ vendor' = vendor \union {r} /\ Goes(E, <<>>)
  BY DEF issueLocalRequest
<1>4. /\ UNCHANGED <<dead, ended, watch, sel, wake>> /\ UNCHANGED <<timers, block, last, lock>>
      /\ UNCHANGED <<client, backlog, inbox, fdCommand, sock, cut>>
      /\ UNCHANGED <<stash, writer, stream, debug, used>>
  BY DEF issueLocalRequest, loopVars, timerVars, sockVars, sendVars
<1>5. /\ request' \in [Requests -> [conn : Conns \union {Null}, local : BOOLEAN, cancelled : BOOLEAN, pending : BOOLEAN]]
      /\ request'[r] = [conn |-> Null, local |-> TRUE, cancelled |-> FALSE, pending |-> TRUE]
      /\ \A q \in Requests : q # r => request'[q] = request[q]
  BY <1>3, NewRequestIs DEF RilInv
<1>6. LoopTypes'
  BY <1>4 DEF RilInv, LoopTypes, slots
<1>7. ClientTypes'
  BY <1>3, <1>4, <1>5 DEF RilInv, ClientTypes
<1>8. (Listening' => Listening) => RequestInv'
  <2>1. request'[r].local
    BY <1>5
  <2> QED
    BY <1>4, <1>5, <2>1 DEF RilInv, RequestInv, PendingIsCurrent, Current
<1>9. PICK ins : Move(E, ins) /\ \A i \in DOMAIN ins : ins[i].op = "complete"
  <2>1. CASE Goes(E, <<>>)
    BY <1>1, <1>2, <2>1, MoveNone
  <2>2. CASE Goes(E, Complete(r))
    <3> DEFINE x == [op |-> "complete", request |-> r]
    <3>1. x \in Instructions /\ x.op = "complete"
      BY Made
    <3>2. Goes(E, <<x>>)
      BY <2>2 DEF Complete
    <3> HIDE DEF x
    <3>3. Move(E, <<x>>) /\ DOMAIN <<x>> = {1} /\ <<x>>[1] = x
      BY <1>1, <1>2, <3>1, <3>2, MoveOne DEF Plainly, OfV
    <3> QED
      BY <3>1, <3>3
  <2> QED
    BY <1>3, <2>1, <2>2
<1>10. StreamInv'
  BY <1>1, <1>2, <1>4, <1>9, StreamKept DEF RilInv, Writing, At
<1> QED
  BY <1>1, <1>2, <1>4, <1>6, <1>7, <1>8, <1>9, <1>10, Calm DEF Tokens

\* What a callback is left with when it only changes its stack and the requests.
LEMMA ReadKeeps ==
    ASSUME RilInv, At(E, "commands"), NEW ins, Move(E, ins), scenario' = scenario,
           UNCHANGED <<dead, ended, watch, sel, wake>>, UNCHANGED <<timers, block, last, lock>>,
           UNCHANGED <<client, backlog, fdCommand, sock, cut>>, inbox' \in [Conns -> Int],
           UNCHANGED <<stash, writer, stream, debug, used>>, vendor' \subseteq Requests,
           request' \in [Requests -> [conn : Conns \union {Null}, local : BOOLEAN, cancelled : BOOLEAN, pending : BOOLEAN]],
           fdCommand, sock # Null,
           \A r \in Requests : request'[r] = request[r] \/ request'[r].conn = sock,
           \A i \in DOMAIN ins : ins[i].op \in {"complete", "commands"}
    PROVE  RilInv'
<1>1. StackInv /\ E \in Threads /\ E # V
  BY DEF RilInv, Threads, E, V
<1>2. work[E] # <<>> /\ Head(work[E]).op = "commands"
  BY <1>1, HeadIs
<1>3. LoopTypes'
  BY DEF RilInv, LoopTypes, slots
<1>4. ClientTypes'
  BY DEF RilInv, ClientTypes
<1>5. Has(E, {"commands"})
  BY <1>1, HasTop
<1>6. TableInv' /\ (Listening' <=> Listening)
  <2>1. /\ (Has(E, {"listen"})' <=> Has(E, {"listen"}))
        /\ (Has(E, {"checkCredentials"})' <=> Has(E, {"checkCredentials"}))
        /\ (Has(E, {"debug"})' <=> Has(E, {"debug"}))
        /\ (Has(E, {"add"})' <=> Has(E, {"add"}))
        /\ (Has(E, {"enter", "select"})' <=> Has(E, {"enter", "select"}))
    BY <1>1, <1>2, TokensOf
  <2>2. Has(E, {"debug"})' => debug' # Null
    BY <2>1 DEF RilInv, TableInv
  <2> QED
    BY <1>1, <1>5, <2>1, <2>2, TableSame DEF RilInv
<1>7. StreamInv'
  BY <1>1, <1>2, StreamKept DEF RilInv, Writing, At
<1>8. RequestInv'
  BY <1>6 DEF RilInv, RequestInv, PendingIsCurrent, Current, TableInv
<1> QED
  BY <1>2, <1>3, <1>4, <1>6, <1>7, <1>8, LoopStep

LEMMA processCommandKeeps ==
    ASSUME RilInv, processCommand, scenario' = scenario
    PROVE  RilInv'
<1>1. StackInv /\ At(E, "commands") /\ E \in Threads /\ E # V /\ fdCommand /\ sock # Null /\ sock \in Conns
  BY DEF RilInv, processCommand, Threads, E, V, ClientTypes
<1>2. work[E] # <<>> /\ Head(work[E]).op = "commands"
  BY <1>1, HeadIs
<1> DEFINE again == I("commands")
<1>3. \/ Goes(E, <<again>>) /\ UNCHANGED <<request, vendor>>
      \/ \E r \in Requests :
            /\ NewRequest(r, sock, FALSE)
            /\ \/ vendor' = vendor /\ Goes(E, <<again>>)
               \/ vendor' = vendor /\ Goes(E, Complete(r) \o <<again>>)
               \/ vendor' = vendor \union {r} /\ Goes(E, <<again>>)
  BY DEF processCommand
<1>4. /\ UNCHANGED <<dead, ended, watch, sel, wake>> /\ UNCHANGED <<timers, block, last, lock>>
      /\ UNCHANGED <<client, backlog, fdCommand, sock, cut>>
      /\ UNCHANGED <<stash, writer, stream, debug, used>>
  BY DEF processCommand, loopVars, timerVars, sendVars
<1>5. inbox' \in [Conns -> Int]
  <2>1. inbox' = [inbox EXCEPT ![sock] = inbox[sock] - 1]
    BY DEF processCommand
  <2> QED
    BY <1>1, <2>1 DEF RilInv, ClientTypes
<1>6. again \in Instructions /\ again.op = "commands"
  BY Made DEF Plain
<1> HIDE DEF again
<1>7. ASSUME NEW ins, ins = <<again>> \/ \E r \in Requests : ins = Complete(r) \o <<again>>, Goes(E, ins)
      PROVE  Move(E, ins) /\ \A i \in DOMAIN ins : ins[i].op \in {"complete", "commands"}
  <2>1. CASE ins = <<again>>
    <3>1. /\ ins \in Seq(Instructions) /\ DOMAIN ins = {1} /\ ins[1] = again /\ Len(ins) = 1
      BY <1>6, <2>1
    <3>2. Fits(ins, work[E])
      BY <1>2, <1>6, <3>1 DEF Fits
    <3> QED
      BY <1>1, <1>2, <1>6, <1>7, <3>1, <3>2 DEF Move, NotOfE
  <2>2. CASE \E r \in Requests : ins = Complete(r) \o <<again>>
    <3>1. PICK r \in Requests : ins = Complete(r) \o <<again>>
      BY <2>2
    <3> DEFINE x == [op |-> "complete", request |-> r]
    <3>2. x \in Instructions /\ x.op = "complete"
      BY Made
    <3>3. ins = <<x>> \o <<again>>
      BY <3>1 DEF Complete
    <3> HIDE DEF x
    <3>4. ins = <<x, again>>
      BY <3>3, JoinOne
    <3>5. /\ Fits(ins, work[E]) /\ ins \in Seq(Instructions)
          /\ DOMAIN ins = {1, 2} /\ ins[1] = x /\ ins[2] = again
      <4>1. x.op \in Plainly /\ again.op = "commands" /\ Head(work[E]).op = "commands"
        BY <1>2, <1>6, <3>2 DEF Plainly
      <4>2. /\ Fits(<<x, again>>, work[E]) /\ <<x, again>> \in Seq(Instructions)
            /\ DOMAIN <<x, again>> = {1, 2} /\ <<x, again>>[1] = x /\ <<x, again>>[2] = again
        BY <1>6, <3>2, <4>1, FitsTwo
      <4> QED
        BY <3>4, <4>2
    <3> QED
      BY <1>1, <1>2, <1>6, <1>7, <3>2, <3>5 DEF Move, NotOfE
  <2> QED
    BY <1>7, <2>1, <2>2
<1>8. CASE Goes(E, <<again>>) /\ UNCHANGED <<request, vendor>>
  <2>1. /\ request' \in [Requests -> [conn : Conns \union {Null}, local : BOOLEAN, cancelled : BOOLEAN, pending : BOOLEAN]]
        /\ vendor' \subseteq Requests
    BY <1>8 DEF RilInv, ClientTypes
  <2> QED
    BY <1>1, <1>4, <1>5, <1>7, <1>8, <2>1, ReadKeeps
<1>9. CASE \E r \in Requests :
            /\ NewRequest(r, sock, FALSE)
            /\ \/ vendor' = vendor /\ Goes(E, <<again>>)
               \/ vendor' = vendor /\ Goes(E, Complete(r) \o <<again>>)
               \/ vendor' = vendor \union {r} /\ Goes(E, <<again>>)
  <2>1. PICK r \in Requests :
            /\ NewRequest(r, sock, FALSE)
            /\ \/ vendor' = vendor /\ Goes(E, <<again>>)
               \/ vendor' = vendor /\ Goes(E, Complete(r) \o <<again>>)
               \/ vendor' = vendor \union {r} /\ Goes(E, <<again>>)
    BY <1>9
  <2>2. /\ request' \in [Requests -> [conn : Conns \union {Null}, local : BOOLEAN, cancelled : BOOLEAN, pending : BOOLEAN]]
        /\ request'[r] = [conn |-> sock, local |-> FALSE, cancelled |-> FALSE, pending |-> TRUE]
        /\ \A q \in Requests : q # r => request'[q] = request[q]
    BY <1>1, <2>1, NewRequestIs DEF RilInv
  <2>3. vendor' \subseteq Requests
    BY <2>1 DEF RilInv, ClientTypes
  <2>4. \A q \in Requests : request'[q] = request[q] \/ request'[q].conn = sock
    BY <2>2
  <2>5. PICK ins : Move(E, ins) /\ \A i \in DOMAIN ins : ins[i].op \in {"complete", "commands"}
    BY <1>7, <2>1
  <2> QED
    BY <1>1, <1>4, <1>5, <2>2, <2>3, <2>4, <2>5, ReadKeeps
<1> QED
  BY <1>3, <1>8, <1>9

LEMMA commandsReadKeeps ==
    ASSUME RilInv, commandsRead, scenario' = scenario
    PROVE  RilInv'
<1>1. StackInv /\ At(E, "commands") /\ Goes(E, <<>>) /\ E \in Threads /\ fdCommand /\ sock # Null
  BY DEF RilInv, commandsRead, Threads
<1>2. work[E] # <<>>
  BY <1>1, HeadIs
<1>3. /\ UNCHANGED <<dead, ended, watch, sel, wake>> /\ UNCHANGED <<timers, block, last, lock>>
      /\ UNCHANGED <<client, backlog, inbox, fdCommand, sock, cut>> /\ UNCHANGED <<request, vendor>>
      /\ UNCHANGED <<stash, writer, stream, debug, used>>
  BY DEF commandsRead, loopVars, timerVars, sockVars, requestVars, sendVars
<1>4. Move(E, <<>>) /\ DOMAIN <<>> = {}
  BY <1>1, <1>2, MoveNone
<1>5. /\ request' \in [Requests -> [conn : Conns \union {Null}, local : BOOLEAN, cancelled : BOOLEAN, pending : BOOLEAN]]
      /\ vendor' \subseteq Requests /\ inbox' \in [Conns -> Int]
  BY <1>3 DEF RilInv, ClientTypes
<1> QED
  BY <1>1, <1>3, <1>4, <1>5, ReadKeeps

\* Whoever still writes when E closes the socket writes to nobody.
LEMMA SocketGone ==
    ASSUME RilInv, NEW ins, Move(E, ins),
           Head(work[E]).op \notin {"payload", "close"}, \A i \in DOMAIN ins : ins[i].op \notin {"payload", "close"},
           UNCHANGED <<backlog, stream, writer, dead>>, sock' = Null,
           \A c \in Conns : client'[c] = "none" <=> client[c] = "none"
    PROVE  StreamInv'
<1>1. StackInv /\ V \in Threads /\ E # V
  BY DEF RilInv, Threads, E, V
<1>2. ~Writing(E) /\ ~At(E, "payload") /\ ~At(E, "payload")' /\ ~At(E, "close")'
  BY <1>1, TopOf DEF Writing, At, Under
<1>3. work'[V] = work[V]
  BY <1>1, MoveIs
<1>4. (Writing(V)' <=> Writing(V)) /\ (At(V, "payload")' <=> At(V, "payload")) /\ ~Writing(E)'
  BY <1>2, <1>3 DEF Writing, At
<1>5. At(V, "payload") => Head(work[V]).conn \in Conns
  BY <1>1, HeadIs, Fields
<1>6. Null \notin Conns /\ \A i \in DOMAIN backlog : backlog[i] \in Conns
  BY RilAssumption DEF RilInv, ClientTypes
<1>7. (\A t \in {E, V} : Writing(t) => writer = t)' /\ (writer # Null => dead \/ (writer \in {E, V} /\ Writing(writer)))'
  BY <1>2, <1>4 DEF RilInv, StreamInv
<1>8. (\A t \in {E, V} : At(t, "payload") =>
          /\ client[Head(work[t]).conn] # "none"
          /\ \A i \in DOMAIN backlog : backlog[i] # Head(work[t]).conn)'
  BY <1>2, <1>3, <1>4, <1>5 DEF RilInv, StreamInv
<1>9. (\A t \in {E, V} : At(t, "payload") /\ Head(work[t]).conn = sock => stream[sock] \in {t, "orphan"})'
  BY <1>2, <1>3, <1>4, <1>5, <1>6
<1> QED
  BY <1>6, <1>7, <1>8, <1>9 DEF RilInv, StreamInv

\* The callbacks that end the client: nothing more is watched, and no request is
\* left to answer.
LEMMA EndKeeps ==
    ASSUME RilInv, At(E, "commands") \/ At(E, "checkCredentials"), Goes(E, <<>>), scenario' = scenario,
           UNCHANGED <<dead, ended, sel, wake>>, UNCHANGED <<timers, block, last, lock>>,
           UNCHANGED <<backlog, inbox, vendor>>, UNCHANGED <<stash, writer, stream, debug, used>>,
           fdCommand, client' \in [Conns -> {"none", "open", "gone"}],
           \A c \in Conns : client'[c] = "none" <=> client[c] = "none",
           sock' = Null, fdCommand' = FALSE, cut' = FALSE, request' = Cancelled,
           watch' = commandsClosed(watch)
    PROVE  RilInv'
<1>1. StackInv /\ E \in Threads /\ M \in Threads /\ E # V /\ E # M /\ LoopTypes
  BY DEF RilInv, Threads, E, V, M
<1>2. work[E] # <<>> /\ Head(work[E]).op \in {"commands", "checkCredentials"}
  BY <1>1, HeadIs
<1>3. Move(E, <<>>) /\ DOMAIN <<>> = {}
  BY <1>1, <1>2, MoveNone
<1>4. ~Listening /\ "listen" \notin Watched /\ ~Has(E, {"listen"}) /\ ~(Len(work[M]) >= 4)
  BY DEF RilInv, TableInv, Listening
<1> DEFINE w == WithoutEvents(watch, {"commands"})
<1>5. /\ w \in [1..MAX_FD_EVENTS -> Events \union {Null}]
      /\ \A i, j \in 1..MAX_FD_EVENTS : w[i] = w[j] => i = j \/ w[i] = Null
      /\ \A i \in 1..MAX_FD_EVENTS : w[i] # "commands" /\ w[i] # "listen"
      /\ \A i \in 1..MAX_FD_EVENTS : watch[i] # "commands" => w[i] = watch[i]
      /\ \A i \in 1..MAX_FD_EVENTS : w[i] \in {watch[i], Null}
      /\ slots = 1..MAX_FD_EVENTS /\ DOMAIN watch = 1..MAX_FD_EVENTS
  <2>1. /\ slots = 1..MAX_FD_EVENTS /\ DOMAIN watch = 1..MAX_FD_EVENTS
        /\ watch \in [1..MAX_FD_EVENTS -> Events \union {Null}]
        /\ \A i, j \in 1..MAX_FD_EVENTS : watch[i] = watch[j] => i = j \/ watch[i] = Null
    BY <1>1 DEF LoopTypes, slots
  <2>2. w = [i \in 1..MAX_FD_EVENTS |-> IF watch[i] = "commands" THEN Null ELSE watch[i]]
    BY <2>1 DEF WithoutEvents
  <2>3. \A i \in 1..MAX_FD_EVENTS : watch[i] # "listen"
    BY <1>4, <2>1, RilAssumption DEF Watched
  <2> HIDE DEF w
  <2> QED
    BY <2>1, <2>2, <2>3, RilAssumption
<1> HIDE DEF w
<1>6. watch' = WithEvent(w, "listen")
  BY DEF commandsClosed, w
<1>7. /\ watch' \in [1..MAX_FD_EVENTS -> Events \union {Null}]
      /\ \A i, j \in 1..MAX_FD_EVENTS : watch'[i] = watch'[j] => i = j \/ watch'[i] = Null
      /\ \A i \in 1..MAX_FD_EVENTS : watch'[i] \in {w[i], "listen"}
      /\ \A i \in 1..MAX_FD_EVENTS : w[i] # Null => watch'[i] = w[i]
  <2>1. "listen" \in Events
    BY DEF Events
  <2> QED
    <3>1. /\ WithEvent(w, "listen") \in [1..MAX_FD_EVENTS -> Events \union {Null}]
          /\ \A i, j \in 1..MAX_FD_EVENTS :
                WithEvent(w, "listen")[i] = WithEvent(w, "listen")[j] => i = j \/ WithEvent(w, "listen")[i] = Null
          /\ \A i \in 1..MAX_FD_EVENTS : WithEvent(w, "listen")[i] \in {w[i], "listen"}
          /\ \A i \in 1..MAX_FD_EVENTS : w[i] # Null => WithEvent(w, "listen")[i] = w[i]
      BY <1>5, <2>1, WithEventIs
    <3> QED
      BY <1>6, <3>1
<1>8. slots' = 1..MAX_FD_EVENTS
  BY <1>7 DEF slots
<1>9. /\ "commands" \notin Watched'
      /\ \A e \in {"wakeup", "debug"} : e \in Watched' <=> e \in Watched
  BY <1>5, <1>7, <1>8, RilAssumption DEF Watched
<1>10. LoopTypes'
  BY <1>1, <1>7, <1>8 DEF LoopTypes
<1>11. Cancelled \in [Requests -> [conn : Conns \union {Null}, local : BOOLEAN, cancelled : BOOLEAN, pending : BOOLEAN]]
       /\ \A r \in Requests : Cancelled[r].pending => Cancelled[r].cancelled
  BY DEF Cancelled, RilInv, ClientTypes
<1>12. ClientTypes'
  BY <1>11 DEF RilInv, ClientTypes
<1>13. TableInv'
  <2>1. /\ (Has(E, {"listen"})' => Has(E, {"listen"}))
        /\ (Has(E, {"debug"})' => Has(E, {"debug"}))
        /\ (Has(E, {"add"})' <=> Has(E, {"add"}))
        /\ (Has(E, {"enter", "select"})' => Has(E, {"enter", "select"}))
        /\ (Has(E, {"commands"})' => Has(E, {"commands"}))
        /\ (Has(E, {"checkCredentials"})' => Has(E, {"checkCredentials"}))
    BY <1>1, <1>2, <1>3, TokensOf
  <2>2. ~Has(E, {"enter", "select"})'
    BY <1>1, <2>1, OnTop
  <2>3. ~Has(E, {"commands"})'
    <3>1. CASE At(E, "commands")
      BY <1>1, <1>3, <3>1, Popped
    <3>2. CASE At(E, "checkCredentials")
      <4>1. Has(E, {"checkCredentials"})
        BY <1>1, <3>2, HasTop
      <4> QED
        BY <2>1, <4>1 DEF RilInv, TableInv
    <3> QED
      BY <3>1, <3>2
  <2>4. ~Has(E, {"checkCredentials"})'
    <3>1. CASE At(E, "commands")
      BY <1>1, <2>1, <3>1, OnTop
    <3>2. CASE At(E, "checkCredentials")
      <4>1. ASSUME NEW i \in DOMAIN work'[E], work'[E][i].op = "checkCredentials" PROVE FALSE
        <5>1. Over(work'[E], <<>>, work[E]) /\ Shape(work[E])
          BY <1>1, <1>3, MoveIs DEF StackInv
        <5>2. PICK j \in DOMAIN work[E] : j > 1 /\ work'[E][i] = work[E][j]
          BY <1>3, <5>1, From
        <5> QED
          BY <4>1, <5>1, <5>2 DEF Shape, Under
      <4> QED
        BY <4>1 DEF Has
    <3> QED
      BY <3>1, <3>2
  <2>5. work'[M] = work[M]
    BY <1>1, <1>3, MoveIs
  <2>6. ~ended /\ ("wakeup" \in Watched \/ Has(E, {"add"}))
    BY <1>2 DEF RilInv, TableInv
  <2>7. Len(work'[M]) >= 2 => "debug" \notin Watched'
    BY <1>9, <2>5 DEF RilInv, TableInv
  <2>8. Has(E, {"debug"})' => debug' # Null
    BY <2>1 DEF RilInv, TableInv
  <2>9. Has(E, {"add"})' => "wakeup" \notin Watched'
    BY <1>9, <2>1 DEF RilInv, TableInv
  <2> QED
    BY <1>4, <1>9, <2>1, <2>2, <2>3, <2>4, <2>5, <2>6, <2>7, <2>8, <2>9 DEF TableInv
<1>14. StreamInv'
  BY <1>2, <1>3, SocketGone
<1>15. RequestInv'
  BY <1>11 DEF RequestInv, PendingIsCurrent, Current
<1> QED
  BY <1>2, <1>3, <1>10, <1>12, <1>13, <1>14, <1>15, LoopStep

LEMMA processCommandsClosedKeeps ==
    ASSUME RilInv, processCommandsClosed, scenario' = scenario
    PROVE  RilInv'
<1>1. /\ At(E, "commands") /\ fdCommand /\ sock' = Null /\ fdCommand' = FALSE /\ cut' = FALSE
      /\ watch' = commandsClosed(watch) /\ request' = Cancelled /\ Goes(E, <<>>)
      /\ UNCHANGED <<dead, ended, sel, wake>> /\ UNCHANGED <<timers, block, last, lock>>
      /\ UNCHANGED <<backlog, inbox, vendor>> /\ UNCHANGED <<stash, writer, stream, debug, used>>
      /\ client' = client
  BY DEF processCommandsClosed, timerVars, sendVars
<1>2. client \in [Conns -> {"none", "open", "gone"}]
  BY DEF RilInv, ClientTypes
<1> QED
  BY <1>1, <1>2, EndKeeps

LEMMA refuseStrangerKeeps ==
    ASSUME RilInv, refuseStranger, scenario' = scenario
    PROVE  RilInv'
<1>1. /\ At(E, "checkCredentials") /\ sock' = Null /\ fdCommand' = FALSE /\ cut' = FALSE
      /\ watch' = WithEvent(watch, "listen") /\ request' = Cancelled /\ Goes(E, <<>>)
      /\ UNCHANGED <<dead, ended, sel, wake>> /\ UNCHANGED <<timers, block, last, lock>>
      /\ UNCHANGED <<backlog, inbox, vendor>> /\ UNCHANGED <<stash, writer, stream, debug, used>>
      /\ client' = IF sock = Null THEN client ELSE [client EXCEPT ![sock] = "gone"]
  BY DEF refuseStranger, Closed, timerVars, sendVars
<1>2. fdCommand /\ "commands" \notin Watched
  BY <1>1, HasTop DEF RilInv, TableInv, Threads
<1>3. /\ client' \in [Conns -> {"none", "open", "gone"}]
      /\ \A c \in Conns : client'[c] = "none" <=> client[c] = "none"
  <2>1. sock # Null => sock \in Conns /\ client[sock] # "none"
    BY DEF RilInv, ClientTypes, StreamInv
  <2> QED
    BY <1>1, <2>1 DEF RilInv, ClientTypes
<1>4. commandsClosed(watch) = WithEvent(watch, "listen")
  <2>1. watch \in [slots -> Events \union {Null}]
    BY DEF RilInv, LoopTypes, slots
  <2>2. \A i \in slots : watch[i] # "commands"
    BY <1>2, RilAssumption DEF Watched
  <2>3. WithoutEvents(watch, {"commands"}) = watch
    BY <2>1, <2>2 DEF WithoutEvents
  <2> QED
    BY <2>3 DEF commandsClosed
<1> QED
  BY <1>1, <1>2, <1>3, <1>4, EndKeeps

LEMMA commandsAssertionKeeps ==
    ASSUME RilInv, commandsAssertion, scenario' = scenario
    PROVE  RilInv'
  BY DiesKeeps DEF commandsAssertion

\* The debug client's "off".
LEMMA closeCommandKeeps ==
    ASSUME RilInv, closeCommand, scenario' = scenario
    PROVE  RilInv'
<1>1. StackInv /\ At(E, "closeCommand") /\ Goes(E, <<>>) /\ E \in Threads /\ M \in Threads /\ E # M /\ E # V
  BY DEF RilInv, closeCommand, Threads, E, V, M
<1>2. work[E] # <<>> /\ Head(work[E]).op = "closeCommand"
  BY <1>1, HeadIs
<1>3. /\ client' = IF fdCommand /\ sock # Null THEN [client EXCEPT ![sock] = "gone"] ELSE client
      /\ sock' = Null
      /\ cut' = (cut \/ fdCommand)
      /\ fdCommand' = FALSE
      /\ UNCHANGED <<dead, ended, watch, sel, wake>> /\ UNCHANGED <<timers, block, last, lock>>
      /\ UNCHANGED <<backlog, inbox>> /\ UNCHANGED <<request, vendor>>
      /\ UNCHANGED <<stash, writer, stream, debug, used>>
  <2>1. ~fdCommand => sock = Null
    BY DEF RilInv, TableInv
  <2> QED
    BY <2>1 DEF closeCommand, Closed, loopVars, timerVars, requestVars, sendVars
<1>4. Move(E, <<>>) /\ DOMAIN <<>> = {}
  BY <1>1, <1>2, MoveNone
<1>5. LoopTypes'
  BY <1>3 DEF RilInv, LoopTypes, slots
<1>6. /\ client' \in [Conns -> {"none", "open", "gone"}]
      /\ \A c \in Conns : client'[c] = "none" <=> client[c] = "none"
  <2>1. sock # Null => sock \in Conns /\ client[sock] # "none"
    BY DEF RilInv, ClientTypes, StreamInv
  <2> QED
    BY <1>3, <2>1 DEF RilInv, ClientTypes
<1>7. cut' \in BOOLEAN /\ (cut => cut') /\ (fdCommand => cut')
  BY <1>3 DEF RilInv, ClientTypes
<1>8. ClientTypes'
  BY <1>3, <1>6, <1>7 DEF RilInv, ClientTypes
<1>9. TableInv' /\ (Listening' <=> Listening)
  <2>1. /\ (Has(E, {"listen"})' <=> Has(E, {"listen"}))
        /\ (Has(E, {"commands"})' <=> Has(E, {"commands"}))
        /\ (Has(E, {"checkCredentials"})' <=> Has(E, {"checkCredentials"}))
        /\ (Has(E, {"debug"})' <=> Has(E, {"debug"}))
        /\ (Has(E, {"add"})' <=> Has(E, {"add"}))
        /\ (Has(E, {"enter", "select"})' <=> Has(E, {"enter", "select"}))
    BY <1>1, <1>2, <1>4, TokensOf
  <2>2. ~Has(E, {"checkCredentials"})
    BY <1>1, OnTop
  <2>3. Watched' = Watched
    BY <1>3 DEF Watched, slots
  <2>4. work'[M] = work[M]
    BY <1>1, <1>4, MoveIs
  <2>5. Listening' <=> Listening
    BY <2>1, <2>3, <2>4 DEF Listening
  <2>6. "commands" \in Watched' => cut'
    <3>1. CASE fdCommand
      BY <1>7, <3>1
    <3>2. CASE ~fdCommand
      <4>1. sock = Null
        BY <3>2 DEF RilInv, TableInv
      <4> QED
        BY <1>7, <2>3, <4>1 DEF RilInv, TableInv
    <3> QED
      BY <3>1, <3>2
  <2>7. ~ended
    BY <1>2 DEF RilInv, TableInv
  <2>8. "wakeup" \in Watched' \/ Has(E, {"add"})'
    BY <1>2, <2>1, <2>3 DEF RilInv, TableInv
  <2> QED
    BY <1>3, <2>1, <2>2, <2>3, <2>4, <2>5, <2>6, <2>7, <2>8 DEF RilInv, TableInv
<1>10. StreamInv'
  BY <1>2, <1>3, <1>4, <1>6, SocketGone
<1>11. RequestInv'
  BY <1>3, <1>9 DEF RilInv, RequestInv, PendingIsCurrent, Current
<1> QED
  BY <1>2, <1>3, <1>4, <1>5, <1>8, <1>9, <1>10, <1>11, LoopStep

\* The connection waiting first becomes the client; or the loop listens again.
LEMMA acceptKeeps ==
    ASSUME RilInv, accept, scenario' = scenario
    PROVE  RilInv'
<1>1. StackInv /\ At(E, "listen") /\ E \in Threads /\ M \in Threads /\ E # V /\ E # M /\ LoopTypes
  BY DEF RilInv, accept, Threads, E, V, M
<1>2. work[E] # <<>> /\ Head(work[E]).op = "listen"
  BY <1>1, HeadIs
<1>3. /\ UNCHANGED <<dead, ended, sel, wake>> /\ UNCHANGED <<timers, block, last, lock>>
      /\ UNCHANGED <<client, inbox>> /\ UNCHANGED <<request, vendor>>
      /\ UNCHANGED <<stash, writer, stream, debug>>
  BY DEF accept, timerVars, requestVars, sendVars
<1>4. /\ Listening /\ Has(E, {"listen"}) /\ "listen" \notin Watched /\ ~(Len(work[M]) >= 4)
      /\ ~fdCommand /\ "commands" \notin Watched /\ ~Has(E, {"checkCredentials"}) /\ ~Has(E, {"commands"})
      /\ ~Has(E, {"enter", "select"})
  <2>1. Has(E, {"listen"}) /\ ~Has(E, {"enter", "select"})
    BY <1>1, HasTop, OnTop
  <2> QED
    BY <2>1 DEF RilInv, TableInv, Listening
\* What holds of the table whatever is put in it.
<1>5. ASSUME NEW ins, Move(E, ins), \A i \in DOMAIN ins : ins[i].op = "checkCredentials",
             \A e \in {"wakeup", "debug", "commands"} : e \in Watched' <=> e \in Watched,
             IF ins = <<>> THEN ~fdCommand' /\ sock' = Null ELSE fdCommand' /\ "listen" \notin Watched'
      PROVE  TableInv' /\ (ins # <<>> => ~Listening')
  <2>1. /\ ~Has(E, {"listen"})' /\ ~Has(E, {"commands"})' /\ ~Has(E, {"enter", "select"})'
        /\ (Has(E, {"debug"})' => Has(E, {"debug"}))
        /\ (Has(E, {"add"})' <=> Has(E, {"add"}))
        /\ (Has(E, {"checkCredentials"})' => ins # <<>>)
    <3>1. ~Has(E, {"listen"})'
      BY <1>1, <1>5, Popped
    <3>2. /\ Has(E, {"commands"})' => Has(E, {"commands"})
          /\ Has(E, {"enter", "select"})' => Has(E, {"enter", "select"})
          /\ (Has(E, {"debug"})' => Has(E, {"debug"}))
          /\ (Has(E, {"add"})' <=> Has(E, {"add"}))
      BY <1>1, <1>2, <1>5, TokensOf
    <3>3. Has(E, {"checkCredentials"})' => \E i \in DOMAIN ins : ins[i].op \in {"checkCredentials"}
      BY <1>1, <1>4, <1>5, TokensOf
    <3> QED
      BY <1>4, <3>1, <3>2, <3>3
  <2>2. work'[M] = work[M]
    BY <1>1, <1>5, MoveIs
  <2>3. ~ended /\ ("wakeup" \in Watched \/ Has(E, {"add"}))
    BY <1>2 DEF RilInv, TableInv
  <2>4. /\ Has(E, {"debug"})' => debug' # Null
        /\ Has(E, {"add"})' => "wakeup" \notin Watched'
        /\ Len(work'[M]) >= 2 => "debug" \notin Watched'
    BY <1>3, <1>5, <2>1, <2>2 DEF RilInv, TableInv
  <2>5. "commands" \notin Watched'
    BY <1>4, <1>5
  <2>6. ~(Len(work'[M]) >= 4)
    BY <1>4, <2>2
  <2>7. CASE ins = <<>>
    BY <1>3, <1>5, <2>1, <2>3, <2>4, <2>5, <2>6, <2>7 DEF TableInv
  <2>8. CASE ins # <<>>
    <3>1. ~Listening'
      BY <1>5, <2>1, <2>6, <2>8 DEF Listening
    <3> QED
      BY <1>3, <1>5, <2>1, <2>3, <2>4, <2>5, <2>6, <2>8, <3>1 DEF TableInv
  <2> QED
    BY <2>7, <2>8
<1>6. CASE /\ backlog # <<>>
           /\ fdCommand' = TRUE /\ cut' = FALSE /\ sock' = Head(backlog) /\ backlog' = Tail(backlog)
           /\ Goes(E, <<I("checkCredentials")>>)
           /\ UNCHANGED <<watch, used>>
  <2> DEFINE x == I("checkCredentials")
             ins == <<x>>
  <2>1. x \in Instructions /\ x.op = "checkCredentials"
    BY Made DEF Plain
  <2> HIDE DEF x
  <2>2. Fits(ins, work[E]) /\ ins \in Seq(Instructions) /\ DOMAIN ins = {1} /\ ins[1] = x /\ ins # <<>>
    BY <2>1, FitsOne DEF Plainly
  <2>3. Goes(E, ins)
    BY <1>6 DEF x
  <2> HIDE DEF ins
  <2>4. Move(E, ins) /\ \A i \in DOMAIN ins : ins[i].op = "checkCredentials"
    BY <1>1, <1>2, <2>1, <2>2, <2>3 DEF Move, NotOfE
  <2>5. Watched' = Watched
    BY <1>6 DEF Watched, slots
  <2>6. TableInv' /\ ~Listening'
    BY <1>4, <1>5, <1>6, <2>2, <2>4, <2>5
  <2>7. LoopTypes'
    BY <1>3, <1>6 DEF RilInv, LoopTypes, slots
  <2>8. /\ backlog \in Seq(Conns) /\ backlog' \in Seq(Conns) /\ sock' \in Conns /\ sock' = backlog[1]
        /\ 1 \in DOMAIN backlog
        /\ \A i \in DOMAIN backlog' : i + 1 \in DOMAIN backlog /\ i + 1 # 1 /\ backlog'[i] = backlog[i + 1]
        /\ \A i, j \in DOMAIN backlog' : i + 1 = j + 1 => i = j
    <3>1. backlog \in Seq(Conns) /\ backlog # <<>>
      BY <1>6 DEF RilInv, ClientTypes
    <3>2. /\ Tail(backlog) \in Seq(Conns) /\ Len(Tail(backlog)) = Len(backlog) - 1
          /\ \A i \in 1..(Len(backlog) - 1) : Tail(backlog)[i] = backlog[i + 1]
          /\ Len(backlog) \in Nat \ {0}
      BY <3>1, HeadTailProperties, EmptySeq
    <3>3. DOMAIN backlog = 1..Len(backlog) /\ DOMAIN Tail(backlog) = 1..(Len(backlog) - 1)
      BY <3>1, <3>2
    <3>4. Head(backlog) = backlog[1] /\ 1 \in DOMAIN backlog /\ backlog[1] \in Conns
      BY <3>1, <3>2, <3>3
    <3> QED
      BY <1>6, <3>1, <3>2, <3>3, <3>4
  <2>9. ClientTypes'
    BY <1>3, <1>6, <2>8 DEF RilInv, ClientTypes
  <2>10. StreamInv'
    <3>1. ~Writing(E) /\ ~At(E, "payload") /\ ~At(E, "payload")' /\ ~At(E, "close")'
      BY <1>1, <1>2, <2>1, <2>2, <2>4, TopOf DEF Writing, At, Under
    <3>2. work'[V] = work[V]
      BY <1>1, <2>4, MoveIs DEF Threads
    <3>3. (Writing(V)' <=> Writing(V)) /\ (At(V, "payload")' <=> At(V, "payload")) /\ ~Writing(E)'
      BY <3>1, <3>2 DEF Writing, At
    <3>4. \A i \in DOMAIN backlog : client[backlog[i]] # "none" /\ stream[backlog[i]] = "whole"
      BY DEF RilInv, StreamInv
    <3>5. \A i, j \in DOMAIN backlog : backlog[i] = backlog[j] => i = j
      BY DEF RilInv, StreamInv
    <3>6. \A c \in Conns : client[c] = "none" => stream[c] = "whole"
      BY DEF RilInv, StreamInv
    <3>7. At(V, "payload") =>
            /\ client[Head(work[V]).conn] # "none"
            /\ \A i \in DOMAIN backlog : backlog[i] # Head(work[V]).conn
      BY DEF RilInv, StreamInv
    <3>8. (\A t \in {E, V} : Writing(t) => writer = t)' /\ (writer # Null => dead \/ (writer \in {E, V} /\ Writing(writer)))'
      BY <1>3, <3>1, <3>3 DEF RilInv, StreamInv
    <3>9. \A i \in DOMAIN backlog' : client'[backlog'[i]] # "none" /\ stream'[backlog'[i]] = "whole" /\ backlog'[i] # sock'
      BY <1>3, <2>8, <3>4, <3>5
    <3>10. \A i, j \in DOMAIN backlog' : backlog'[i] = backlog'[j] => i = j
      BY <2>8, <3>5
    <3>11. stream'[sock'] = "whole" /\ client'[sock'] # "none"
      BY <1>3, <2>8, <3>4
    <3>12. ASSUME NEW t \in {E, V}, At(t, "payload")'
           PROVE  /\ Head(work'[t]).conn # sock'
                  /\ client'[Head(work'[t]).conn] # "none"
                  /\ \A i \in DOMAIN backlog' : backlog'[i] # Head(work'[t]).conn
      BY <1>3, <2>8, <3>1, <3>2, <3>3, <3>7, <3>12
    <3> QED
      BY <1>3, <3>6, <3>8, <3>9, <3>10, <3>11, <3>12 DEF StreamInv
  <2>11. RequestInv'
    BY <1>3, <1>4, <2>6 DEF RilInv, RequestInv, PendingIsCurrent, Current
  <2> QED
    BY <1>2, <1>3, <2>1, <2>4, <2>6, <2>7, <2>9, <2>10, <2>11, LoopStep
<1>7. CASE /\ used' = IF backlog = <<>> THEN used ELSE [used EXCEPT !.faults = @ + 1]
           /\ watch' = WithEvent(watch, "listen")
           /\ Goes(E, <<>>)
           /\ UNCHANGED <<fdCommand, sock, cut, backlog>>
  <2>1. Move(E, <<>>) /\ DOMAIN <<>> = {}
    BY <1>1, <1>2, <1>7, MoveNone
  <2>2. /\ watch' \in [1..MAX_FD_EVENTS -> Events \union {Null}] /\ slots' = slots
        /\ \A i, j \in slots : watch'[i] = watch'[j] => i = j \/ watch'[i] = Null
        /\ Watched \subseteq Watched' /\ Watched' \subseteq Watched \union {"listen"}
    BY <1>1, <1>4, <1>7, Added DEF Events
  <2>3. \A e \in {"wakeup", "debug", "commands"} : e \in Watched' <=> e \in Watched
    BY <2>2
  <2>4. ~fdCommand' /\ sock' = Null
    BY <1>4, <1>7 DEF RilInv, TableInv
  <2>5. TableInv'
    BY <1>5, <2>1, <2>3, <2>4
  <2>6. LoopTypes'
    <3>1. used' \in [commands : Nat, events : Nat, faults : Nat, debugs : Nat]
          /\ used'.commands = used.commands /\ used'.events = used.events
      BY <1>7 DEF RilInv, LoopTypes
    <3> QED
      BY <1>3, <2>2, <3>1 DEF RilInv, LoopTypes
  <2>7. ClientTypes'
    BY <1>3, <1>7 DEF RilInv, ClientTypes
  <2>8. StreamInv'
    BY <1>1, <1>2, <1>3, <1>7, <2>1, StreamKept DEF RilInv, Writing, At
  <2>9. RequestInv'
    BY <1>3, <1>4, <1>7 DEF RilInv, RequestInv, PendingIsCurrent, Current
  <2> QED
    BY <1>2, <1>3, <2>1, <2>5, <2>6, <2>7, <2>8, <2>9, LoopStep
<1> QED
  BY <1>6, <1>7 DEF accept

\* The event and what follows it, as one of two shapes.
LEMMA ConnectIs ==
    LET nitz == I("sendNITZ")
    IN  onNewCommandConnect \in
            {<<Sending(Null), nitz>>, <<I("grabPartialWakeLock"), Sending(Null), I("schedule"), nitz>>}
<1> DEFINE g == I("grabPartialWakeLock")
           s == Sending(Null)
           d == I("schedule")
           nitz == I("sendNITZ")
           wakes == "radio" \in scenario.wakes
<1>1. onNewCommandConnect =
        ((IF wakes THEN <<g>> ELSE <<>>) \o (<<s>> \o (IF wakes THEN <<d>> ELSE <<>>))) \o <<nitz>>
  BY DEF onNewCommandConnect, RIL_onUnsolicitedResponse, Sending, Frame
<1> HIDE DEF g, s, d, nitz, wakes
<1>2. <<s>> \o <<d>> = <<s, d>> /\ <<s>> \o <<nitz>> = <<s, nitz>>
  BY JoinOne
<1>3. <<g>> \o <<s, d>> = <<g, s, d>>
  BY JoinTwo
<1>4. <<g, s, d>> \o <<nitz>> = <<g, s, d, nitz>>
  BY JoinThree
<1>5. <<>> \o <<s>> = <<s>> /\ <<s>> \o <<>> = <<s>>
  OBVIOUS
<1>6. CASE wakes
  BY <1>1, <1>2, <1>3, <1>4, <1>6 DEF g, s, d, nitz
<1>7. CASE ~wakes
  BY <1>1, <1>2, <1>5, <1>7 DEF g, s, d, nitz
<1> QED
  BY <1>6, <1>7 DEF nitz

\* The instructions of events.
LEMMA EventOps ==
    /\ \A n \in Nat \union {Null} : Sending(n) \in Instructions /\ Sending(n).op = "send"
    /\ \A op \in {"grabPartialWakeLock", "releaseWakeLock", "schedule", "sendNITZ"} :
            I(op) \in Instructions /\ I(op).op = op
<1>1. \A n \in Nat \union {Null} : Sending(n) \in Instructions
  BY Made, FrameIs DEF Sending
<1>2. \A op \in {"grabPartialWakeLock", "releaseWakeLock", "schedule", "sendNITZ"} : I(op) \in Instructions
  BY Made DEF Plain
<1> QED
  BY <1>1, <1>2 DEF I, Sending

\* What an event puts on a stack.
OfReport == {"grabPartialWakeLock", "releaseWakeLock", "send", "schedule"}
LEMMA EventFits ==
    ASSUME NEW event, NEW nitz \in Nat \union {Null}, NEW marshals \in BOOLEAN, NEW w
    PROVE  LET ins == RIL_onUnsolicitedResponse(event, nitz, marshals)
           IN  ins \in Seq(Instructions) /\ Fits(ins, w) /\ \A i \in DOMAIN ins : ins[i].op \in OfReport
<1> DEFINE g == I("grabPartialWakeLock")
           r == I("releaseWakeLock")
           s == Sending(nitz)
           d == I("schedule")
<1>1. /\ g \in Instructions /\ g.op = "grabPartialWakeLock" /\ r \in Instructions /\ r.op = "releaseWakeLock"
      /\ s \in Instructions /\ s.op = "send" /\ d \in Instructions /\ d.op = "schedule"
  BY EventOps
<1> DEFINE a == <<>>
           b == <<g, r>>
           c == <<s>>
           e == <<g, s, d>>
<1>2. RIL_onUnsolicitedResponse(event, nitz, marshals) \in {a, b, c, e}
  BY EventIs
<1> HIDE DEF g, r, s, d
<1>3. Fits(a, w) /\ a \in Seq(Instructions) /\ DOMAIN a = {}
  BY FitsNone
<1>4. Fits(b, w) /\ b \in Seq(Instructions) /\ DOMAIN b = {1, 2} /\ b[1] = g /\ b[2] = r
  BY <1>1, FitsTwo DEF Plainly, Under
<1>5. Fits(c, w) /\ c \in Seq(Instructions) /\ DOMAIN c = {1} /\ c[1] = s
  BY <1>1, FitsOne DEF Plainly
<1>6. Fits(e, w) /\ e \in Seq(Instructions) /\ DOMAIN e = {1, 2, 3} /\ e[1] = g /\ e[2] = s /\ e[3] = d
  BY <1>1, FitsEvent
<1> HIDE DEF a, b, c, e
<1>7. /\ \A i \in DOMAIN a : a[i].op \in OfReport
      /\ \A i \in DOMAIN b : b[i].op \in OfReport
      /\ \A i \in DOMAIN c : c[i].op \in OfReport
      /\ \A i \in DOMAIN e : e[i].op \in OfReport
  BY <1>1, <1>3, <1>4, <1>5, <1>6 DEF OfReport
<1> QED
  BY <1>2, <1>3, <1>4, <1>5, <1>6, <1>7

OfEvent == {"grabPartialWakeLock", "releaseWakeLock", "send", "schedule", "sendNITZ"}
LEMMA ConnectFits ==
    ASSUME NEW w
    PROVE  /\ Fits(onNewCommandConnect, w) /\ onNewCommandConnect \in Seq(Instructions)
           /\ \A i \in DOMAIN onNewCommandConnect : onNewCommandConnect[i].op \in OfEvent
<1>1. /\ Sending(Null) \in Instructions /\ Sending(Null).op = "send"
      /\ I("sendNITZ") \in Instructions /\ I("sendNITZ").op = "sendNITZ"
      /\ I("grabPartialWakeLock") \in Instructions /\ I("grabPartialWakeLock").op = "grabPartialWakeLock"
      /\ I("schedule") \in Instructions /\ I("schedule").op = "schedule"
  BY EventOps
<1> DEFINE a == <<Sending(Null), I("sendNITZ")>>
           b == <<I("grabPartialWakeLock"), Sending(Null), I("schedule"), I("sendNITZ")>>
<1>2. /\ Fits(a, w) /\ a \in Seq(Instructions)
      /\ DOMAIN a = {1, 2} /\ a[1] = Sending(Null) /\ a[2] = I("sendNITZ")
  BY <1>1, FitsTwo DEF Plainly, Under
<1>3. /\ Fits(b, w) /\ b \in Seq(Instructions)
      /\ DOMAIN b = {1, 2, 3, 4} /\ b[1] = I("grabPartialWakeLock") /\ b[2] = Sending(Null)
      /\ b[3] = I("schedule") /\ b[4] = I("sendNITZ")
  BY <1>1, FitsEventThen
<1>4. onNewCommandConnect \in {a, b}
  BY ConnectIs
<1> HIDE DEF a, b
<1>5. \A i \in DOMAIN a : a[i].op \in OfEvent
  BY <1>1, <1>2 DEF OfEvent
<1>6. \A i \in DOMAIN b : b[i].op \in OfEvent
  BY <1>1, <1>3 DEF OfEvent
<1> QED
  BY <1>2, <1>3, <1>4, <1>5, <1>6

LEMMA acceptPhoneKeeps ==
    ASSUME RilInv, acceptPhone, scenario' = scenario
    PROVE  RilInv'
<1>1. StackInv /\ At(E, "checkCredentials") /\ E \in Threads /\ M \in Threads /\ E # V /\ E # M /\ LoopTypes
  BY DEF RilInv, acceptPhone, Threads, E, V, M
<1>2. work[E] # <<>> /\ Head(work[E]).op = "checkCredentials"
  BY <1>1, HeadIs
<1>3. /\ UNCHANGED <<dead, ended, sel, wake>> /\ UNCHANGED <<timers, block, last, lock>>
      /\ UNCHANGED <<client, backlog, inbox, fdCommand, sock, cut>> /\ UNCHANGED <<request, vendor>>
      /\ UNCHANGED <<stash, writer, stream, debug, used>>
      /\ watch' = WithEvent(watch, "commands")
  BY DEF acceptPhone, timerVars, sockVars, requestVars, sendVars
<1>4. PICK ins : Move(E, ins) /\ \A i \in DOMAIN ins : ins[i].op \in OfEvent
  <2>1. Goes(E, onNewCommandConnect)
    BY DEF acceptPhone
  <2>2. /\ Fits(onNewCommandConnect, work[E]) /\ onNewCommandConnect \in Seq(Instructions)
        /\ \A i \in DOMAIN onNewCommandConnect : onNewCommandConnect[i].op \in OfEvent
    BY ConnectFits
  <2> QED
    BY <1>1, <1>2, <2>1, <2>2 DEF Move, OfEvent, NotOfE
<1>5. fdCommand /\ "commands" \notin Watched /\ Has(E, {"checkCredentials"}) /\ ~Listening
      /\ ~Has(E, {"enter", "select"}) /\ ~Has(E, {"commands"})
  <2>1. Has(E, {"checkCredentials"}) /\ ~Has(E, {"enter", "select"})
    BY <1>1, HasTop, OnTop
  <2> QED
    BY <2>1 DEF RilInv, TableInv
<1>6. sock # Null
  <2>1. sock \in Phones /\ scenario \in Scenarios
    BY <1>1 DEF acceptPhone, LoopTypes
  <2>2. scenario.phones \in Seq(Conns)
    BY <2>1, RilAssumption
  <2>3. Phones \subseteq Conns
    BY <2>2 DEF Phones, Range
  <2> QED
    BY <2>1, <2>3, RilAssumption
<1>7. /\ watch' \in [1..MAX_FD_EVENTS -> Events \union {Null}] /\ slots' = slots
      /\ \A i, j \in slots : watch'[i] = watch'[j] => i = j \/ watch'[i] = Null
      /\ Watched \subseteq Watched' /\ Watched' \subseteq Watched \union {"commands"}
  BY <1>1, <1>3, <1>5, Added DEF Events
<1>8. LoopTypes'
  BY <1>3, <1>7 DEF RilInv, LoopTypes
<1>9. ClientTypes'
  BY <1>3 DEF RilInv, ClientTypes
<1>10. TableInv' /\ ~Listening'
  <2>1. /\ (Has(E, {"listen"})' => Has(E, {"listen"}))
        /\ ~Has(E, {"commands"})'
        /\ (Has(E, {"debug"})' => Has(E, {"debug"}))
        /\ (Has(E, {"add"})' <=> Has(E, {"add"}))
        /\ ~Has(E, {"enter", "select"})'
    BY <1>1, <1>2, <1>4, <1>5, TokensOf DEF OfEvent
  <2>2. ~Has(E, {"checkCredentials"})'
    <3>1. ASSUME NEW i \in DOMAIN work'[E], work'[E][i].op = "checkCredentials" PROVE FALSE
      <4>1. Over(work'[E], ins, work[E]) /\ Shape(work[E])
        BY <1>1, <1>4, MoveIs DEF StackInv
      <4>2. \/ \E j \in DOMAIN ins : work'[E][i] = ins[j]
            \/ \E j \in DOMAIN work[E] : j > 1 /\ work'[E][i] = work[E][j]
        BY <4>1, From
      <4>3. \E j \in DOMAIN work[E] : j > 1 /\ work'[E][i] = work[E][j]
        BY <1>4, <3>1, <4>2 DEF OfEvent
      <4> QED
        BY <3>1, <4>1, <4>3 DEF Shape, Under
    <3> QED
      BY <3>1 DEF Has
  <2>3. work'[M] = work[M]
    BY <1>1, <1>4, MoveIs
  <2>4. \A e \in {"wakeup", "debug", "listen"} : e \in Watched' <=> e \in Watched
    BY <1>7
  <2>5. ~ended /\ ("wakeup" \in Watched \/ Has(E, {"add"}))
    BY <1>2 DEF RilInv, TableInv
  <2>6. ~Listening'
    BY <1>5, <2>1, <2>3, <2>4 DEF Listening
  <2>7. /\ Has(E, {"debug"})' => debug' # Null
        /\ Has(E, {"add"})' => "wakeup" \notin Watched'
        /\ Len(work'[M]) >= 2 => "debug" \notin Watched'
    BY <1>3, <2>1, <2>3, <2>4 DEF RilInv, TableInv
  <2>8. "listen" \notin Watched' /\ ~Has(E, {"listen"})' /\ ~(Len(work'[M]) >= 4)
    BY <2>6 DEF Listening
  <2> QED
    BY <1>3, <1>5, <1>6, <2>1, <2>2, <2>4, <2>5, <2>6, <2>7, <2>8 DEF TableInv
<1>11. StreamInv'
  BY <1>1, <1>2, <1>3, <1>4, StreamKept DEF RilInv, Writing, At, OfEvent
<1>12. RequestInv'
  BY <1>3, <1>10 DEF RilInv, RequestInv, PendingIsCurrent, Current
<1> QED
  BY <1>2, <1>3, <1>4, <1>8, <1>9, <1>10, <1>11, <1>12, LoopStep DEF OfEvent

\* The request of the debug client.
LEMMA debugCallbackKeeps ==
    ASSUME RilInv, debugCallback, scenario' = scenario
    PROVE  RilInv'
<1>1. StackInv /\ At(E, "debug") /\ E \in Threads /\ E # V
  BY DEF RilInv, debugCallback, Threads, E, V
<1>2. work[E] # <<>> /\ Head(work[E]).op = "debug"
  BY <1>1, HeadIs
<1>3. /\ UNCHANGED <<dead, ended, watch, sel, wake>> /\ UNCHANGED <<timers, block, last, lock>>
      /\ UNCHANGED <<client, backlog, inbox, fdCommand, sock, cut>> /\ UNCHANGED <<request, vendor>>
      /\ UNCHANGED <<stash, writer, stream, used>> /\ debug' = Null
  BY DEF debugCallback, loopVars, timerVars, sockVars, requestVars, sendVars
<1>4. debug \in {"off", "local", "on", "unsol"}
  <2>1. debug # Null
    BY <1>1, HasTop DEF RilInv, TableInv
  <2> QED
    BY <2>1 DEF RilInv, LoopTypes
<1> DEFINE Asked == {"issueLocalRequest", "closeCommand", "grabPartialWakeLock", "releaseWakeLock", "send", "schedule"}
           i == I("issueLocalRequest")
           c == I("closeCommand")
<1>5. i \in Instructions /\ i.op = "issueLocalRequest" /\ c \in Instructions /\ c.op = "closeCommand"
  BY Made DEF Plain
<1>6. \/ Goes(E, <<i, c>>) \/ Goes(E, <<i>>) \/ Goes(E, <<i, i>>)
      \/ Goes(E, RIL_onUnsolicitedResponse("network", Null, TRUE))
  BY <1>4 DEF debugCallback
<1> HIDE DEF i, c
<1>7. PICK ins : Move(E, ins) /\ \A k \in DOMAIN ins : ins[k].op \in Asked
  <2>1. ASSUME NEW s, s \in Seq(Instructions), Fits(s, work[E]), \A k \in DOMAIN s : s[k].op \in Asked, Goes(E, s)
        PROVE  Move(E, s) /\ \A k \in DOMAIN s : s[k].op \in Asked
    BY <1>1, <1>2, <2>1 DEF Move, NotOfE
  <2>2. ASSUME NEW y \in {i, c}
        PROVE  /\ Fits(<<i, y>>, work[E]) /\ <<i, y>> \in Seq(Instructions)
               /\ \A k \in DOMAIN <<i, y>> : <<i, y>>[k].op \in Asked
    <3>1. i.op \in Plainly /\ y \in Instructions /\ y.op \in Plainly \intersect Under /\ y.op \in Asked /\ i.op \in Asked
      BY <1>5, <2>2 DEF Plainly, Under
    <3>2. /\ Fits(<<i, y>>, work[E]) /\ <<i, y>> \in Seq(Instructions)
          /\ DOMAIN <<i, y>> = {1, 2} /\ <<i, y>>[1] = i /\ <<i, y>>[2] = y
      BY <1>5, <3>1, FitsTwo
    <3> DEFINE s == <<i, y>>
    <3> HIDE DEF s, Asked
    <3>3. \A k \in DOMAIN s : s[k].op \in Asked
      BY <3>1, <3>2 DEF s
    <3> QED
      BY <3>2, <3>3 DEF s
  <2>3. /\ Fits(<<i>>, work[E]) /\ <<i>> \in Seq(Instructions) /\ DOMAIN <<i>> = {1} /\ <<i>>[1] = i
    BY <1>5, FitsOne DEF Plainly
  <2>4. \A k \in DOMAIN <<i>> : <<i>>[k].op \in Asked
    BY <1>5, <2>3
  <2>5. PICK s : /\ s = RIL_onUnsolicitedResponse("network", Null, TRUE)
                 /\ s \in Seq(Instructions) /\ Fits(s, work[E]) /\ \A k \in DOMAIN s : s[k].op \in Asked
    BY EventFits DEF OfReport
  <2> QED
    BY <1>6, <2>1, <2>2, <2>3, <2>4, <2>5
<1>8. LoopTypes'
  BY <1>3 DEF RilInv, LoopTypes, slots
<1>9. ClientTypes'
  BY <1>3 DEF RilInv, ClientTypes
<1>10. TableInv' /\ (Listening' <=> Listening)
  <2>1. ~Has(E, {"debug"})'
    BY <1>1, <1>7, Popped
  <2>2. /\ (Has(E, {"listen"})' <=> Has(E, {"listen"}))
        /\ (Has(E, {"commands"})' <=> Has(E, {"commands"}))
        /\ (Has(E, {"checkCredentials"})' <=> Has(E, {"checkCredentials"}))
        /\ (Has(E, {"add"})' <=> Has(E, {"add"}))
        /\ (Has(E, {"enter", "select"})' <=> Has(E, {"enter", "select"}))
    BY <1>1, <1>2, <1>7, TokensOf
  <2> QED
    BY <1>1, <1>3, <1>7, <2>1, <2>2, TableSame DEF RilInv
<1>11. StreamInv'
  BY <1>1, <1>2, <1>3, <1>7, StreamKept DEF RilInv, Writing, At
<1>12. RequestInv'
  BY <1>3, <1>10, RequestKept DEF RilInv
<1> QED
  BY <1>2, <1>3, <1>7, <1>8, <1>9, <1>10, <1>11, <1>12, LoopStep

-----------------------------------------------------------------------------
(* The event loop: timers. *)

\* wakeTimeoutCallback: the timers still to be fired are others.
LEMMA userTimerCallbackKeeps ==
    ASSUME RilInv, userTimerCallback, scenario' = scenario
    PROVE  RilInv'
<1>1. StackInv /\ At(E, "userTimerCallback") /\ E \in Threads /\ E # V
  BY DEF RilInv, userTimerCallback, Threads, E, V
<1>2. /\ work[E] # <<>> /\ Head(work[E]) \in Instructions /\ Head(work[E]).op = "userTimerCallback"
      /\ 1 \in DOMAIN work[E] /\ Head(work[E]) = work[E][1] /\ work[E] \in Seq(Instructions)
  BY <1>1, HeadIs
<1>3. PICK b \in Blocks : b = Head(work[E]).block
  BY <1>2, Fields DEF OfBlock
<1>4. /\ UNCHANGED <<dead, ended, watch, sel, wake>> /\ UNCHANGED <<timers, block, last>>
      /\ UNCHANGED <<client, backlog, inbox, fdCommand, sock, cut>> /\ UNCHANGED <<request, vendor>>
      /\ UNCHANGED <<stash, writer, stream, debug, used>>
      /\ lock' = (lock /\ block[b] = "cancelled")
  BY <1>3 DEF userTimerCallback, loopVars, sockVars, requestVars, sendVars
<1> DEFINE x == [op |-> "free", block |-> b]
           ins == <<x>>
<1>5. x \in Instructions /\ x.op = "free" /\ x.block = b
  BY Made DEF OfBlock
<1>6. Goes(E, ins)
  BY <1>3 DEF userTimerCallback
<1> HIDE DEF x
<1>7. ins \in Seq(Instructions) /\ DOMAIN ins = {1} /\ ins[1] = x /\ Len(ins) = 1
  BY <1>5
<1> HIDE DEF ins
<1>8. Fits(ins, work[E])
  BY <1>2, <1>3, <1>5, <1>7 DEF Fits
<1>9. Move(E, ins)
  BY <1>1, <1>2, <1>5, <1>6, <1>7, <1>8 DEF Move, NotOfE
<1>10. Over(work'[E], ins, work[E])
  BY <1>1, <1>9, MoveIs
<1>11. TimerInv'
  <2>1. ASSUME NEW i \in DOMAIN work'[E], work'[E][i].op \in {"userTimerCallback", "free"}
        PROVE  \E j \in DOMAIN work[E] :
                    work[E][j].op \in {"userTimerCallback", "free"} /\ work[E][j].block = work'[E][i].block
    <3>1. \/ work'[E][i] = x
          \/ \E j \in DOMAIN work[E] : work'[E][i] = work[E][j]
      BY <1>7, <1>10, From
    <3>2. CASE work'[E][i] = x
      BY <1>2, <1>3, <1>5, <3>2
    <3>3. CASE \E j \in DOMAIN work[E] : work'[E][i] = work[E][j]
      BY <2>1, <3>3
    <3> QED
      BY <3>1, <3>2, <3>3
  <2>2. lock' \in BOOLEAN
    BY <1>4 DEF RilInv, TimerInv
  <2>3. ASSUME NEW i \in DOMAIN work'[E], work'[E][i].op \in {"userTimerCallback", "free"}
        PROVE  /\ block'[work'[E][i].block] # Free
               /\ \A j \in DOMAIN timers' : timers'[j] # work'[E][i].block
    BY <1>4, <2>1, <2>3 DEF RilInv, TimerInv
  <2> QED
    BY <1>4, <2>2, <2>3 DEF RilInv, TimerInv
<1>12. LockReleased'
  <2>1. SUFFICES ASSUME lock' PROVE LockReleased'
    BY DEF LockReleased
  <2>2. lock /\ block[b] = "cancelled" /\ ~dead
    BY <1>1, <1>2, <1>4, <2>1 DEF StackInv
  <2>3. CASE \E q \in Threads : Has(q, {"schedule", "timer", "releaseWakeLock"})
    <3>1. PICK q \in Threads : Has(q, {"schedule", "timer", "releaseWakeLock"})
      BY <2>3
    <3>2. Has(q, {"schedule", "timer", "releaseWakeLock"})'
      BY <1>1, <1>2, <1>9, <3>1, TokensOf
    <3> QED
      BY <3>2 DEF LockReleased
  <2>4. CASE \E a \in Range(timers) : block[a] = "armed"
    BY <1>4, <2>4 DEF LockReleased
  <2>5. CASE \E i \in DOMAIN work[E] : work[E][i].op = "userTimerCallback" /\ block[work[E][i].block] = "armed"
    <3>1. PICK i \in DOMAIN work[E] : work[E][i].op = "userTimerCallback" /\ block[work[E][i].block] = "armed"
      BY <2>5
    <3>2. i # 1
      BY <1>2, <1>3, <2>2, <3>1
    <3>3. \E j \in DOMAIN work'[E] : work'[E][j] = work[E][i]
      BY <1>10, <3>2, Stays
    <3> QED
      BY <1>4, <3>1, <3>3 DEF LockReleased
  <2> QED
    BY <2>2, <2>3, <2>4, <2>5 DEF RilInv, LockReleased
<1> QED
  BY <1>2, <1>4, <1>5, <1>7, <1>9, <1>11, <1>12, TimerStep DEF Tokens

\* The block given back is neither in the list nor still to be fired.
LEMMA freeTimerKeeps ==
    ASSUME RilInv, freeTimer, scenario' = scenario
    PROVE  RilInv'
<1>1. StackInv /\ At(E, "free") /\ Goes(E, <<>>) /\ E \in Threads /\ E # V
  BY DEF RilInv, freeTimer, Threads, E, V
<1>2. /\ work[E] # <<>> /\ Head(work[E]) \in Instructions /\ Head(work[E]).op = "free"
      /\ 1 \in DOMAIN work[E] /\ Head(work[E]) = work[E][1] /\ work[E] \in Seq(Instructions)
      /\ Shape(work[E])
  BY <1>1, HeadIs DEF StackInv
<1>3. PICK b \in Blocks : b = Head(work[E]).block
  BY <1>2, Fields DEF OfBlock
<1>4. /\ UNCHANGED <<dead, ended, watch, sel, wake>> /\ UNCHANGED <<timers, lock>>
      /\ UNCHANGED <<client, backlog, inbox, fdCommand, sock, cut>> /\ UNCHANGED <<request, vendor>>
      /\ UNCHANGED <<stash, writer, stream, debug, used>>
      /\ last' = (IF last = b THEN Null ELSE last) /\ block' = [block EXCEPT ![b] = Free]
  BY <1>3 DEF freeTimer, loopVars, sockVars, requestVars, sendVars
<1>5. Move(E, <<>>) /\ DOMAIN <<>> = {}
  BY <1>1, <1>2, MoveNone
<1>6. Over(work'[E], <<>>, work[E])
  BY <1>1, <1>5, MoveIs
<1>7. \A j \in DOMAIN timers : timers[j] # b
  BY <1>2, <1>3 DEF RilInv, TimerInv
<1>8. \A j \in DOMAIN work[E] : j # 1 /\ work[E][j].op \in {"userTimerCallback", "free"} => work[E][j].block # b
  BY <1>2, <1>3 DEF Shape
<1>9. /\ block' \in [Blocks -> {Free, "armed", "cancelled"}] /\ \A a \in Blocks : a # b => block'[a] = block[a]
  BY <1>4 DEF RilInv, TimerInv
<1>10. \A j \in DOMAIN work[E] : work[E][j].op \in {"userTimerCallback", "free"} => work[E][j].block \in Blocks
  <2>1. ASSUME NEW j \in DOMAIN work[E], work[E][j].op \in {"userTimerCallback", "free"}
        PROVE  work[E][j].block \in Blocks
    <3>1. work[E][j] \in Instructions /\ work[E][j].op \in OfBlock
      BY <1>2, <2>1 DEF OfBlock
    <3> QED
      BY <3>1, Fields
  <2> QED
    BY <2>1
<1>11. TimerInv'
  <2>1. ASSUME NEW i \in DOMAIN work'[E], work'[E][i].op \in {"userTimerCallback", "free"}
        PROVE  /\ block'[work'[E][i].block] # Free
               /\ \A j \in DOMAIN timers' : timers'[j] # work'[E][i].block
    <3>1. PICK j \in DOMAIN work[E] : j > 1 /\ work'[E][i] = work[E][j]
      BY <1>5, <1>6, From
    <3>2. block'[work[E][j].block] = block[work[E][j].block]
      BY <1>8, <1>9, <1>10, <2>1, <3>1
    <3> QED
      BY <1>4, <2>1, <3>1, <3>2 DEF RilInv, TimerInv
  <2>2. \A j \in DOMAIN timers : timers[j] \in Blocks /\ block[timers[j]] # Free
    BY DEF RilInv, TimerInv
  <2>3. \A j \in DOMAIN timers : block'[timers[j]] # Free
    BY <1>7, <1>9, <2>2
  <2>4. last' \in Blocks \union {Null}
    BY <1>4 DEF RilInv, TimerInv
  <2> QED
    BY <1>4, <1>9, <2>1, <2>3, <2>4 DEF RilInv, TimerInv
<1>12. LockReleased'
  <2>1. SUFFICES ASSUME lock' PROVE LockReleased'
    BY DEF LockReleased
  <2>2. lock /\ ~dead
    BY <1>1, <1>2, <1>4, <2>1 DEF StackInv
  <2>3. CASE \E q \in Threads : Has(q, {"schedule", "timer", "releaseWakeLock"})
    <3>1. PICK q \in Threads : Has(q, {"schedule", "timer", "releaseWakeLock"})
      BY <2>3
    <3>2. Has(q, {"schedule", "timer", "releaseWakeLock"})'
      BY <1>1, <1>2, <1>5, <3>1, TokensOf
    <3> QED
      BY <3>2 DEF LockReleased
  <2>4. CASE \E a \in Range(timers) : block[a] = "armed"
    <3>1. PICK j \in DOMAIN timers : block[timers[j]] = "armed"
      BY <2>4 DEF Range
    <3>2. timers[j] \in Blocks /\ timers[j] # b
      BY <1>7 DEF RilInv, TimerInv
    <3>3. block'[timers[j]] = "armed" /\ timers[j] \in Range(timers')
      BY <1>4, <1>9, <3>1, <3>2 DEF Range
    <3> QED
      BY <3>3 DEF LockReleased
  <2>5. CASE \E i \in DOMAIN work[E] : work[E][i].op = "userTimerCallback" /\ block[work[E][i].block] = "armed"
    <3>1. PICK i \in DOMAIN work[E] : work[E][i].op = "userTimerCallback" /\ block[work[E][i].block] = "armed"
      BY <2>5
    <3>2. i # 1
      BY <1>2, <3>1
    <3>3. \E j \in DOMAIN work'[E] : work'[E][j] = work[E][i]
      BY <1>6, <3>2, Stays
    <3>4. block'[work[E][i].block] = "armed"
      BY <1>8, <1>9, <1>10, <3>1, <3>2
    <3> QED
      BY <3>1, <3>3, <3>4 DEF LockReleased
  <2> QED
    BY <2>2, <2>3, <2>4, <2>5 DEF RilInv, LockReleased
<1> QED
  BY <1>2, <1>4, <1>5, <1>11, <1>12, TimerStep DEF Tokens

-----------------------------------------------------------------------------
(* The event loop: its turns. *)

OfTurn == {"enter", "select", "ril_event_loop", "wakeup", "listen", "debug", "commands", "userTimerCallback"}

\* What a turn leaves as it is.
LEMMA TurnKeeps ==
    ASSUME RilInv, NEW op \in {"ril_event_loop", "enter", "select"}, At(E, op),
           NEW ins \in Seq(Instructions), Goes(E, ins), Shape(ins), \A i \in DOMAIN ins : ins[i].op \in OfTurn,
           UNCHANGED dead, UNCHANGED <<client, backlog, inbox, fdCommand, sock, cut>>,
           UNCHANGED <<request, vendor>>, UNCHANGED <<stash, writer, stream, debug, used>>,
           LoopTypes', TimerInv', TableInv', Listening' => Listening, NoLostWakeup', LockReleased'
    PROVE  RilInv'
<1>1. StackInv /\ E \in Threads /\ V \in Threads /\ M \in Threads /\ E # V /\ E # M
  BY DEF RilInv, Threads, E, V, M
<1>2. /\ work[E] # <<>> /\ Len(work[E]) = 1 /\ work[E][1].op = op /\ ~dead
      /\ work'[E] = ins /\ \A q \in Threads : q # E => work'[q] = work[q]
      /\ work' \in [Threads -> Seq(Instructions)]
  BY <1>1, Alone
<1>3. StackInv'
  <2>1. work' \in [Threads -> Seq(Instructions)]
    BY <1>2
  <2>2. \A i \in DOMAIN ins : ins[i].op \notin NotOfE /\ ins[i].op # "add"
    BY DEF OfTurn, NotOfE
  <2>3. work'[V] = work[V] /\ work'[M] = work[M]
    BY <1>1, <1>2
  <2> QED
    BY <1>1, <1>2, <2>1, <2>2, <2>3 DEF StackInv
<1>4. ClientTypes'
  BY DEF RilInv, ClientTypes
<1>5. StreamInv'
  <2>1. ~Writing(E) /\ ~At(E, "payload")
    BY DEF Writing, At
  <2>2. ~Writing(E)' /\ ~At(E, "payload")'
    <3>1. ins # <<>> => Head(ins) = ins[1] /\ 1 \in DOMAIN ins
      OBVIOUS
    <3> QED
      BY <1>2, <3>1 DEF Writing, At, OfTurn
  <2>3. work'[V] = work[V]
    BY <1>1, <1>2
  <2>4. (Writing(V)' <=> Writing(V)) /\ (At(V, "payload")' <=> At(V, "payload"))
    BY <2>3 DEF Writing, At
  <2> DEFINE W(q) == Writing(q)
  <2>5. (\A t \in {E, V} : Writing(t) => writer = t)' /\ (writer # Null => dead \/ (writer \in {E, V} /\ Writing(writer)))'
    BY <2>1, <2>2, <2>4 DEF RilInv, StreamInv
  <2>6. (\A t \in {E, V} : At(t, "payload") /\ Head(work[t]).conn = sock => stream[sock] \in {t, "orphan"})'
    BY <2>2, <2>3, <2>4 DEF RilInv, StreamInv
  <2>7. (\A t \in {E, V} : At(t, "payload") =>
            /\ client[Head(work[t]).conn] # "none"
            /\ \A i \in DOMAIN backlog : backlog[i] # Head(work[t]).conn)'
    BY <2>2, <2>3, <2>4 DEF RilInv, StreamInv
  <2>8. (sock # Null => \/ dead
                        \/ stream[sock] \in {"whole", "orphan"}
                        \/ /\ writer # Null /\ stream[sock] = writer
                           /\ At(writer, "payload") => Head(work[writer]).conn = sock)'
    <3>1. writer \in {E, V, Null} \/ dead
      BY DEF RilInv, StreamInv
    <3>2. CASE writer = V
      BY <1>2, <2>3, <2>4, <3>2 DEF RilInv, StreamInv
    <3>3. CASE writer = E
      BY <1>2, <2>1, <3>3 DEF RilInv, StreamInv
    <3>4. CASE writer = Null
      BY <1>2, <3>4 DEF RilInv, StreamInv
    <3> QED
      BY <1>2, <3>1, <3>2, <3>3, <3>4
  <2> QED
    BY <2>5, <2>6, <2>7, <2>8 DEF RilInv, StreamInv
<1>6. RequestInv'
  BY RequestKept DEF RilInv
<1> QED
  BY <1>3, <1>4, <1>5, <1>6 DEF RilInv

\* Before and after a turn E has no part in the wake lock but by its timers.
LEMMA TurnLock ==
    ASSUME RilInv, NEW op \in {"ril_event_loop", "enter", "select"}, At(E, op),
           NEW ins \in Seq(Instructions), Goes(E, ins), lock' = lock, block' = block, dead' = dead,
           \A b \in Range(timers) : \/ b \in Range(timers')
                                    \/ \E i \in DOMAIN ins : ins[i] = [op |-> "userTimerCallback", block |-> b]
    PROVE  LockReleased'
<1>1. StackInv /\ E \in Threads
  BY DEF RilInv, Threads
<1>2. /\ \A ops : Has(E, ops) <=> op \in ops
      /\ work'[E] = ins /\ \A q \in Threads : q # E => work'[q] = work[q]
      /\ DOMAIN work[E] = {1} /\ work[E][1].op = op /\ ~dead
  BY <1>1, Alone
<1>3. SUFFICES ASSUME lock PROVE LockReleased'
  BY DEF LockReleased
<1>4. CASE \E q \in Threads : Has(q, {"schedule", "timer", "releaseWakeLock"})
  <2>1. PICK q \in Threads : Has(q, {"schedule", "timer", "releaseWakeLock"})
    BY <1>4
  <2>2. q # E
    BY <1>2, <2>1
  <2>3. Has(q, {"schedule", "timer", "releaseWakeLock"})'
    BY <1>2, <2>1, <2>2 DEF Has
  <2> QED
    BY <2>3 DEF LockReleased
<1>5. CASE \E b \in Range(timers) : block[b] = "armed"
  <2>1. PICK b \in Range(timers) : block[b] = "armed"
    BY <1>5
  <2>2. CASE b \in Range(timers')
    BY <2>1, <2>2 DEF LockReleased
  <2>3. CASE \E i \in DOMAIN ins : ins[i] = [op |-> "userTimerCallback", block |-> b]
    <3>1. PICK i \in DOMAIN ins : ins[i] = [op |-> "userTimerCallback", block |-> b]
      BY <2>3
    <3>2. ins[i].op = "userTimerCallback" /\ ins[i].block = b
      BY <3>1
    <3> QED
      BY <1>2, <2>1, <3>2 DEF LockReleased
  <2> QED
    BY <2>1, <2>2, <2>3
<1>6. ~\E i \in DOMAIN work[E] : work[E][i].op = "userTimerCallback" /\ block[work[E][i].block] = "armed"
  BY <1>2
<1> QED
  BY <1>2, <1>3, <1>4, <1>5, <1>6 DEF RilInv, LockReleased

\* One instruction is a stack.
LEMMA OneShape ==
    ASSUME NEW x \in Instructions, x.op \in {"enter", "select", "ril_event_loop"}
    PROVE  /\ Shape(<<x>>) /\ <<x>> \in Seq(Instructions) /\ DOMAIN <<x>> = {1} /\ <<x>>[1] = x
           /\ Head(<<x>>) = x /\ <<x>> # <<>>
<1> DEFINE w == <<x>>
<1>1. w \in Seq(Instructions) /\ DOMAIN w = {1} /\ w[1] = x /\ Len(w) = 1 /\ Head(w) = x /\ w # <<>>
  OBVIOUS
<1> HIDE DEF w
<1>2. Shape(w)
  BY <1>1 DEF Shape
<1> QED
  BY <1>1, <1>2 DEF w

LEMMA snapshotKeeps ==
    ASSUME RilInv, snapshot, scenario' = scenario
    PROVE  RilInv'
<1>1. StackInv /\ At(E, "ril_event_loop") /\ LoopTypes /\ E \in Threads /\ M \in Threads /\ E # M
  BY DEF RilInv, snapshot, Threads, E, M
<1> DEFINE x == I("enter")
           ins == <<x>>
<1>2. x \in Instructions /\ x.op = "enter"
  BY Made DEF Plain
<1>3. Goes(E, ins)
  BY DEF snapshot
<1> HIDE DEF x
<1>4. Shape(ins) /\ ins \in Seq(Instructions) /\ DOMAIN ins = {1} /\ ins[1] = x
  BY <1>2, OneShape
<1> HIDE DEF ins
<1>5. /\ UNCHANGED <<dead, ended, watch, wake>> /\ UNCHANGED <<timers, block, last, lock>>
      /\ UNCHANGED <<client, backlog, inbox, fdCommand, sock, cut>> /\ UNCHANGED <<request, vendor>>
      /\ UNCHANGED <<stash, writer, stream, debug, used>>
      /\ sel' = [fds |-> Watched, wait |-> timers # <<>>, sock |-> Null]
  BY DEF snapshot, timerVars, sockVars, requestVars, sendVars
<1>6. /\ work[E] # <<>> /\ work'[E] = ins /\ \A q \in Threads : q # E => work'[q] = work[q]
      /\ \A ops : Has(E, ops) <=> "ril_event_loop" \in ops
  BY <1>1, <1>3, <1>4, Alone
<1>7. \A ops : Has(E, ops)' <=> "enter" \in ops
  BY <1>2, <1>4, <1>6 DEF Has
<1>8. Watched' = Watched /\ Watched \subseteq Events
  BY <1>1, <1>5 DEF Watched, slots, LoopTypes
<1>9. LoopTypes'
  <2>1. sel' \in [fds : SUBSET Events, wait : BOOLEAN, sock : Conns \union {Null}]
    BY <1>5, <1>8
  <2> QED
    BY <1>1, <1>5, <2>1 DEF LoopTypes, slots
<1>10. TimerInv'
  BY <1>2, <1>4, <1>5, <1>6 DEF RilInv, TimerInv
<1>11. Listening' <=> Listening
  BY <1>1, <1>6, <1>7, <1>8 DEF Listening
<1>12. TableInv'
  <2>1. ~ended /\ "wakeup" \in Watched
    BY <1>6 DEF RilInv, TableInv
  <2>2. work'[M] = work[M]
    BY <1>1, <1>6
  <2> QED
    BY <1>5, <1>7, <1>8, <1>11, <2>1, <2>2 DEF RilInv, TableInv
<1>13. NoLostWakeup'
  BY <1>5, <1>8 DEF NoLostWakeup
<1>14. LockReleased'
  <2>1. Range(timers') = Range(timers)
    BY <1>5
  <2> QED
    BY <1>1, <1>3, <1>4, <1>5, <2>1, TurnLock
<1>15. \A i \in DOMAIN ins : ins[i].op \in OfTurn
  BY <1>2, <1>4 DEF OfTurn
<1> QED
  BY <1>1, <1>3, <1>4, <1>5, <1>9, <1>10, <1>11, <1>12, <1>13, <1>14, <1>15, TurnKeeps

\* A watched number that is closed ends the loop.
LEMMA enterKeeps ==
    ASSUME RilInv, enter, scenario' = scenario
    PROVE  RilInv'
<1>1. StackInv /\ At(E, "enter") /\ LoopTypes /\ E \in Threads /\ M \in Threads /\ E # M /\ V \in Threads /\ V # E
  BY DEF RilInv, enter, Threads, E, V, M
<1>2. /\ UNCHANGED <<dead, watch, wake>> /\ UNCHANGED <<timers, block, last, lock>>
      /\ UNCHANGED <<client, backlog, inbox, fdCommand, sock, cut>> /\ UNCHANGED <<request, vendor>>
      /\ UNCHANGED <<stash, writer, stream, debug, used>>
      /\ ended' = ("commands" \in sel.fds /\ sock = Null)
      /\ sel' = [sel EXCEPT !.sock = sock]
  BY DEF enter, timerVars, sockVars, requestVars, sendVars
<1> DEFINE x == I("select")
<1>3. x \in Instructions /\ x.op = "select"
  BY Made DEF Plain
<1>4. Goes(E, IF ended' THEN <<>> ELSE <<x>>)
  BY DEF enter
<1> HIDE DEF x
<1>5. PICK ins \in Seq(Instructions) : /\ Goes(E, ins) /\ Shape(ins) /\ \A i \in DOMAIN ins : ins[i].op = "select"
                                       /\ ended' => ins = <<>>
  <2>1. CASE ended'
    <3>1. <<>> \in Seq(Instructions) /\ Shape(<<>>) /\ DOMAIN <<>> = {}
      BY DEF Shape
    <3> QED
      BY <1>4, <2>1, <3>1
  <2>2. CASE ~ended'
    <3>1. Shape(<<x>>) /\ <<x>> \in Seq(Instructions) /\ DOMAIN <<x>> = {1} /\ <<x>>[1] = x
      BY <1>3, OneShape
    <3>2. Goes(E, <<x>>)
      BY <1>4, <2>2
    <3> QED
      BY <1>3, <2>2, <3>1, <3>2
  <2> QED
    BY <2>1, <2>2
<1>6. /\ work[E] # <<>> /\ work'[E] = ins /\ \A q \in Threads : q # E => work'[q] = work[q]
      /\ \A ops : Has(E, ops) <=> "enter" \in ops
  BY <1>1, <1>5, Alone
<1>7. \A ops : Has(E, ops)' => "select" \in ops
  BY <1>5, <1>6 DEF Has
<1>8. Watched' = Watched
  BY <1>2 DEF Watched, slots
<1>9. LoopTypes' /\ sel'.fds = sel.fds /\ sel'.wait = sel.wait
  <2>1. sel' \in [fds : SUBSET Events, wait : BOOLEAN, sock : Conns \union {Null}]
        /\ sel'.fds = sel.fds /\ sel'.wait = sel.wait
    BY <1>1, <1>2 DEF LoopTypes, RilInv, ClientTypes
  <2>2. ended' \in BOOLEAN
    BY <1>2
  <2> QED
    BY <1>1, <1>2, <2>1, <2>2 DEF LoopTypes, slots
<1>10. TimerInv'
  BY <1>2, <1>5, <1>6 DEF RilInv, TimerInv
<1>11. work'[M] = work[M] /\ work'[V] = work[V]
  BY <1>1, <1>6
<1>12. Listening' => Listening
  BY <1>7, <1>8, <1>11 DEF Listening
<1>13. TableInv'
  <2>1. "wakeup" \in Watched /\ sel.fds \subseteq Watched
    BY <1>6 DEF RilInv, TableInv
  <2>2. ended' => work'[E] = <<>> /\ cut'
    BY <1>2, <1>5, <1>6, <2>1 DEF RilInv, TableInv
  <2>3. /\ ~Has(E, {"listen"})' /\ ~Has(E, {"commands"})' /\ ~Has(E, {"checkCredentials"})'
        /\ ~Has(E, {"debug"})' /\ ~Has(E, {"add"})'
    BY <1>7
  <2> QED
    BY <1>2, <1>8, <1>9, <1>11, <1>12, <2>1, <2>2, <2>3 DEF RilInv, TableInv
<1>14. NoLostWakeup'
  BY <1>1, <1>2, <1>8, <1>9, <1>11 DEF RilInv, NoLostWakeup, At
<1>15. LockReleased'
  <2>1. Range(timers') = Range(timers)
    BY <1>2
  <2> QED
    BY <1>1, <1>2, <1>5, <2>1, TurnLock
<1>16. \A i \in DOMAIN ins : ins[i].op \in OfTurn
  BY <1>5 DEF OfTurn
<1> QED
  BY <1>1, <1>2, <1>5, <1>9, <1>10, <1>12, <1>13, <1>14, <1>15, <1>16, TurnKeeps

\* What select() leaves E to do: the timers that are due, then what is ready.
TurnOf(due, reads) ==
    [i \in 1..due |-> [op |-> "userTimerCallback", block |-> timers[i]]]
        \o [i \in 1..Len(reads) |-> I(watch[reads[i]])] \o <<I("ril_event_loop")>>

LEMMA TurnIs ==
    ASSUME RilInv, NEW due \in 0..Len(timers), NEW S \in SUBSET slots, NEW reads \in InOrder(S),
           \A i \in S : watch[i] \in Events
    PROVE  LET w == TurnOf(due, reads)
               n == Len(reads)
           IN  /\ w \in Seq(Instructions) /\ n \in Nat /\ due \in Nat /\ Len(w) = due + n + 1
               /\ DOMAIN w = 1..(due + n + 1)
               /\ \A i \in 1..due : w[i] = [op |-> "userTimerCallback", block |-> timers[i]] /\ i \in DOMAIN timers
               /\ \A i \in 1..(due + n + 1) : (i > due /\ i <= due + n) =>
                    i - due \in 1..n /\ reads[i - due] \in S /\ w[i].op = watch[reads[i - due]]
               /\ w[due + n + 1].op = "ril_event_loop"
               /\ \A i, j \in 1..n : i < j => reads[i] < reads[j]
<1> DEFINE n == Len(reads)
           T == [i \in 1..due |-> [op |-> "userTimerCallback", block |-> timers[i]]]
           R == [i \in 1..n |-> I(watch[reads[i]])]
           L == <<I("ril_event_loop")>>
<1>1. timers \in Seq(Blocks) /\ Len(timers) \in Nat /\ due \in Nat /\ 1..due \subseteq DOMAIN timers
  <2>1. timers \in Seq(Blocks)
    BY DEF RilInv, TimerInv
  <2>2. Len(timers) \in Nat /\ DOMAIN timers = 1..Len(timers)
    BY <2>1
  <2> QED
    BY <2>1, <2>2
<1>2. /\ n \in Nat /\ reads \in [1..n -> S]
      /\ \A i, j \in 1..n : i < j => reads[i] < reads[j]
  <2>1. slots = 1..MAX_FD_EVENTS
    BY DEF RilInv, LoopTypes, slots
  <2>2. IsFiniteSet(S)
    <3>1. IsFiniteSet(1..MAX_FD_EVENTS)
      BY FS_Interval, RilAssumption
    <3> QED
      BY <2>1, <3>1, FS_Subset
  <2>3. Cardinality(S) \in Nat
    BY <2>2, FS_CardinalityType
  <2>4. reads \in [1..Cardinality(S) -> S] /\ \A i, j \in DOMAIN reads : i < j => reads[i] < reads[j]
    BY DEF InOrder
  <2>5. Len(reads) = Cardinality(S)
    BY <2>3, <2>4
  <2> QED
    BY <2>3, <2>4, <2>5
<1> HIDE DEF n
<1>3. T \in Seq(Instructions) /\ Len(T) = due /\ \A i \in 1..due : T[i] = [op |-> "userTimerCallback", block |-> timers[i]]
  <2>1. \A i \in 1..due : [op |-> "userTimerCallback", block |-> timers[i]] \in Instructions
    BY <1>1, Made DEF OfBlock
  <2>2. T \in [1..due -> Instructions]
    BY <2>1
  <2>3. T \in Seq(Instructions) /\ Len(T) = due
    BY <1>1, <2>2
  <2> QED
    BY <2>3
<1>4. R \in Seq(Instructions) /\ Len(R) = n /\ \A i \in 1..n : R[i].op = watch[reads[i]]
  <2>1. \A i \in 1..n : I(watch[reads[i]]) \in Instructions /\ I(watch[reads[i]]).op = watch[reads[i]]
    BY <1>2, Made DEF Events, Plain
  <2>2. R \in [1..n -> Instructions]
    BY <2>1
  <2>3. R \in Seq(Instructions) /\ Len(R) = n
    BY <1>2, <2>2
  <2> QED
    BY <2>1, <2>3
<1>5. L \in Seq(Instructions) /\ Len(L) = 1 /\ L[1].op = "ril_event_loop"
  <2>1. I("ril_event_loop") \in Instructions /\ I("ril_event_loop").op = "ril_event_loop"
    BY Made DEF Plain
  <2> HIDE DEF I
  <2> QED
    BY <2>1
<1>6. TurnOf(due, reads) = T \o R \o L
  BY DEF TurnOf, n
<1> HIDE DEF T, R, L
<1> DEFINE q == T \o R
<1>7. /\ q \in Seq(Instructions) /\ Len(q) = due + n
      /\ \A i \in 1..(due + n) : q[i] = IF i <= due THEN T[i] ELSE R[i - due]
  <2>1. /\ q \in Seq(Instructions) /\ Len(q) = Len(T) + Len(R)
        /\ \A i \in 1..(Len(T) + Len(R)) : q[i] = IF i <= Len(T) THEN T[i] ELSE R[i - Len(T)]
    BY <1>3, <1>4, ConcatProperties
  <2>2. Len(T) = due /\ Len(R) = n
    BY <1>3, <1>4
  <2> HIDE DEF q
  <2> QED
    BY <2>1, <2>2
<1> HIDE DEF q
<1> DEFINE w == q \o L
<1>8. /\ w \in Seq(Instructions) /\ Len(w) = due + n + 1
      /\ \A i \in 1..(due + n + 1) : w[i] = IF i <= due + n THEN q[i] ELSE L[i - (due + n)]
  <2>1. /\ w \in Seq(Instructions) /\ Len(w) = Len(q) + Len(L)
        /\ \A i \in 1..(Len(q) + Len(L)) : w[i] = IF i <= Len(q) THEN q[i] ELSE L[i - Len(q)]
    BY <1>5, <1>7, ConcatProperties
  <2>2. Len(q) = due + n /\ Len(L) = 1
    BY <1>5, <1>7
  <2> HIDE DEF w
  <2> QED
    BY <2>1, <2>2
<1> HIDE DEF w
<1>9. DOMAIN w = 1..(due + n + 1)
  BY <1>8
<1>10. ASSUME NEW i \in 1..due PROVE w[i] = [op |-> "userTimerCallback", block |-> timers[i]] /\ i \in DOMAIN timers
  <2>1. i \in 1..(due + n) /\ i \in 1..(due + n + 1) /\ i <= due /\ i <= due + n
    BY <1>1, <1>2
  <2> QED
    BY <1>1, <1>3, <1>7, <1>8, <2>1
<1>11. ASSUME NEW i \in 1..(due + n + 1), i > due, i <= due + n
       PROVE  i - due \in 1..n /\ reads[i - due] \in S /\ w[i].op = watch[reads[i - due]]
  <2>1. i - due \in 1..n /\ i \in 1..(due + n) /\ ~(i <= due)
    BY <1>1, <1>2, <1>11
  <2> QED
    BY <1>2, <1>4, <1>7, <1>8, <1>11, <2>1
<1>12. w[due + n + 1].op = "ril_event_loop"
  <2>1. due + n + 1 \in 1..(due + n + 1) /\ ~(due + n + 1 <= due + n) /\ (due + n + 1) - (due + n) = 1
    BY <1>1, <1>2
  <2> QED
    BY <1>5, <1>8, <2>1
<1>13. w = TurnOf(due, reads)
  BY <1>6 DEF w, q
<1>14. /\ w \in Seq(Instructions) /\ n \in Nat /\ due \in Nat /\ Len(w) = due + n + 1
       /\ DOMAIN w = 1..(due + n + 1)
       /\ \A i \in 1..due : w[i] = [op |-> "userTimerCallback", block |-> timers[i]] /\ i \in DOMAIN timers
       /\ \A i \in 1..(due + n + 1) : (i > due /\ i <= due + n) =>
            i - due \in 1..n /\ reads[i - due] \in S /\ w[i].op = watch[reads[i - due]]
       /\ w[due + n + 1].op = "ril_event_loop"
       /\ \A i, j \in 1..n : i < j => reads[i] < reads[j]
  BY <1>1, <1>2, <1>8, <1>9, <1>10, <1>11, <1>12
<1> QED
  BY <1>13, <1>14 DEF n

\* What the instructions of a turn are.
LEMMA TurnFits ==
    ASSUME RilInv, NEW due \in 0..Len(timers), NEW S \in SUBSET slots, NEW reads \in InOrder(S),
           \A i \in S : watch[i] \in Events
    PROVE  LET w == TurnOf(due, reads)
           IN  /\ w \in Seq(Instructions) /\ w # <<>> /\ Shape(w)
               /\ \A i \in DOMAIN w : w[i].op \in OfTurn \ {"enter", "select"}
               /\ \A i \in DOMAIN w : w[i].op \in Events => \E k \in S : watch[k] = w[i].op
               /\ \A i \in DOMAIN w : w[i].op = "userTimerCallback" =>
                    i \in 1..due /\ i \in DOMAIN timers /\ w[i].block = timers[i]
               /\ \A i \in 1..due : i \in DOMAIN w /\ w[i] = [op |-> "userTimerCallback", block |-> timers[i]]
               /\ due \in Nat
<1> DEFINE w == TurnOf(due, reads)
           n == Len(reads)
<1>1. /\ w \in Seq(Instructions) /\ n \in Nat /\ due \in Nat /\ Len(w) = due + n + 1
      /\ DOMAIN w = 1..(due + n + 1)
      /\ \A i \in 1..due : w[i] = [op |-> "userTimerCallback", block |-> timers[i]] /\ i \in DOMAIN timers
      /\ \A i \in 1..(due + n + 1) : (i > due /\ i <= due + n) =>
           i - due \in 1..n /\ reads[i - due] \in S /\ w[i].op = watch[reads[i - due]]
      /\ w[due + n + 1].op = "ril_event_loop"
      /\ \A i, j \in 1..n : i < j => reads[i] < reads[j]
  BY TurnIs
<1> HIDE DEF w, n
<1> DEFINE Fires(i) == i \in 1..due /\ i \in DOMAIN timers /\ w[i].op = "userTimerCallback" /\ w[i].block = timers[i]
           Reads(i) == i - due \in 1..n /\ reads[i - due] \in S /\ w[i].op = watch[reads[i - due]] /\ w[i].op \in Events
           Ends(i) == i = Len(w) /\ w[i].op = "ril_event_loop"
<1>2. ASSUME NEW i \in DOMAIN w PROVE Fires(i) \/ Reads(i) \/ Ends(i)
  <2>1. CASE i <= due
    <3>0. i \in Nat /\ i >= 1 /\ due \in Nat
      BY <1>1
    <3>3. i \in 1..due
      BY <2>1, <3>0
    <3>1. i \in 1..due /\ w[i] = [op |-> "userTimerCallback", block |-> timers[i]] /\ i \in DOMAIN timers
      BY <1>1, <3>3
    <3>2. w[i].op = "userTimerCallback" /\ w[i].block = timers[i]
      BY <3>1
    <3> QED
      BY <3>1, <3>2
  <2>2. CASE i > due /\ i <= due + n
    <3>1. i - due \in 1..n /\ reads[i - due] \in S /\ w[i].op = watch[reads[i - due]]
      BY <1>1, <2>2
    <3> QED
      BY <3>1
  <2>3. CASE i > due + n
    BY <1>1, <2>3
  <2> QED
    BY <1>1, <2>1, <2>2, <2>3
<1>3. \A i \in DOMAIN w : w[i].op \in OfTurn \ {"enter", "select"}
  BY <1>2 DEF OfTurn, Events
<1>4. \A i \in DOMAIN w : w[i].op \in {"ril_event_loop", "enter", "select"} => i = Len(w)
  BY <1>2 DEF Events
<1>5. ASSUME NEW i \in DOMAIN w, NEW j \in DOMAIN w, w[i].op = w[j].op, w[i].op \in {"listen", "debug", "commands", "add"}
      PROVE  i = j
  <2>1. Reads(i) /\ Reads(j)
    BY <1>2, <1>5
  <2>2. reads[i - due] = reads[j - due]
    <3>1. watch[reads[i - due]] = watch[reads[j - due]] /\ watch[reads[i - due]] # Null
      BY <1>5, <2>1, RilAssumption DEF Events
    <3>2. \A k, l \in slots : watch[k] = watch[l] => k = l \/ watch[k] = Null
      BY DEF RilInv, LoopTypes
    <3>3. reads[i - due] \in slots /\ reads[j - due] \in slots
      BY <2>1
    <3> QED
      BY <3>1, <3>2, <3>3
  <2>3. i - due = j - due
    <3>1. reads[i - due] \in Nat
      BY <2>1, RilAssumption DEF RilInv, LoopTypes, slots
    <3>2. ~(i - due < j - due) /\ ~(j - due < i - due)
      BY <1>1, <2>1, <2>2, <3>1
    <3> QED
      BY <1>1, <2>1, <3>2
  <2> QED
    BY <1>1, <2>3
<1>6. ASSUME NEW i \in DOMAIN w, NEW j \in DOMAIN w,
             w[i].op \in {"userTimerCallback", "free"}, w[j].op \in {"userTimerCallback", "free"}
      PROVE  i = j \/ w[i].block # w[j].block
  <2>1. Fires(i) /\ Fires(j)
    BY <1>2, <1>6 DEF Events
  <2>2. IsInjective(timers)
    BY DEF RilInv, TimerInv
  <2> QED
    BY <2>1, <2>2 DEF IsInjective
<1>7. \A i \in DOMAIN w : w[i].op \in Under
  BY <1>2 DEF Under, Events
<1>8. Shape(w)
  <2>1. \A i \in DOMAIN w : w[i].op # "cancel" /\ w[i].op # "grabPartialWakeLock"
    BY <1>3 DEF OfTurn
  <2> QED
    BY <1>4, <1>5, <1>6, <1>7, <2>1 DEF Shape
<1>9. \A i \in DOMAIN w : w[i].op \in Events => \E k \in S : watch[k] = w[i].op
  BY <1>2 DEF Events
<1>10. \A i \in DOMAIN w : w[i].op = "userTimerCallback" =>
            i \in 1..due /\ i \in DOMAIN timers /\ w[i].block = timers[i]
  BY <1>2 DEF Events
<1>11. ASSUME NEW i \in 1..due PROVE i \in DOMAIN w /\ w[i] = [op |-> "userTimerCallback", block |-> timers[i]]
  BY <1>1
<1>12. w # <<>>
  BY <1>1
<1>13. /\ w \in Seq(Instructions) /\ w # <<>> /\ Shape(w)
       /\ \A i \in DOMAIN w : w[i].op \in OfTurn \ {"enter", "select"}
       /\ \A i \in DOMAIN w : w[i].op \in Events => \E k \in S : watch[k] = w[i].op
       /\ \A i \in DOMAIN w : w[i].op = "userTimerCallback" =>
            i \in 1..due /\ i \in DOMAIN timers /\ w[i].block = timers[i]
       /\ \A i \in 1..due : i \in DOMAIN w /\ w[i] = [op |-> "userTimerCallback", block |-> timers[i]]
       /\ due \in Nat
  BY <1>1, <1>3, <1>8, <1>9, <1>10, <1>11, <1>12
<1> QED
  BY <1>13 DEF w

\* A suffix of the list of timers.
LEMMA Rest ==
    ASSUME timers \in Seq(Blocks), IsInjective(timers), NEW due \in 0..Len(timers), timers' = SubSeq(timers, due + 1, Len(timers))
    PROVE  /\ timers' \in Seq(Blocks) /\ IsInjective(timers)'
           /\ \A i \in DOMAIN timers' : i + due \in DOMAIN timers /\ timers'[i] = timers[i + due]
           /\ \A i \in DOMAIN timers : i <= due \/ \E j \in DOMAIN timers' : timers'[j] = timers[i]
<1>1. Len(timers) \in Nat /\ due \in Nat /\ due <= Len(timers) /\ DOMAIN timers = 1..Len(timers)
  OBVIOUS
<1> DEFINE m == Len(timers) - due
<1>2. m \in Nat
  BY <1>1
<1>3. timers' \in Seq(Blocks) /\ Len(timers') = m /\ DOMAIN timers' = 1..m
      /\ \A i \in 1..m : timers'[i] = timers[i + due]
  <2> DEFINE s == SubSeq(timers, due + 1, Len(timers))
             l == due + 1
             k == Len(timers)
  <2>1. l \in Int /\ k \in Int /\ \A i \in l..k : timers[i] \in Blocks
    BY <1>1
  <2>2. /\ SubSeq(timers, l, k) \in Seq(Blocks)
        /\ Len(SubSeq(timers, l, k)) = IF l <= k THEN k - l + 1 ELSE 0
        /\ \A i \in 1..(k - l + 1) : SubSeq(timers, l, k)[i] = timers[l + i - 1]
    <3> HIDE DEF l, k
    <3> QED
      BY <2>1, SubSeqProperties
  <2>3. s = SubSeq(timers, l, k)
    OBVIOUS
  <2> HIDE DEF s
  <2>4. k - l + 1 = m /\ (~(l <= k) => m = 0)
    <3>1. \A a, b \in Nat : b <= a => a - (b + 1) + 1 = a - b /\ (~(b + 1 <= a) => a - b = 0)
      OBVIOUS
    <3> QED
      BY <1>1, <3>1
  <2>5. s \in Seq(Blocks) /\ Len(s) = m
    BY <2>2, <2>3, <2>4
  <2>6. ASSUME NEW i \in 1..m PROVE s[i] = timers[i + due]
    <3>1. l + i - 1 = i + due
      BY <1>1
    <3>2. s[i] = timers[l + i - 1]
      BY <2>2, <2>3, <2>4
    <3> QED
      BY <3>1, <3>2
  <2>7. DOMAIN s = 1..m
    BY <1>2, <2>5
  <2> QED
    BY <2>5, <2>6, <2>7 DEF s
<1>4. ASSUME NEW i \in DOMAIN timers' PROVE i + due \in DOMAIN timers /\ timers'[i] = timers[i + due]
  <2>1. i \in 1..m
    BY <1>3
  <2>2. i + due \in 1..Len(timers)
    BY <1>1, <2>1
  <2> QED
    BY <1>1, <1>3, <2>1, <2>2
<1>5. IsInjective(timers)'
  <2>1. ASSUME NEW i \in DOMAIN timers', NEW j \in DOMAIN timers', timers'[i] = timers'[j] PROVE i = j
    <3>1. i + due \in DOMAIN timers /\ j + due \in DOMAIN timers /\ timers[i + due] = timers[j + due]
      BY <1>4, <2>1
    <3>2. i + due = j + due
      BY <3>1 DEF IsInjective
    <3>3. i \in Int /\ j \in Int
      BY <1>2, <1>3
    <3> QED
      BY <1>1, <3>2, <3>3
  <2> QED
    BY <2>1 DEF IsInjective
<1>6. ASSUME NEW i \in DOMAIN timers, ~(i <= due) PROVE \E j \in DOMAIN timers' : timers'[j] = timers[i]
  <2>1. i - due \in 1..m /\ (i - due) + due = i
    BY <1>1, <1>6
  <2> QED
    BY <1>3, <2>1
<1> QED
  BY <1>3, <1>4, <1>5, <1>6

\* What is due and what is ready is put on the stack; nothing is lost of a timer.
LEMMA selectKeeps ==
    ASSUME RilInv, select, scenario' = scenario
    PROVE  RilInv'
<1>1. /\ StackInv /\ At(E, "select") /\ LoopTypes /\ TimerInv /\ TableInv
      /\ E \in Threads /\ M \in Threads /\ E # M
  BY DEF RilInv, select, Threads, E, M
<1> DEFINE ready == {event \in sel.fds : Ready(event)}
           S == {i \in slots : watch[i] \in ready}
<1>2. PICK due \in 0..Len(timers), reads \in InOrder(S) :
            /\ Goes(E, TurnOf(due, reads))
            /\ watch' = processReadReadies(ready)
            /\ timers' = SubSeq(timers, due + 1, Len(timers))
  BY DEF select, TurnOf
<1>3. /\ UNCHANGED <<dead, ended, sel, wake>> /\ UNCHANGED <<block, last, lock>>
      /\ UNCHANGED <<client, backlog, inbox, fdCommand, sock, cut>> /\ UNCHANGED <<request, vendor>>
      /\ UNCHANGED <<stash, writer, stream, debug, used>>
  BY DEF select, sockVars, requestVars, sendVars
<1>4. ready \subseteq Events /\ ready \subseteq Watched /\ ("debug" \in ready => debug # Null)
  <2>1. Has(E, {"enter", "select"})
    BY <1>1, HasTop
  <2>2. sel.fds \subseteq Watched /\ sel.fds \subseteq Events
    BY <1>1, <2>1 DEF TableInv, LoopTypes
  <2>3. Ready("debug") <=> debug # Null
    BY DEF Ready
  <2> QED
    BY <2>2, <2>3
<1> HIDE DEF ready
<1>5. S \in SUBSET slots /\ \A i \in S : watch[i] \in ready /\ watch[i] \in Events
  BY <1>4
<1> DEFINE w == TurnOf(due, reads)
<1>6. /\ w \in Seq(Instructions) /\ w # <<>> /\ Shape(w)
      /\ \A i \in DOMAIN w : w[i].op \in OfTurn \ {"enter", "select"}
      /\ \A i \in DOMAIN w : w[i].op \in Events => \E k \in S : watch[k] = w[i].op
      /\ \A i \in DOMAIN w : w[i].op = "userTimerCallback" =>
            i \in 1..due /\ i \in DOMAIN timers /\ w[i].block = timers[i]
      /\ \A i \in 1..due : i \in DOMAIN w /\ w[i] = [op |-> "userTimerCallback", block |-> timers[i]]
      /\ due \in Nat
  <2> HIDE DEF S
  <2> QED
    BY <1>5, TurnFits
<1>7. Goes(E, w)
  BY <1>2
<1>8. \A i \in DOMAIN w : w[i].op \in Events => w[i].op \in ready
  BY <1>5, <1>6
<1> HIDE DEF w, S
<1>9. /\ work[E] # <<>> /\ work'[E] = w /\ \A q \in Threads : q # E => work'[q] = work[q]
      /\ \A ops : Has(E, ops) <=> "select" \in ops
  BY <1>1, <1>6, <1>7, Alone
<1>10. /\ \A e \in Events : Has(E, {e})' => e \in ready
       /\ ~Has(E, {"checkCredentials"})' /\ ~Has(E, {"add"})' /\ ~Has(E, {"enter", "select"})'
  <2>1. \A ops : Has(E, ops)' <=> \E i \in DOMAIN w : w[i].op \in ops
    BY <1>9 DEF Has
  <2> QED
    BY <1>6, <1>8, <2>1 DEF OfTurn
<1>11. /\ timers \in Seq(Blocks) /\ IsInjective(timers)
       /\ timers' \in Seq(Blocks) /\ IsInjective(timers)'
       /\ \A i \in DOMAIN timers' : i + due \in DOMAIN timers /\ timers'[i] = timers[i + due]
       /\ \A i \in DOMAIN timers : i <= due \/ \E j \in DOMAIN timers' : timers'[j] = timers[i]
  <2>1. timers \in Seq(Blocks) /\ IsInjective(timers)
    BY <1>1 DEF TimerInv
  <2> QED
    BY <1>2, <2>1, Rest
<1>12. /\ slots = 1..MAX_FD_EVENTS /\ slots' = slots
       /\ \A i \in slots : watch'[i] = IF watch[i] \in ready \intersect {"listen"} THEN Null ELSE watch[i]
       /\ watch' \in [1..MAX_FD_EVENTS -> Events \union {Null}]
  <2>1. slots = 1..MAX_FD_EVENTS /\ watch \in [1..MAX_FD_EVENTS -> Events \union {Null}]
    BY <1>1 DEF LoopTypes, slots
  <2>2. watch' = [i \in slots |-> IF watch[i] \in ready \intersect {"listen"} THEN Null ELSE watch[i]]
    BY <1>2 DEF processReadReadies, WithoutEvents
  <2>3. slots' = slots
    BY <2>2 DEF slots
  <2> QED
    BY <2>1, <2>2, <2>3
<1>13. /\ Watched' \subseteq Watched /\ ("listen" \in ready => "listen" \notin Watched')
       /\ \A e \in Watched : e = "listen" \/ e \in Watched'
  BY <1>12 DEF Watched
<1>14. LoopTypes'
  <2>1. ASSUME NEW i \in slots', NEW j \in slots', watch'[i] = watch'[j] PROVE i = j \/ watch'[i] = Null
    BY <1>1, <1>12, <2>1 DEF LoopTypes
  <2> QED
    BY <1>1, <1>3, <1>12, <2>1 DEF LoopTypes
<1>15. TimerInv'
  <2>1. \A i \in DOMAIN timers' : block'[timers'[i]] # Free
    BY <1>1, <1>3, <1>11 DEF TimerInv
  <2>2. ASSUME NEW i \in DOMAIN work'[E], work'[E][i].op \in {"userTimerCallback", "free"}
        PROVE  block'[work'[E][i].block] # Free /\ \A j \in DOMAIN timers' : timers'[j] # work'[E][i].block
    <3>1. i \in 1..due /\ i \in DOMAIN timers /\ work'[E][i].block = timers[i]
      BY <1>6, <1>9, <2>2 DEF OfTurn
    <3>2. ASSUME NEW j \in DOMAIN timers', timers'[j] = timers[i] PROVE FALSE
      <4>1. j + due \in DOMAIN timers /\ timers[j + due] = timers[i] /\ j \in Nat \ {0}
        BY <1>11, <3>2
      <4>2. j + due = i
        BY <1>11, <3>1, <4>1 DEF IsInjective
      <4> QED
        BY <1>6, <3>1, <4>1, <4>2
    <3> QED
      BY <1>1, <1>3, <3>1, <3>2 DEF TimerInv
  <2> QED
    BY <1>1, <1>3, <1>11, <2>1, <2>2 DEF TimerInv
<1>16. Listening' => Listening
  <2>1. Has(E, {"listen"})' => "listen" \in ready
    BY <1>10 DEF Events
  <2>2. work'[M] = work[M]
    BY <1>1, <1>9
  <2>3. "listen" \in Watched' \/ "listen" \in ready => "listen" \in Watched
    BY <1>4, <1>13
  <2>4. Len(work'[M]) >= 4 => Len(work[M]) >= 4
    BY <2>2
  <2> QED
    BY <2>1, <2>3, <2>4 DEF Listening
<1>17. TableInv'
  <2>1. "wakeup" \in Watched
    BY <1>1, <1>9 DEF TableInv
  <2>2. work'[M] = work[M]
    BY <1>1, <1>9
  <2>3. /\ (Has(E, {"listen"})' => "listen" \in ready) /\ (Has(E, {"commands"})' => "commands" \in ready)
        /\ (Has(E, {"debug"})' => "debug" \in ready)
        /\ ~Has(E, {"checkCredentials"})' /\ ~Has(E, {"add"})'
    BY <1>10 DEF Events
  <2>4. "wakeup" \in Watched' /\ ("commands" \in ready => "commands" \in Watched') /\ ~ended
    BY <1>1, <1>4, <1>9, <1>13, <2>1 DEF TableInv
  <2> QED
    BY <1>1, <1>3, <1>4, <1>10, <1>13, <1>16, <2>2, <2>3, <2>4 DEF TableInv
<1>18. NoLostWakeup'
  <2>1. ~At(E, "enter")' /\ ~At(E, "select")'
    <3>1. Head(w).op \notin {"enter", "select"}
      <4>1. 1 \in DOMAIN w /\ Head(w) = w[1]
        BY <1>6
      <4> QED
        BY <1>6, <4>1
    <3> QED
      BY <1>9, <3>1 DEF At
  <2> QED
    BY <2>1 DEF NoLostWakeup
<1>19. LockReleased'
  <2>1. ASSUME NEW b \in Range(timers)
        PROVE  b \in Range(timers') \/ \E i \in DOMAIN w : w[i] = [op |-> "userTimerCallback", block |-> b]
    <3>1. PICK i \in DOMAIN timers : timers[i] = b
      BY DEF Range
    <3>2. CASE i <= due
      <4>1. i \in 1..due
        BY <1>6, <1>11, <3>2
      <4> QED
        BY <1>6, <3>1, <4>1
    <3>3. CASE ~(i <= due)
      BY <1>11, <3>1, <3>3 DEF Range
    <3> QED
      BY <3>2, <3>3
  <2> QED
    BY <1>1, <1>3, <1>6, <1>7, <2>1, TurnLock
<1>20. \A i \in DOMAIN w : w[i].op \in OfTurn
  BY <1>6
<1> QED
  BY <1>1, <1>3, <1>6, <1>7, <1>14, <1>15, <1>16, <1>17, <1>18, <1>19, <1>20, TurnKeeps

-----------------------------------------------------------------------------
(* main(). *)

\* What main() has left, by its length.
LEMMA MainTop ==
    ASSUME StackInv, NEW op, At(M, op)
    PROVE  /\ Len(work[M]) \in 1..7 /\ work[M] \in Seq(Instructions) /\ work[M] # <<>>
           /\ Head(work[M]) = main[8 - Len(work[M])]
           /\ op \in {"RIL_startEventLoop", "RIL_Init", "RIL_register", "add", "triggerEvLoop"}
           /\ op = "add" => \/ Len(work[M]) = 4 /\ Head(work[M]).event = "listen"
                            \/ Len(work[M]) = 2 /\ Head(work[M]).event = "debug"
           /\ op = "triggerEvLoop" => Len(work[M]) \in {1, 3}
           /\ ~dead
<1>1. M \in Threads /\ Len(main) = 7
  BY DEF Threads, main
<1>2. /\ work[M] \in Seq(Instructions) /\ work[M] # <<>> /\ 1 \in DOMAIN work[M]
      /\ Head(work[M]) = work[M][1] /\ Head(work[M]).op = op
  BY <1>1, HeadIs
<1>3. Len(work[M]) \in 1..7
  <2>1. Len(work[M]) \in Nat /\ Len(work[M]) # 0
    BY <1>2
  <2>2. Len(work[M]) <= Len(main)
    BY DEF StackInv
  <2>3. \A n \in Nat : n # 0 /\ n <= 7 => n \in 1..7
    OBVIOUS
  <2> QED
    BY <1>1, <2>1, <2>2, <2>3
<1>4. Head(work[M]) = main[8 - Len(work[M])]
  <2>1. work[M][1] = main[1 + Len(main) - Len(work[M])]
    BY <1>2 DEF StackInv
  <2> QED
    BY <1>1, <1>2, <1>3, <2>1
<1>5. /\ main[1].op = "RIL_startEventLoop" /\ main[2].op = "RIL_Init" /\ main[3].op = "RIL_register"
      /\ main[4].op = "add" /\ main[4].event = "listen" /\ main[5].op = "triggerEvLoop"
      /\ main[6].op = "add" /\ main[6].event = "debug" /\ main[7].op = "triggerEvLoop"
  BY DEF main, I, Add
<1>7. ~dead
  BY <1>1, <1>2 DEF StackInv
<1> DEFINE n == Len(work[M])
           top == Head(work[M])
<1>6. /\ n \in 1..7 /\ top = main[8 - n] /\ top.op = op
  BY <1>2, <1>3, <1>4
<1> HIDE DEF n, top
<1>8. <<n, 8 - n>> \in {<<1, 7>>, <<2, 6>>, <<3, 5>>, <<4, 4>>, <<5, 3>>, <<6, 2>>, <<7, 1>>}
  <2>1. \A k \in 1..7 : <<k, 8 - k>> \in {<<1, 7>>, <<2, 6>>, <<3, 5>>, <<4, 4>>, <<5, 3>>, <<6, 2>>, <<7, 1>>}
    OBVIOUS
  <2> QED
    BY <1>6, <2>1
<1>9. /\ op \in {"RIL_startEventLoop", "RIL_Init", "RIL_register", "add", "triggerEvLoop"}
      /\ op = "add" => (n = 4 /\ top.event = "listen") \/ (n = 2 /\ top.event = "debug")
      /\ op = "triggerEvLoop" => n \in {1, 3}
  BY <1>5, <1>6, <1>8
<1>10. /\ op = "add" => \/ Len(work[M]) = 4 /\ Head(work[M]).event = "listen"
                        \/ Len(work[M]) = 2 /\ Head(work[M]).event = "debug"
       /\ op = "triggerEvLoop" => Len(work[M]) \in {1, 3}
  BY <1>9 DEF n, top
<1> QED
  BY <1>2, <1>3, <1>4, <1>7, <1>9, <1>10

LEMMA MainGoes ==
    ASSUME StackInv, NEW op, At(M, op), Goes(M, <<>>), dead' = dead
    PROVE  /\ StackInv' /\ Len(work'[M]) = Len(work[M]) - 1
           /\ \A q \in Threads : q # M => work'[q] = work[q]
<1>1. M \in Threads /\ Len(main) = 7 /\ E \in Threads /\ V \in Threads /\ E # M /\ V # M
  BY DEF Threads, main, E, V, M
<1>2. Len(work[M]) \in 1..7 /\ work[M] \in Seq(Instructions) /\ work[M] # <<>> /\ ~dead
  BY MainTop
<1>3. /\ Tail(work[M]) \in Seq(Instructions) /\ Len(Tail(work[M])) = Len(work[M]) - 1
      /\ \A i \in 1..(Len(work[M]) - 1) : Tail(work[M])[i] = work[M][i + 1]
  BY <1>2, HeadTailProperties
<1>4. <<>> \o Tail(work[M]) = Tail(work[M])
  BY <1>3, ConcatEmptySeq
<1>5. work' = [work EXCEPT ![M] = Tail(work[M])]
  BY <1>4 DEF Goes
<1>6. /\ work' \in [Threads -> Seq(Instructions)] /\ work'[M] = Tail(work[M])
      /\ \A q \in Threads : q # M => work'[q] = work[q]
  BY <1>1, <1>3, <1>5 DEF StackInv
<1>7. work'[E] = work[E] /\ work'[V] = work[V]
  BY <1>1, <1>6
<1>8. ASSUME NEW i \in DOMAIN work'[M] PROVE work'[M][i] = main[i + Len(main) - Len(work'[M])]
  <2>1. i \in 1..(Len(work[M]) - 1) /\ i + 1 \in DOMAIN work[M] /\ work'[M][i] = work[M][i + 1]
    BY <1>2, <1>3, <1>6
  <2>2. work[M][i + 1] = main[(i + 1) + Len(main) - Len(work[M])]
    BY <2>1 DEF StackInv
  <2>3. (i + 1) + Len(main) - Len(work[M]) = i + Len(main) - Len(work'[M])
    BY <1>1, <1>2, <1>3, <1>6, <2>1
  <2> QED
    BY <2>1, <2>2, <2>3
<1>9. Len(work'[M]) = Len(work[M]) - 1 /\ Len(work'[M]) <= Len(main)
  <2>1. \A n \in 1..7 : n - 1 <= 7
    OBVIOUS
  <2>2. Len(work'[M]) = Len(work[M]) - 1
    BY <1>3, <1>6
  <2>3. Len(work[M]) - 1 <= 7
    BY <1>2, <2>1
  <2> QED
    BY <1>1, <2>2, <2>3
<1>10. StackInv'
  BY <1>2, <1>6, <1>7, <1>8, <1>9 DEF StackInv
<1> QED
  BY <1>6, <1>9, <1>10

\* main() has no part in the client's stream, the timers or the wake lock.
LEMMA MainStep ==
    ASSUME RilInv, NEW op, At(M, op), Goes(M, <<>>), UNCHANGED dead, UNCHANGED <<timers, block, last, lock>>,
           UNCHANGED <<client, backlog, inbox, fdCommand, sock, cut>>, UNCHANGED <<request, vendor>>,
           UNCHANGED <<stash, writer, stream>>, LoopTypes', TableInv', Listening' => Listening, NoLostWakeup'
    PROVE  RilInv'
<1>1. StackInv /\ StackInv' /\ \A q \in Threads : q # M => work'[q] = work[q]
  BY MainGoes DEF RilInv
<1>2. work'[E] = work[E] /\ work'[V] = work[V] /\ {E, V, M} = Threads
  BY <1>1 DEF Threads, E, V, M
<1>3. ClientTypes'
  BY DEF RilInv, ClientTypes
<1>4. TimerInv'
  BY <1>2 DEF RilInv, TimerInv
<1>5. \A t \in {E, V} : (Writing(t)' <=> Writing(t)) /\ (At(t, "payload")' <=> At(t, "payload")) /\ work'[t] = work[t]
  BY <1>2 DEF Writing, At
<1>6. StreamInv'
  <2>1. ~dead
    BY <1>1, MainTop
  <2>2. writer \in {E, V, Null}
    BY <2>1 DEF RilInv, StreamInv
  <2>3. (sock # Null => \/ dead
                        \/ stream[sock] \in {"whole", "orphan"}
                        \/ /\ writer # Null /\ stream[sock] = writer
                           /\ At(writer, "payload") => Head(work[writer]).conn = sock)'
    BY <1>5, <2>1, <2>2 DEF RilInv, StreamInv
  <2>4. (writer # Null => dead \/ (writer \in {E, V} /\ Writing(writer)))'
    BY <1>5, <2>1 DEF RilInv, StreamInv
  <2> QED
    BY <1>5, <2>3, <2>4 DEF RilInv, StreamInv
<1>7. RequestInv'
  BY RequestKept DEF RilInv
<1>8. LockReleased'
  <2>1. SUFFICES ASSUME lock, ~dead PROVE LockReleased'
    BY DEF LockReleased
  <2>2. CASE \E q \in Threads : Has(q, {"schedule", "timer", "releaseWakeLock"})
    <3>1. PICK q \in Threads : Has(q, {"schedule", "timer", "releaseWakeLock"})
      BY <2>2
    <3>2. q # M
      <4>1. SUFFICES ASSUME NEW i \in DOMAIN work[M], work[M][i].op \in {"schedule", "timer", "releaseWakeLock"} PROVE FALSE
        BY <3>1 DEF Has
      <4>2. Len(main) = 7 /\ \A k \in {1, 2, 3, 4, 5, 6, 7} : main[k].op \notin {"schedule", "timer", "releaseWakeLock"}
        BY DEF main, I, Add
      <4>3. work[M] \in Seq(Instructions) /\ Len(work[M]) <= 7 /\ work[M][i] = main[i + Len(main) - Len(work[M])]
        BY <1>1, <1>2, <4>2 DEF StackInv
      <4>4. i + Len(main) - Len(work[M]) \in {1, 2, 3, 4, 5, 6, 7}
        BY <4>2, <4>3
      <4> QED
        BY <4>1, <4>2, <4>3, <4>4
    <3>3. Has(q, {"schedule", "timer", "releaseWakeLock"})'
      BY <1>1, <3>1, <3>2 DEF Has
    <3> QED
      BY <3>3 DEF LockReleased
  <2> QED
    BY <1>2, <2>1, <2>2 DEF RilInv, LockReleased
<1> QED
  BY <1>1, <1>3, <1>4, <1>6, <1>7, <1>8 DEF RilInv

\* What main() does to get ready: the table stays as it is.
LEMMA MainCalm ==
    ASSUME RilInv, NEW op \in {"RIL_startEventLoop", "RIL_Init", "RIL_register", "triggerEvLoop"}, At(M, op), Goes(M, <<>>),
           scenario' = scenario, UNCHANGED <<dead, ended, watch, sel>>, UNCHANGED <<timers, block, last, lock>>,
           UNCHANGED <<client, backlog, inbox, fdCommand, sock, cut>>, UNCHANGED <<request, vendor>>,
           UNCHANGED <<stash, writer, stream, debug, used>>, wake' \in BOOLEAN, wake => wake',
           op = "triggerEvLoop" => wake' = (wake \/ "wakeup" \in Watched)
    PROVE  RilInv'
<1>1. /\ StackInv /\ StackInv' /\ Len(work'[M]) = Len(work[M]) - 1
      /\ \A q \in Threads : q # M => work'[q] = work[q]
  BY MainGoes DEF RilInv
<1>2. work'[E] = work[E] /\ work'[V] = work[V] /\ Len(work[M]) \in 1..7 /\ Len(work[M]) # 4
  <2>1. {E, V} \subseteq Threads /\ E # M /\ V # M
    BY DEF Threads, E, V, M
  <2>2. /\ Len(work[M]) \in 1..7 /\ Head(work[M]) = main[8 - Len(work[M])] /\ Head(work[M]).op = op
    BY <1>1, MainTop DEF At
  <2>3. main[4].op = "add"
    BY DEF main, Add
  <2>4. Len(work[M]) # 4
    <3>1. SUFFICES ASSUME Len(work[M]) = 4 PROVE FALSE
      OBVIOUS
    <3>2. 8 - Len(work[M]) = 4
      BY <3>1
    <3> QED
      BY <2>2, <2>3, <3>2
  <2> QED
    BY <1>1, <2>1, <2>2, <2>4
<1>3. /\ Watched' = Watched /\ \A ops : Has(E, ops)' <=> Has(E, ops)
  BY <1>2 DEF Watched, slots, Has
<1>9. (Len(work'[M]) >= 4 <=> Len(work[M]) >= 4) /\ (Len(work'[M]) >= 2 => Len(work[M]) >= 2)
  <2>1. \A n \in 1..7 : n # 4 => (n - 1 >= 4 <=> n >= 4) /\ (n - 1 >= 2 => n >= 2)
    OBVIOUS
  <2>2. Len(work'[M]) = Len(work[M]) - 1
    BY <1>1
  <2>3. (Len(work[M]) - 1 >= 4 <=> Len(work[M]) >= 4) /\ (Len(work[M]) - 1 >= 2 => Len(work[M]) >= 2)
    BY <1>2, <2>1
  <2> QED
    BY <2>2, <2>3
<1>4. Listening' <=> Listening
  BY <1>3, <1>9 DEF Listening
<1>5. LoopTypes'
  BY DEF RilInv, LoopTypes, slots
<1>6. TableInv'
  BY <1>2, <1>3, <1>4, <1>9 DEF RilInv, TableInv
<1>7. NoLostWakeup'
  <2>1. (At(V, "triggerEvLoop")' <=> At(V, "triggerEvLoop")) /\ (At(E, "enter")' <=> At(E, "enter"))
        /\ (At(E, "select")' <=> At(E, "select"))
    BY <1>2 DEF At
  <2>2. CASE op = "triggerEvLoop"
    <3>1. SUFFICES ASSUME NEW o \in {"enter", "select"}, At(E, o) PROVE wake'
      BY <2>1 DEF NoLostWakeup
    <3>2. work[E] # <<>> /\ ~Has(E, {"add"})
      BY <1>1, <3>1, Alone
    <3> QED
      BY <2>2, <3>2 DEF RilInv, TableInv
  <2>3. CASE op # "triggerEvLoop"
    <3>1. ~At(M, "triggerEvLoop")
      BY <2>3 DEF At
    <3> QED
      BY <1>3, <2>1, <3>1 DEF RilInv, NoLostWakeup
  <2> QED
    BY <2>2, <2>3
<1> QED
  BY <1>4, <1>5, <1>6, <1>7, MainStep

\* main() makes the loop listen, and then watch the debug socket.
LEMMA mainAddKeeps ==
    ASSUME RilInv, ril_event_add(M), scenario' = scenario
    PROVE  RilInv'
<1>1. StackInv /\ LoopTypes /\ At(M, "add") /\ Goes(M, <<>>)
  BY DEF RilInv, ril_event_add
<1> DEFINE e == Head(work[M]).event
<1>2. /\ watch' = WithEvent(watch, e)
      /\ UNCHANGED <<dead, ended, sel, wake>> /\ UNCHANGED <<timers, block, last, lock>>
      /\ UNCHANGED <<client, backlog, inbox, fdCommand, sock, cut>> /\ UNCHANGED <<request, vendor>>
      /\ UNCHANGED <<stash, writer, stream, debug, used>>
  BY DEF ril_event_add, timerVars, sockVars, requestVars, sendVars
<1>3. (Len(work[M]) = 4 /\ e = "listen") \/ (Len(work[M]) = 2 /\ e = "debug")
  BY <1>1, MainTop
<1> HIDE DEF e
<1>4. /\ StackInv' /\ Len(work'[M]) = Len(work[M]) - 1
      /\ \A q \in Threads : q # M => work'[q] = work[q]
  BY <1>1, <1>2, MainGoes
<1>5. work'[E] = work[E] /\ work'[V] = work[V]
  BY <1>4 DEF Threads, E, V, M
<1>13. (Len(work[M]) >= 4 /\ e = "listen" /\ Len(work'[M]) = 3) \/ (Len(work[M]) >= 2 /\ e = "debug" /\ Len(work'[M]) = 1)
  <2>1. CASE Len(work[M]) = 4 /\ e = "listen"
    <3>1. Len(work[M]) - 1 = 3 /\ Len(work[M]) >= 4
      BY <2>1
    <3> QED
      BY <1>4, <2>1, <3>1
  <2>2. CASE Len(work[M]) = 2 /\ e = "debug"
    <3>1. Len(work[M]) - 1 = 1 /\ Len(work[M]) >= 2
      BY <2>2
    <3> QED
      BY <1>4, <2>2, <3>1
  <2> QED
    BY <1>3, <2>1, <2>2
<1>14. Len(work'[M]) \in {1, 3} /\ ~(Len(work'[M]) >= 4) /\ (Len(work'[M]) >= 2 => e = "listen" /\ Len(work[M]) >= 2)
  <2>1. CASE Len(work[M]) = 4 /\ Len(work'[M]) = 3 /\ e = "listen"
    BY <2>1
  <2>2. CASE Len(work'[M]) = 1
    BY <2>2
  <2> QED
    BY <1>3, <1>13, <2>1, <2>2
<1>6. e \in Events /\ e \notin Watched
  BY <1>13 DEF RilInv, TableInv, Events
<1>7. /\ watch' \in [1..MAX_FD_EVENTS -> Events \union {Null}] /\ slots' = slots
      /\ \A i, j \in slots : watch'[i] = watch'[j] => i = j \/ watch'[i] = Null
      /\ Watched \subseteq Watched' /\ Watched' \subseteq Watched \union {e}
  BY <1>1, <1>2, <1>6, Added
<1>8. LoopTypes'
  BY <1>1, <1>2, <1>7 DEF LoopTypes
<1>9. \A ops : Has(E, ops)' <=> Has(E, ops)
  BY <1>5 DEF Has
<1>10. Listening' => Listening
  <2>1. CASE e = "listen"
    BY <1>13, <2>1 DEF Listening
  <2>2. CASE e = "debug"
    BY <1>3, <1>7, <1>9, <1>14, <2>2 DEF Listening
  <2> QED
    BY <1>3, <2>1, <2>2
<1>11. TableInv'
  <2>1. ~(Len(work'[M]) >= 4)
    BY <1>14
  <2>2. "commands" \in Watched' <=> "commands" \in Watched
    BY <1>3, <1>7
  <2>3. "wakeup" \in Watched' <=> "wakeup" \in Watched
    BY <1>3, <1>7
  <2>4. ~("listen" \in Watched' /\ Has(E, {"listen"}))
    BY <1>7, <1>13 DEF RilInv, TableInv
  <2>5. Len(work'[M]) >= 2 => "debug" \notin Watched'
    BY <1>7, <1>14 DEF RilInv, TableInv
  <2>6. Has(E, {"enter", "select"}) => sel.fds \subseteq Watched'
    BY <1>7 DEF RilInv, TableInv
  <2> QED
    BY <1>2, <1>5, <1>9, <1>10, <2>1, <2>2, <2>3, <2>4, <2>5, <2>6 DEF RilInv, TableInv
<1>12. NoLostWakeup'
  <2>1. M \in Threads /\ Len(main) = 7 /\ main[5].op = "triggerEvLoop" /\ main[7].op = "triggerEvLoop"
    BY DEF Threads, main, I
  <2>2. Len(work'[M]) \in {1, 3} /\ work'[M] \in Seq(Instructions)
    BY <1>4, <1>14, <2>1 DEF StackInv
  <2>3. work'[M] # <<>> /\ 1 \in DOMAIN work'[M] /\ Head(work'[M]) = work'[M][1]
    BY <2>2
  <2>4. work'[M][1] = main[1 + Len(main) - Len(work'[M])]
    BY <1>4, <2>3 DEF StackInv
  <2>5. Head(work'[M]).op = "triggerEvLoop"
    <3>2. Len(work'[M]) = 1 \/ Len(work'[M]) = 3
      BY <2>2
    <3>3. 1 + 7 - 1 = 7 /\ 1 + 7 - 3 = 5
      OBVIOUS
    <3>1. 1 + Len(main) - Len(work'[M]) \in {5, 7}
      BY <2>1, <3>2, <3>3
    <3> QED
      BY <2>1, <2>3, <2>4, <3>1
  <2>6. At(M, "triggerEvLoop")'
    BY <2>3, <2>5 DEF At
  <2> QED
    BY <2>6 DEF NoLostWakeup
<1> QED
  BY <1>1, <1>2, <1>8, <1>10, <1>11, <1>12, MainStep

LEMMA MainKeeps ==
    ASSUME RilInv, Step(M), scenario' = scenario
    PROVE  RilInv'
<1>1. StackInv
  BY DEF RilInv
<1>2. \A op : At(M, op) => op \in {"RIL_startEventLoop", "RIL_Init", "RIL_register", "add", "triggerEvLoop"}
  BY <1>1, MainTop
<1>3. CASE ril_event_add(M)
  BY <1>3, mainAddKeeps
<1>4. CASE triggerEvLoop(M)
  <2>1. /\ At(M, "triggerEvLoop") /\ Goes(M, <<>>) /\ UNCHANGED <<dead, ended, watch, sel>>
        /\ UNCHANGED <<timers, block, last, lock>>
        /\ UNCHANGED <<client, backlog, inbox, fdCommand, sock, cut>> /\ UNCHANGED <<request, vendor>>
        /\ UNCHANGED <<stash, writer, stream, debug, used>> /\ wake' = (wake \/ "wakeup" \in Watched)
    BY <1>4 DEF triggerEvLoop, timerVars, sockVars, requestVars, sendVars
  <2>2. wake' \in BOOLEAN /\ (wake => wake')
    BY <2>1
  <2> QED
    BY <2>1, <2>2, MainCalm
<1>5. CASE RIL_startEventLoop \/ RIL_Init \/ RIL_register
  <2>1. PICK op \in {"RIL_startEventLoop", "RIL_Init", "RIL_register"} : At(M, op)
    BY <1>5 DEF RIL_startEventLoop, RIL_Init, RIL_register
  <2>2. /\ Goes(M, <<>>) /\ UNCHANGED <<dead, ended, watch, sel, wake>>
        /\ UNCHANGED <<timers, block, last, lock>>
        /\ UNCHANGED <<client, backlog, inbox, fdCommand, sock, cut>> /\ UNCHANGED <<request, vendor>>
        /\ UNCHANGED <<stash, writer, stream, debug, used>>
    BY <1>5 DEF RIL_startEventLoop, RIL_Init, RIL_register, loopVars, timerVars, sockVars, requestVars, sendVars
  <2>3. wake' \in BOOLEAN /\ (wake => wake')
    BY <2>2 DEF RilInv, LoopTypes
  <2> QED
    BY <2>1, <2>2, <2>3, MainCalm
<1>6. ~(\/ internalRequestTimedCallback(M) \/ setLast(M) \/ schedule(M) \/ cancelPrevious(M)
        \/ sendResponseRaw(M) \/ blockingWrite(M) \/ closeAfterWrite(M) \/ keepNITZ(M)
        \/ grabPartialWakeLock(M) \/ releaseWakeLock(M) \/ RIL_onRequestComplete(M))
  BY <1>2 DEF internalRequestTimedCallback, setLast, schedule, cancelPrevious, sendResponseRaw,
     blockingWrite, MayWrite, closeAfterWrite, keepNITZ, grabPartialWakeLock, releaseWakeLock,
     RIL_onRequestComplete
<1>7. M # E
  BY DEF E, M
<1> QED
  BY <1>3, <1>4, <1>5, <1>6, <1>7 DEF Step, Shared

-----------------------------------------------------------------------------
(* The vendor library's thread, and the processes outside. *)

OfVendor == OfReport \union {"complete"}

LEMMA FitsShape ==
    ASSUME NEW ins \in Seq(Instructions), NEW w, Fits(ins, w), \A i \in DOMAIN ins : ins[i].op \in OfVendor
    PROVE  Shape(ins)
  BY DEF Fits, Shape, OfVendor, OfReport

\* V begins something.
LEMMA VendorStarts ==
    ASSUME RilInv, ~dead, work[V] = <<>>,
           NEW ins \in Seq(Instructions), work' = [work EXCEPT ![V] = ins],
           Shape(ins), \A i \in DOMAIN ins : ins[i].op \in OfVendor,
           UNCHANGED <<dead, ended, watch, sel, wake>>, UNCHANGED <<timers, block, last, lock>>,
           UNCHANGED <<client, backlog, inbox, fdCommand, sock, cut>>, request' = request, vendor' \subseteq Requests,
           UNCHANGED <<stash, writer, stream>>, UNCHANGED debug, LoopTypes'
    PROVE  RilInv'
<1>1. /\ StackInv /\ {E, V, M} = Threads /\ E # V /\ M # V /\ E # M
  BY DEF RilInv, Threads, E, V, M
<1>2. /\ work' \in [Threads -> Seq(Instructions)] /\ work'[V] = ins
      /\ work'[E] = work[E] /\ work'[M] = work[M]
  BY <1>1 DEF StackInv
<1>3. StackInv'
  <2>1. \A i \in DOMAIN ins : ins[i].op \in OfV
    BY DEF OfVendor, OfReport, OfV
  <2> QED
    BY <1>1, <1>2, <2>1 DEF StackInv
<1>4. ~Writing(V) /\ ~At(V, "payload") /\ ~At(V, "triggerEvLoop")
  BY DEF Writing, At
<1>5. ~Writing(V)' /\ ~At(V, "payload")'
  <2>1. ins # <<>> => Head(ins) = ins[1] /\ 1 \in DOMAIN ins
    OBVIOUS
  <2> QED
    BY <1>2, <2>1 DEF Writing, At, OfVendor, OfReport
<1>6. /\ (Writing(E)' <=> Writing(E)) /\ (At(E, "payload")' <=> At(E, "payload"))
      /\ (At(E, "enter")' <=> At(E, "enter")) /\ (At(E, "select")' <=> At(E, "select"))
      /\ (At(M, "triggerEvLoop")' <=> At(M, "triggerEvLoop"))
      /\ \A ops : (Has(E, ops)' <=> Has(E, ops)) /\ (Has(M, ops)' <=> Has(M, ops))
      /\ \A ops : ~Has(V, ops)
      /\ Watched' = Watched
  BY <1>2 DEF Writing, At, Has, Watched, slots
<1>7. Listening' <=> Listening
  BY <1>2, <1>6 DEF Listening
<1>8. ClientTypes'
  BY DEF RilInv, ClientTypes
<1>9. TimerInv'
  BY <1>2 DEF RilInv, TimerInv
<1>10. TableInv'
  BY <1>2, <1>6, <1>7 DEF RilInv, TableInv
<1>11. StreamInv'
  <2>1. writer \in {E, Null}
    BY <1>4 DEF RilInv, StreamInv
  <2>2. (sock # Null => \/ dead
                        \/ stream[sock] \in {"whole", "orphan"}
                        \/ /\ writer # Null /\ stream[sock] = writer
                           /\ At(writer, "payload") => Head(work[writer]).conn = sock)'
    BY <1>2, <1>6, <2>1 DEF RilInv, StreamInv
  <2>3. (\A t \in {E, V} : Writing(t) => writer = t)' /\ (writer # Null => dead \/ (writer \in {E, V} /\ Writing(writer)))'
    BY <1>5, <1>6, <2>1 DEF RilInv, StreamInv
  <2>4. (\A t \in {E, V} : At(t, "payload") /\ Head(work[t]).conn = sock => stream[sock] \in {t, "orphan"})'
    BY <1>2, <1>5, <1>6 DEF RilInv, StreamInv
  <2>5. (\A t \in {E, V} : At(t, "payload") =>
            /\ client[Head(work[t]).conn] # "none"
            /\ \A i \in DOMAIN backlog : backlog[i] # Head(work[t]).conn)'
    BY <1>2, <1>5, <1>6 DEF RilInv, StreamInv
  <2> QED
    BY <2>2, <2>3, <2>4, <2>5 DEF RilInv, StreamInv
<1>12. RequestInv'
  BY <1>7, RequestKept DEF RilInv
<1>13. NoLostWakeup'
  BY <1>4, <1>6 DEF RilInv, NoLostWakeup
<1>14. LockReleased'
  <2>1. (\E t \in Threads : Has(t, {"schedule", "timer", "releaseWakeLock"}))
            => (\E t \in Threads : Has(t, {"schedule", "timer", "releaseWakeLock"})')
    BY <1>1, <1>6
  <2> QED
    BY <1>2, <2>1 DEF RilInv, LockReleased
<1> QED
  BY <1>3, <1>8, <1>9, <1>10, <1>11, <1>12, <1>13, <1>14, LoopTypes' DEF RilInv

LEMMA ReportKeeps ==
    ASSUME RilInv, Report, scenario' = scenario
    PROVE  RilInv'
<1>1. /\ ~dead /\ work[V] = <<>> /\ used.events < scenario.events
      /\ used' = [used EXCEPT !.events = @ + 1]
      /\ UNCHANGED <<dead, ended, watch, sel, wake>> /\ UNCHANGED <<timers, block, last, lock>>
      /\ UNCHANGED <<client, backlog, inbox, fdCommand, sock, cut>> /\ UNCHANGED <<request, vendor>>
      /\ UNCHANGED <<stash, writer, stream>> /\ UNCHANGED debug
  BY DEF Report, loopVars, timerVars, sockVars, requestVars, sendVars
<1>2. LoopTypes /\ scenario.events \in Nat /\ used.events \in Nat
  BY RilAssumption DEF RilInv, LoopTypes
<1>3. LoopTypes'
  <2>1. used' \in [commands : Nat, events : Nat, faults : Nat, debugs : Nat] /\ used'.events <= scenario.events
        /\ used'.commands = used.commands
    BY <1>1, <1>2 DEF LoopTypes
  <2> QED
    BY <1>1, <1>2, <2>1 DEF LoopTypes, slots
<1>4. PICK event \in {"nitz", "signal"}, marshals \in BOOLEAN :
        work' = [work EXCEPT ![V] = IF ~registered THEN <<>>
                   ELSE RIL_onUnsolicitedResponse(event,
                            IF event = "nitz" THEN used.events + 1 ELSE Null, marshals)]
  BY DEF Report
<1> DEFINE nitz == IF event = "nitz" THEN used.events + 1 ELSE Null
           ins == RIL_onUnsolicitedResponse(event, nitz, marshals)
<1>5. nitz \in Nat \union {Null}
  BY <1>2
<1>6. work' = [work EXCEPT ![V] = IF ~registered THEN <<>> ELSE ins]
  BY <1>4
<1> HIDE DEF nitz
<1>7. ins \in Seq(Instructions) /\ Fits(ins, <<>>) /\ \A i \in DOMAIN ins : ins[i].op \in OfReport
  BY <1>5, EventFits
<1> HIDE DEF ins
<1>8. Shape(ins) /\ \A i \in DOMAIN ins : ins[i].op \in OfVendor
  BY <1>7, FitsShape DEF OfVendor
<1>9. CASE registered
  <2>1. work' = [work EXCEPT ![V] = ins]
    BY <1>6, <1>9
  <2> QED
    BY <1>1, <1>3, <1>7, <1>8, <2>1, VendorStarts DEF RilInv, ClientTypes
<1>10. CASE ~registered
  <2>1. work' = [work EXCEPT ![V] = <<>>]
    BY <1>6, <1>10
  <2>2. <<>> \in Seq(Instructions) /\ Shape(<<>>) /\ DOMAIN <<>> = {}
    BY DEF Shape
  <2> QED
    BY <1>1, <1>3, <2>1, <2>2, VendorStarts DEF RilInv, ClientTypes
<1> QED
  BY <1>9, <1>10

LEMMA AnswerKeeps ==
    ASSUME RilInv, Answer, scenario' = scenario
    PROVE  RilInv'
<1>1. /\ ~dead /\ work[V] = <<>>
      /\ UNCHANGED <<dead, ended, watch, sel, wake>> /\ UNCHANGED <<timers, block, last, lock>>
      /\ UNCHANGED <<client, backlog, inbox, fdCommand, sock, cut>> /\ request' = request
      /\ UNCHANGED <<stash, writer, stream>> /\ UNCHANGED debug /\ used' = used
  BY DEF Answer, loopVars, timerVars, sockVars, sendVars
<1>2. PICK r \in vendor : vendor' = vendor \ {r} /\ work' = [work EXCEPT ![V] = Complete(r)]
  BY DEF Answer
<1>3. r \in Requests /\ vendor' \subseteq Requests
  BY <1>2 DEF RilInv, ClientTypes
<1> DEFINE x == [op |-> "complete", request |-> r]
           ins == <<x>>
<1>4. x \in Instructions /\ x.op = "complete"
  BY <1>3, Made
<1>5. work' = [work EXCEPT ![V] = ins]
  BY <1>2 DEF Complete
<1> HIDE DEF x
<1>6. ins \in Seq(Instructions) /\ Fits(ins, <<>>) /\ DOMAIN ins = {1} /\ ins[1] = x
  BY <1>4, FitsOne DEF Plainly
<1> HIDE DEF ins
<1>7. \A i \in DOMAIN ins : ins[i].op \in OfVendor
  BY <1>4, <1>6 DEF OfVendor
<1>8. Shape(ins)
  BY <1>6, <1>7, FitsShape
<1>9. LoopTypes'
  BY <1>1 DEF RilInv, LoopTypes, slots
<1> QED
  BY <1>1, <1>3, <1>5, <1>6, <1>7, <1>8, <1>9, VendorStarts

\* The processes outside carry out no instruction.
LEMMA OutsideStep ==
    ASSUME RilInv, work' = work, UNCHANGED <<dead, ended, watch, sel, wake>>, UNCHANGED <<timers, block, last, lock>>,
           UNCHANGED <<fdCommand, sock, cut>>, UNCHANGED <<request, vendor>>, UNCHANGED <<stash, writer, stream>>,
           Has(E, {"debug"}) => debug' = debug,
           LoopTypes', ClientTypes', StreamInv'
    PROVE  RilInv'
<1>1. /\ \A op : \A t \in Threads : At(t, op)' <=> At(t, op)
      /\ \A ops : \A t \in Threads : Has(t, ops)' <=> Has(t, ops)
      /\ Watched' = Watched /\ E \in Threads
  BY DEF At, Has, Watched, slots, Threads
<1>2. StackInv' /\ TimerInv' /\ LockReleased'
  BY DEF RilInv, StackInv, TimerInv, LockReleased, Has
<1>3. NoLostWakeup'
  BY DEF RilInv, NoLostWakeup, At, Watched, slots
<1>4. Listening' <=> Listening
  BY <1>1 DEF Listening
<1>5. TableInv'
  BY <1>1, <1>4 DEF RilInv, TableInv
<1>6. RequestInv'
  BY <1>4, RequestKept DEF RilInv
<1> QED
  BY <1>2, <1>3, <1>5, <1>6 DEF RilInv

LEMMA SendCommandKeeps ==
    ASSUME RilInv, NEW c \in Conns, SendCommand(c), scenario' = scenario
    PROVE  RilInv'
<1>1. /\ work' = work /\ UNCHANGED <<dead, ended, watch, sel, wake>> /\ UNCHANGED <<timers, block, last, lock>>
      /\ UNCHANGED <<fdCommand, sock, cut>> /\ UNCHANGED <<request, vendor>> /\ UNCHANGED <<stash, writer, stream>>
      /\ UNCHANGED <<client, backlog, debug>>
      /\ used.commands < scenario.commands /\ used' = [used EXCEPT !.commands = @ + 1]
      /\ inbox' = [inbox EXCEPT ![c] = @ + 1]
  BY DEF SendCommand, loopVars, timerVars, sockVars, requestVars, sendVars
<1>2. LoopTypes /\ scenario.commands \in Nat /\ used.commands \in Nat
  BY RilAssumption DEF RilInv, LoopTypes
<1>3. LoopTypes'
  <2>1. used' \in [commands : Nat, events : Nat, faults : Nat, debugs : Nat] /\ used'.commands <= scenario.commands
        /\ used'.events = used.events
    BY <1>1, <1>2 DEF LoopTypes
  <2> QED
    BY <1>1, <1>2, <2>1 DEF LoopTypes, slots
<1>4. ClientTypes'
  <2>1. inbox' \in [Conns -> Int]
    BY <1>1 DEF RilInv, ClientTypes
  <2> QED
    BY <1>1, <2>1 DEF RilInv, ClientTypes
<1>5. StreamInv'
  BY <1>1 DEF RilInv, StreamInv, Writing, At
<1> QED
  BY <1>1, <1>3, <1>4, <1>5, OutsideStep

LEMMA HangupKeeps ==
    ASSUME RilInv, NEW c \in Conns, Hangup(c), scenario' = scenario
    PROVE  RilInv'
<1>1. /\ work' = work /\ UNCHANGED <<dead, ended, watch, sel, wake>> /\ UNCHANGED <<timers, block, last, lock>>
      /\ UNCHANGED <<fdCommand, sock, cut>> /\ UNCHANGED <<request, vendor>> /\ UNCHANGED <<stash, writer, stream>>
      /\ UNCHANGED <<inbox, backlog, debug, used>>
      /\ client[c] = "open" /\ client' = [client EXCEPT ![c] = "gone"]
  BY DEF Hangup, Closed, loopVars, timerVars, sockVars, requestVars, sendVars
<1>2. LoopTypes'
  BY <1>1 DEF RilInv, LoopTypes, slots
<1>3. ClientTypes'
  BY <1>1 DEF RilInv, ClientTypes
<1>4. \A d \in Conns : client'[d] = "none" <=> client[d] = "none"
  BY <1>1 DEF RilInv, ClientTypes
<1>5. StreamInv'
  <2>1. \A i \in DOMAIN backlog : backlog[i] \in Conns
    BY DEF RilInv, ClientTypes
  <2>2. \A t \in {E, V} : At(t, "payload") => Head(work[t]).conn \in Conns
    BY HeadIs, Fields DEF RilInv, Threads
  <2>3. \A t, op : At(t, op)' <=> At(t, op)
    BY <1>1 DEF At
  <2>4. \A t : Writing(t)' <=> Writing(t)
    BY <2>3 DEF Writing
  <2>5. (\A i \in DOMAIN backlog :
            client[backlog[i]] # "none" /\ stream[backlog[i]] = "whole" /\ backlog[i] # sock)'
    BY <1>1, <1>4, <2>1 DEF RilInv, StreamInv
  <2>6. (\A d \in Conns : client[d] = "none" => stream[d] = "whole" /\ d # sock)'
    BY <1>1, <1>4 DEF RilInv, StreamInv
  <2>7. (\A t \in {E, V} : At(t, "payload") =>
            /\ client[Head(work[t]).conn] # "none"
            /\ \A i \in DOMAIN backlog : backlog[i] # Head(work[t]).conn)'
    BY <1>1, <1>4, <2>2, <2>3 DEF RilInv, StreamInv
  <2> QED
    BY <1>1, <2>3, <2>4, <2>5, <2>6, <2>7 DEF RilInv, StreamInv
<1> QED
  BY <1>1, <1>2, <1>3, <1>5, OutsideStep

\* A connection is made once, and has no part in anything before.
LEMMA ConnectKeeps ==
    ASSUME RilInv, NEW c \in Conns, Connect(c), scenario' = scenario
    PROVE  RilInv'
<1>1. /\ work' = work /\ UNCHANGED <<dead, ended, watch, sel, wake>> /\ UNCHANGED <<timers, block, last, lock>>
      /\ UNCHANGED <<fdCommand, sock, cut>> /\ UNCHANGED <<request, vendor>> /\ UNCHANGED <<stash, writer, stream>>
      /\ UNCHANGED <<inbox, debug, used>>
      /\ client[c] = "none" /\ client' = [client EXCEPT ![c] = "open"] /\ backlog' = Append(backlog, c)
  BY DEF Connect, loopVars, timerVars, sockVars, requestVars, sendVars
<1>2. LoopTypes'
  BY <1>1 DEF RilInv, LoopTypes, slots
<1>3. /\ client \in [Conns -> {"none", "open", "gone"}] /\ backlog \in Seq(Conns)
      /\ \A i \in DOMAIN backlog : backlog[i] \in Conns
  BY DEF RilInv, ClientTypes
<1>4. /\ client' \in [Conns -> {"none", "open", "gone"}] /\ backlog' \in Seq(Conns)
      /\ client'[c] = "open" /\ \A d \in Conns : d # c => client'[d] = client[d]
  BY <1>1, <1>3
<1>5. ClientTypes'
  BY <1>1, <1>4 DEF RilInv, ClientTypes
<1>6. \A i \in DOMAIN backlog' : (i \in DOMAIN backlog /\ backlog'[i] = backlog[i]) \/ (i = Len(backlog) + 1 /\ backlog'[i] = c)
  BY <1>1, <1>3
<1>7. stream[c] = "whole" /\ c # sock /\ \A i \in DOMAIN backlog : backlog[i] # c
  BY <1>1 DEF RilInv, StreamInv
<1>8. StreamInv'
  <2>2. \A t \in {E, V} : At(t, "payload") =>
            Head(work[t]).conn \in Conns /\ Head(work[t]).conn # c
    <3>1. \A t \in {E, V} : At(t, "payload") => Head(work[t]).conn \in Conns
      BY HeadIs, Fields DEF RilInv, Threads
    <3> QED
      BY <1>1, <3>1 DEF RilInv, StreamInv
  <2>3. \A t, op : At(t, op)' <=> At(t, op)
    BY <1>1 DEF At
  <2>4. \A t : Writing(t)' <=> Writing(t)
    BY <2>3 DEF Writing
  <2>5. (\A i \in DOMAIN backlog :
            client[backlog[i]] # "none" /\ stream[backlog[i]] = "whole" /\ backlog[i] # sock)'
    <3>1. ASSUME NEW i \in DOMAIN backlog'
          PROVE  client'[backlog'[i]] # "none" /\ stream[backlog'[i]] = "whole" /\ backlog'[i] # sock
      <4>1. CASE i \in DOMAIN backlog /\ backlog'[i] = backlog[i]
        BY <1>3, <1>4, <1>7, <4>1 DEF RilInv, StreamInv
      <4>2. CASE backlog'[i] = c
        BY <1>4, <1>7, <4>2
      <4> QED
        BY <1>6, <3>1, <4>1, <4>2
    <3> QED
      BY <1>1, <3>1
  <2>6. (\A d \in Conns : client[d] = "none" => stream[d] = "whole" /\ d # sock)'
    BY <1>1, <1>4 DEF RilInv, StreamInv
  <2>7. (\A t \in {E, V} : At(t, "payload") =>
            /\ client[Head(work[t]).conn] # "none"
            /\ \A i \in DOMAIN backlog : backlog[i] # Head(work[t]).conn)'
    <3>1. ASSUME NEW t \in {E, V}, At(t, "payload")
          PROVE  /\ client'[Head(work[t]).conn] # "none"
                 /\ \A i \in DOMAIN backlog' : backlog'[i] # Head(work[t]).conn
      <4>1. /\ client[Head(work[t]).conn] # "none"
            /\ \A i \in DOMAIN backlog : backlog[i] # Head(work[t]).conn
        BY <3>1 DEF RilInv, StreamInv
      <4> QED
        BY <1>4, <1>6, <2>2, <3>1, <4>1
    <3> QED
      BY <1>1, <2>3, <3>1
  <2>8. (\A i, j \in DOMAIN backlog : backlog[i] = backlog[j] => i = j)'
    <3>1. ASSUME NEW i \in DOMAIN backlog', NEW j \in DOMAIN backlog', backlog'[i] = backlog'[j] PROVE i = j
      BY <1>6, <1>7, <3>1 DEF RilInv, StreamInv
    <3> QED
      BY <3>1
  <2> QED
    BY <1>1, <2>3, <2>4, <2>5, <2>6, <2>7, <2>8 DEF RilInv, StreamInv
<1> QED
  BY <1>1, <1>2, <1>5, <1>8, OutsideStep

LEMMA radiooptionsKeeps ==
    ASSUME RilInv, NEW option \in scenario.options, radiooptions(option), scenario' = scenario
    PROVE  RilInv'
<1>1. /\ work' = work /\ UNCHANGED <<dead, ended, watch, sel, wake>> /\ UNCHANGED <<timers, block, last, lock>>
      /\ UNCHANGED <<fdCommand, sock, cut>> /\ UNCHANGED <<request, vendor>> /\ UNCHANGED <<stash, writer, stream>>
      /\ UNCHANGED <<client, inbox, backlog>>
      /\ debug = Null /\ debug' = option /\ used' = [used EXCEPT !.debugs = 1]
  BY DEF radiooptions, loopVars, timerVars, sockVars, requestVars, sendVars
<1>2. ~Has(E, {"debug"})
  BY <1>1 DEF RilInv, TableInv
<1>3. option \in {"off", "local", "on", "unsol"}
  BY RilAssumption DEF RilInv, LoopTypes
<1>4. LoopTypes'
  <2>1. used' \in [commands : Nat, events : Nat, faults : Nat, debugs : Nat] /\ used'.commands = used.commands
        /\ used'.events = used.events
    BY <1>1 DEF RilInv, LoopTypes
  <2> QED
    BY <1>1, <1>3, <2>1 DEF RilInv, LoopTypes, slots
<1>5. ClientTypes'
  BY <1>1 DEF RilInv, ClientTypes
<1>6. StreamInv'
  BY <1>1 DEF RilInv, StreamInv, Writing, At
<1> QED
  BY <1>1, <1>2, <1>4, <1>5, <1>6, OutsideStep

-----------------------------------------------------------------------------
(* The system. *)

LEMMA MainIs ==
    /\ main \in Seq(Instructions) /\ Len(main) = 7
    /\ eventLoop \in Seq(Instructions) /\ eventLoop # <<>> /\ Head(eventLoop).op = "ril_event_init" /\ Shape(eventLoop)
    /\ \A i \in DOMAIN eventLoop : eventLoop[i].op \in {"ril_event_init", "add", "ril_event_loop"}
    /\ \A i \in DOMAIN eventLoop : eventLoop[i].op = "add" => eventLoop[i].event = "wakeup"
    /\ \E i \in DOMAIN eventLoop : eventLoop[i].op = "add"
<1> DEFINE a == I("ril_event_init")
           b == Add("wakeup")
           c == I("ril_event_loop")
           w == <<a, b, c>>
<1>1. /\ a \in Instructions /\ a.op = "ril_event_init" /\ b \in Instructions /\ b.op = "add" /\ b.event = "wakeup"
      /\ c \in Instructions /\ c.op = "ril_event_loop"
  BY Made DEF Plain
<1> HIDE DEF a, b, c
<1>2. w \in Seq(Instructions) /\ DOMAIN w = {1, 2, 3} /\ Len(w) = 3 /\ w[1] = a /\ w[2] = b /\ w[3] = c /\ w # <<>> /\ Head(w) = a
  BY <1>1
<1>3. w = eventLoop
  BY DEF eventLoop, a, b, c
<1> HIDE DEF w
<1>4. Shape(w)
  BY <1>1, <1>2 DEF Shape, Under
<1>5. main \in Seq(Instructions) /\ Len(main) = 7
  <2> DEFINE p == I("RIL_startEventLoop")
             q == I("RIL_Init")
             r == I("RIL_register")
             s == Add("listen")
             t == I("triggerEvLoop")
             u == Add("debug")
  <2>1. /\ p \in Instructions /\ q \in Instructions /\ r \in Instructions /\ s \in Instructions
        /\ t \in Instructions /\ u \in Instructions
    BY Made DEF Plain
  <2>2. main = <<p, q, r, s, t, u, t>>
    BY DEF main
  <2> HIDE DEF p, q, r, s, t, u
  <2> QED
    BY <2>1, <2>2
<1>6. /\ \A i \in DOMAIN w : w[i].op \in {"ril_event_init", "add", "ril_event_loop"}
      /\ \A i \in DOMAIN w : w[i].op = "add" => w[i].event = "wakeup"
      /\ \E i \in DOMAIN w : w[i].op = "add"
  BY <1>1, <1>2
<1> QED
  BY <1>1, <1>2, <1>3, <1>4, <1>5, <1>6

LEMMA RilInit ==
    ASSUME Init
    PROVE  RilInv
<1>1. work[E] = eventLoop /\ work[M] = main /\ work[V] = <<>> /\ work \in [Threads -> Seq(Instructions)]
  <2>1. \A t \in Threads : Stacks[t] \in Seq(Instructions)
    BY MainIs DEF Stacks
  <2>2. Stacks[E] = eventLoop /\ Stacks[M] = main /\ Stacks[V] = <<>>
    BY DEF Stacks, Threads, E, V, M
  <2>3. Stacks \in [Threads -> Seq(Instructions)]
    BY <2>1 DEF Stacks
  <2> QED
    BY <2>2, <2>3 DEF Init
<1>2. /\ \A ops : Has(E, ops) => \E op \in {"ril_event_init", "add", "ril_event_loop"} : op \in ops
      /\ Has(E, {"add"})
  BY <1>1, MainIs DEF Has
<1>3. /\ ~Has(E, {"listen"}) /\ ~Has(E, {"commands"}) /\ ~Has(E, {"checkCredentials"})
      /\ ~Has(E, {"enter", "select"}) /\ ~Has(E, {"debug"})
  BY <1>2
<1>4. \A op : (At(E, op) => op = "ril_event_init") /\ ~At(V, op)
  BY <1>1, MainIs DEF At
<1>5. Watched = {} /\ slots = 1..MAX_FD_EVENTS
  BY DEF Init, Watched, slots
<1>6. StackInv
  <2>1. \A i \in DOMAIN eventLoop : eventLoop[i].op \notin NotOfE
    BY MainIs DEF NotOfE
  <2>2. Shape(<<>>) /\ DOMAIN <<>> = {}
    BY DEF Shape
  <2>3. Len(work[M]) <= Len(main) /\ \A i \in DOMAIN work[M] : work[M][i] = main[i + Len(main) - Len(work[M])]
    BY <1>1, MainIs
  <2>4. ~dead
    BY DEF Init
  <2> QED
    BY <1>1, <2>1, <2>2, <2>3, <2>4, MainIs DEF StackInv
<1>7. LoopTypes
  <2>1. scenario \in Scenarios /\ scenario.commands \in Nat /\ scenario.events \in Nat
    BY RilAssumption DEF Init
  <2>2. used \in [commands : Nat, events : Nat, faults : Nat, debugs : Nat]
        /\ used.commands = 0 /\ used.events = 0
    BY DEF Init
  <2>3. sel \in [fds : SUBSET Events, wait : BOOLEAN, sock : Conns \union {Null}]
    BY DEF Init
  <2>4. /\ watch \in [1..MAX_FD_EVENTS -> Events \union {Null}]
        /\ \A i, j \in slots : watch[i] = watch[j] => i = j \/ watch[i] = Null
    BY <1>5 DEF Init
  <2>5. dead \in BOOLEAN /\ ended \in BOOLEAN /\ wake \in BOOLEAN /\ debug = Null
    BY DEF Init
  <2>6. used.commands <= scenario.commands /\ used.events <= scenario.events
    BY <2>1, <2>2
  <2> QED
    BY <2>1, <2>2, <2>3, <2>4, <2>5, <2>6 DEF LoopTypes
<1>8. ClientTypes
  <2>1. request \in [Requests -> [conn : Conns \union {Null}, local : BOOLEAN, cancelled : BOOLEAN, pending : BOOLEAN]]
    BY DEF Init, NoRequest
  <2>2. backlog \in Seq(Conns)
    BY DEF Init
  <2>3. /\ client \in [Conns -> {"none", "open", "gone"}] /\ inbox \in [Conns -> Int]
        /\ stream \in [Conns -> {"whole", "orphan", E, V}]
    BY DEF Init
  <2> QED
    BY <2>1, <2>2, <2>3 DEF Init, ClientTypes
<1>9. TimerInv
  <2>1. timers \in Seq(Blocks) /\ IsInjective(timers) /\ DOMAIN timers = {}
    BY DEF Init, IsInjective
  <2>2. \A i \in DOMAIN work[E] : work[E][i].op \notin {"userTimerCallback", "free"}
    BY <1>1, MainIs
  <2> QED
    BY <2>1, <2>2 DEF Init, TimerInv
<1>10. TableInv
  BY <1>2, <1>3, <1>5 DEF Init, TableInv
<1>11. StreamInv
  <2>1. \A t \in {E, V} : ~Writing(t) /\ ~At(t, "payload")
    BY <1>4 DEF Writing
  <2>2. DOMAIN backlog = {} /\ writer = Null /\ sock = Null /\ \A c \in Conns : stream[c] = "whole" /\ c # sock
    BY RilAssumption DEF Init
  <2> QED
    BY <2>1, <2>2 DEF StreamInv
<1>12. RequestInv
  <2>1. \A r \in Requests : ~request[r].pending
    BY DEF Init, NoRequest
  <2> QED
    BY <2>1 DEF RequestInv, PendingIsCurrent, Current
<1>13. NoLostWakeup
  BY <1>4 DEF NoLostWakeup
<1>14. LockReleased
  BY DEF Init, LockReleased
<1> QED
  BY <1>6, <1>7, <1>8, <1>9, <1>10, <1>11, <1>12, <1>13, <1>14 DEF RilInv

LEMMA RilStutter ==
    ASSUME RilInv, UNCHANGED vars
    PROVE  RilInv'
<1>1. /\ scenario' = scenario /\ work' = work /\ UNCHANGED <<dead, ended, watch, sel, wake>>
      /\ UNCHANGED <<timers, block, last, lock>> /\ UNCHANGED <<client, backlog, inbox, fdCommand, sock, cut>>
      /\ UNCHANGED <<request, vendor>> /\ UNCHANGED <<stash, writer, stream, debug, used>>
  BY DEF vars, loopVars, timerVars, sockVars, requestVars, sendVars
<1>2. LoopTypes'
  BY <1>1 DEF RilInv, LoopTypes, slots
<1>3. ClientTypes'
  BY <1>1 DEF RilInv, ClientTypes
<1>4. StreamInv'
  BY <1>1 DEF RilInv, StreamInv, Writing, At
<1> QED
  BY <1>1, <1>2, <1>3, <1>4, OutsideStep

LEMMA RilNext ==
    ASSUME RilInv, [Next]_vars
    PROVE  RilInv'
<1>1. CASE UNCHANGED vars
  BY <1>1, RilStutter
<1>2. CASE Run
  <2>1. PICK t \in Threads : Step(t) /\ scenario' = scenario
    BY <1>2 DEF Run
  <2>2. CASE t = M
    BY <2>1, <2>2, MainKeeps
  <2>3. CASE t \in {E, V} /\ Shared(t)
    BY <2>1, <2>3, SharedKeeps
  <2>4. CASE t = E /\ Loop
    <3>1. CASE processCommandsCallback
      BY <2>1, <3>1, processCommandKeeps, commandsReadKeeps, processCommandsClosedKeeps, commandsAssertionKeeps
         DEF processCommandsCallback
    <3> QED
      BY <2>1, <2>4, <3>1, ril_event_initKeeps, snapshotKeeps, enterKeeps, selectKeeps, processWakeupCallbackKeeps,
         userTimerCallbackKeeps, freeTimerKeeps, issueLocalRequestKeeps, acceptKeeps, acceptPhoneKeeps,
         refuseStrangerKeeps, sendNITZKeeps, freeNITZKeeps, debugCallbackKeeps, closeCommandKeeps DEF Loop
  <2> QED
    BY <2>1, <2>2, <2>3, <2>4 DEF Step, Threads
<1>3. CASE (Report \/ Answer \/ Outside) /\ UNCHANGED scenario
  <2>1. CASE Outside
    BY <1>3, <2>1, ConnectKeeps, SendCommandKeeps, HangupKeeps, radiooptionsKeeps DEF Outside
  <2> QED
    BY <1>3, <2>1, ReportKeeps, AnswerKeeps
<1> QED
  BY <1>1, <1>2, <1>3 DEF Next

\* What the three threads, the clients and the vendor library's events leave true
\* of the daemon, in whatever order they run.
THEOREM RilInvariant == Spec => []RilInv
<1>1. Init => RilInv
  BY RilInit
<1>2. RilInv /\ [Next]_vars => RilInv'
  BY RilNext
<1> QED
  BY <1>1, <1>2, PTL DEF Spec

\* There is one client at a time, frames of two threads are not mixed on one
\* connection (until it gets a payload whose header went to the one before), and the
\* requests on the list that are not marked are the client's own: of any number of
\* clients, whoever hangs up, is refused or cannot be written to.
THEOREM OneClientIsServed == Spec => []OneClientServed
<1>1. RilInv => OneClientServed
  <2> SUFFICES ASSUME RilInv PROVE OneClientServed
    OBVIOUS
  <2>1. TypeOK
    <3>1. ASSUME NEW t \in Threads, NEW i \in DOMAIN work[t] PROVE work[t][i].op \in Ops
      <4>1. work[t][i] \in Instructions
        BY DEF RilInv, StackInv
      <4> QED
        BY <4>1, Fields DEF Ops, Plain, OfBlock
    <3>2. Watched \subseteq {"wakeup", "listen", "debug", "commands"}
      BY DEF RilInv, LoopTypes, Watched, slots, Events
    <3>3. \A i, j \in slots : watch[i] = watch[j] => i = j \/ watch[i] = Null
      BY DEF RilInv, LoopTypes
    <3>4. IsInjective(timers) /\ \A b \in Range(timers) : block[b] # Free
      BY DEF RilInv, TimerInv, Range
    <3>5. /\ ended \in BOOLEAN /\ fdCommand \in BOOLEAN /\ lock \in BOOLEAN /\ wake \in BOOLEAN
      BY DEF RilInv, LoopTypes, ClientTypes, TimerInv
    <3>6. /\ sock \in Conns \union {Null} /\ writer \in Threads \union {Null}
          /\ used.commands <= scenario.commands /\ used.events <= scenario.events
      BY DEF RilInv, LoopTypes, ClientTypes
    <3> QED
      BY <3>1, <3>2, <3>3, <3>4, <3>5, <3>6 DEF TypeOK
  <2>2. OneClient
    <3>1. At(E, "listen") => Has(E, {"listen"})
      BY HasTop DEF RilInv, Threads
    <3> QED
      BY <3>1 DEF OneClient, RilInv, TableInv, Listening
  <2>3. FramesUnmixed
    BY DEF FramesUnmixed, RilInv, ClientTypes, E, V
  <2> QED
    BY <2>1, <2>2, <2>3 DEF OneClientServed, RilInv, RequestInv
<1> QED
  BY <1>1, RilInvariant, PTL

\* The event loop ends only when another than processCommandsCallback has closed
\* the socket it watches, whatever connects, hangs up or is refused.
THEOREM LoopDoesSurvive == Spec => []LoopSurvives
<1>1. RilInv => LoopSurvives
  BY DEF RilInv, TableInv, LoopSurvives
<1> QED
  BY <1>1, RilInvariant, PTL

\* The event loop never waits with a table of events or a timeout that is out of
\* date, without a byte in the wakeup pipe or a thread about to write it.
THEOREM NoWakeupIsLost == Spec => []NoLostWakeup
<1>1. RilInv => NoLostWakeup
  BY DEF RilInv
<1> QED
  BY <1>1, RilInvariant, PTL

\* Whoever takes the wake lock gives it back or leaves a timer that will, although
\* the pointer to the last timer is read and written without a mutex and may
\* point to memory that was freed and allocated again.
THEOREM LockIsReleased == Spec => []LockReleased
<1>1. RilInv => LockReleased
  BY DEF RilInv
<1> QED
  BY <1>1, RilInvariant, PTL
=============================================================================
